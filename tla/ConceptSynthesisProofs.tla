------------------------ MODULE ConceptSynthesisProofs ------------------------
(* Theorems about ConceptSynthesis, for any processes, workers and         *)
(* connections, and any number of slices and faults.                       *)
EXTENDS ConceptSynthesis, FiniteSetTheorems, TLAPS

-----------------------------------------------------------------------------
(* Type correctness                                                        *)

LEMMA MishapType ==
  ASSUME TypeOK, Mishap \/ Smooth \/ mishaps' = mishaps
  PROVE  mishaps' \in 0..MaxFaults
BY BoundsAssumption DEF TypeOK, Mishap, Smooth

LEMMA NothingType == Nothing \in [Numbers -> 0..2]
BY DEF Nothing

LEMMA IdleType == Idle \in Work
BY NothingType DEF Idle, Work

LEMMA MoveType ==
  ASSUME TypeOK, NEW w \in Workers,
         NEW pc \in {"idle", "listing", "call", "release", "refining"}
  PROVE  [work EXCEPT ![w].pc = pc] \in [Workers -> Work]
<1> DEFINE x == [work[w] EXCEPT !.pc = pc]
<1>1. x \in Work
  BY DEF TypeOK, Work
<1>2. [work EXCEPT ![w] = x] \in [Workers -> Work]
  BY <1>1 DEF TypeOK
<1> QED
  BY <1>2

LEMMA RowsAreNumbers == ASSUME TypeOK PROVE Rows \subseteq Numbers
BY BoundsAssumption DEF TypeOK, Rows, Numbers

LEMMA ListedType == ASSUME TypeOK PROVE Listed \in [Numbers -> 0..2]
<1>1. \A n \in Rows : slices[n] \in SliceRow
  BY DEF TypeOK, Rows
<1>2. \A n \in Rows : slices[n].edition \in 1..2
  BY <1>1 DEF SliceRow
<1> QED
  BY <1>2 DEF Listed

LEMMA RewrittenType ==
  ASSUME NEW s \in SliceRow, NEW complete \in BOOLEAN
  PROVE  [s EXCEPT !.edition = 2, !.complete = complete] \in SliceRow
<1> DEFINE r == [s EXCEPT !.edition = 2]
           q == [r EXCEPT !.complete = complete]
<1>1. r \in SliceRow
  BY DEF SliceRow
<1>2. q \in SliceRow
  BY <1>1 DEF SliceRow
<1> QED
  BY <1>2

LEMMA WriteSliceType ==
  ASSUME TypeOK, NEW complete \in BOOLEAN, WriteSlice(complete)
  PROVE  TypeOK'
<1>1. CASE \E k \in GroupConcepts : AddSlice(k, complete)
  BY <1>1, BoundsAssumption DEF TypeOK, WriteSlice, AddSlice, SliceRow, Work, Numbers
<1>2. CASE \E n \in Rows : RewriteSlice(n, complete)
  <2>1. PICK n \in Rows : RewriteSlice(n, complete)
    BY <1>2
  <2>2. slices' = [slices EXCEPT ![n] =
                     [slices[n] EXCEPT !.edition = 2, !.complete = complete]]
    BY <2>1 DEF RewriteSlice, TypeOK, Rows
  <2>3. [slices[n] EXCEPT !.edition = 2, !.complete = complete] \in SliceRow
    <3>1. slices[n] \in SliceRow
      BY DEF TypeOK, Rows
    <3> QED
      BY <3>1, RewrittenType
  <2>4. slices' \in Seq(SliceRow) /\ Len(slices') = Len(slices)
    BY <2>2, <2>3 DEF TypeOK, Rows
  <2> QED
    BY <2>4 DEF TypeOK, WriteSlice, Work, Numbers
<1> QED
  BY <1>1, <1>2 DEF WriteSlice

LEMMA LockTypes ==
  ASSUME TypeOK, NEW w \in Workers, NEW c \in Conns,
         \/ Take(w, c) \/ Refused(w, c) \/ TakeToRefine(w, c) \/ Release(w, c)
  PROVE  TypeOK'
<1> USE NoConnAssumption, BoundsAssumption, MishapType DEF TypeOK, Work, Numbers
<1>1. CASE Take(w, c)
  <2>1. /\ holder' = c /\ depth' \in 0..MaxDepth /\ depth' # 0
        /\ folds' \in Nat /\ overlapped' \in BOOLEAN
    BY <1>1 DEF Take, Lock
  <2>2. work' \in [Workers -> Work]
    BY <1>1, MoveType DEF Take
  <2> QED
    BY <1>1, <2>1, <2>2 DEF Take
<1>2. CASE Refused(w, c)
  BY <1>2 DEF Refused
<1>3. CASE TakeToRefine(w, c)
  <2>1. holder' = c /\ depth' \in 0..MaxDepth /\ depth' # 0
    BY <1>3 DEF TakeToRefine, Lock
  <2>2. work' \in [Workers -> Work]
    BY <1>3, MoveType DEF TakeToRefine
  <2> QED
    BY <1>3, <2>1, <2>2 DEF TakeToRefine
<1>4. CASE Release(w, c)
  <2>1. work' \in [Workers -> Work]
    BY <1>4, IdleType DEF Release
  <2>2. /\ holder' \in Conns \cup {NoConn} /\ depth' \in 0..MaxDepth
        /\ (holder' = NoConn) = (depth' = 0)
    BY <1>4 DEF Release, Unlock
  <2> QED
    BY <1>4, <2>1, <2>2 DEF Release
<1> QED
  BY <1>1, <1>2, <1>3, <1>4

LEMMA RetriedType ==
  ASSUME TypeOK, NEW n \in Nat, Retried(n)
  PROVE  /\ folds' \in Nat /\ folds <= folds' /\ dropped' \in BOOLEAN
         /\ dropped => dropped'
         /\ n > 0 => folds' > 0 \/ dropped'
<1>1. PICK again \in 0..n : /\ folds' = folds + again
                            /\ dropped' = (dropped \/ again < n)
  BY DEF Retried
<1>2. folds \in Nat /\ dropped \in BOOLEAN
  BY DEF TypeOK
<1>3. folds' \in Nat /\ folds <= folds'
  BY <1>1, <1>2
<1>4. n > 0 => folds' > 0 \/ again < n
  BY <1>1, <1>2
<1> QED
  BY <1>1, <1>2, <1>3, <1>4, Zenon

LEMMA FoldTypes ==
  ASSUME TypeOK, NEW w \in Workers, Fold(w)
  PROVE  TypeOK'
<1> USE MishapType DEF TypeOK, Work, Numbers
<1>1. CASE List(w)
  <2>1. ASSUME NEW pc \in {"release", "call"}
        PROVE  [work EXCEPT ![w].pc = pc, ![w].seen = Listed]
                 \in [Workers -> Work]
    <3> DEFINE m == [work[w] EXCEPT !.pc = pc]
               n == [m EXCEPT !.seen = Listed]
    <3>1. m \in Work
      OBVIOUS
    <3>2. n \in Work
      <4> HIDE DEF m
      <4> QED
        BY <3>1, ListedType
    <3>3. [work EXCEPT ![w] = n] \in [Workers -> Work]
      <4> HIDE DEF n
      <4> QED
        BY <3>2
    <3> QED
      BY <3>3
  <2> QED
    BY <1>1, <2>1 DEF List
<1>2. CASE Write(w)
  BY <1>2 DEF Write
<1>3. CASE Fails(w)
  <2>1. work' \in [Workers -> Work]
    BY <1>3, MoveType DEF Fails
  <2>2. mishaps' \in 0..MaxFaults
    BY <1>3 DEF Fails
  <2>3. folds' \in Nat /\ dropped' \in BOOLEAN
    BY <1>3, RetriedType DEF Fails
  <2> QED
    BY <1>3, <2>1, <2>2, <2>3 DEF Fails
<1> QED
  BY <1>1, <1>2, <1>3 DEF Fold

LEMMA FaultTypes ==
  ASSUME TypeOK, (\E c \in Conns : Close(c)) \/ (\E p \in Procs : Crash(p))
  PROVE  TypeOK'
<1> USE MishapType, BoundsAssumption DEF TypeOK, Numbers
<1>1. ASSUME NEW c \in Conns, Close(c)
      PROVE  TypeOK'
  BY <1>1 DEF Close
<1>2. ASSUME NEW p \in Procs, Crash(p)
      PROVE  TypeOK'
  <2> DEFINE gone == {w \in Workers : Home[w] = p /\ work[w].pc # "idle"}
  <2>1. Cardinality({w \in gone : w \in Folders}) \in Nat
    BY FoldersAssumption, FS_Subset, FS_CardinalityType
  <2>2. folds' \in Nat /\ dropped' \in BOOLEAN
    BY <1>2, <2>1, RetriedType DEF Crash
  <2>3. work' \in [Workers -> Work]
    BY <1>2, IdleType DEF Crash
  <2>4. /\ holder' \in Conns \cup {NoConn} /\ depth' \in 0..MaxDepth
        /\ (holder' = NoConn) = (depth' = 0)
    BY <1>2 DEF Crash
  <2> QED
    BY <1>2, <2>2, <2>3, <2>4 DEF Crash
<1> QED
  BY <1>1, <1>2

LEMMA InitType == Init => TypeOK
<1> SUFFICES ASSUME Init PROVE TypeOK
  OBVIOUS
<1> USE DEF Init
<1>1. slices \in Seq(SliceRow) /\ Len(slices) <= MaxSlices
  BY BoundsAssumption
<1>2. folded \in [Numbers -> 0..2] /\ work \in [Workers -> Work]
  BY NothingType, IdleType
<1>3. /\ holder \in Conns \cup {NoConn} /\ depth \in 0..MaxDepth
      /\ (holder = NoConn) = (depth = 0) /\ mishaps \in 0..MaxFaults
      /\ folds \in Nat
  BY BoundsAssumption
<1>4. {dropped, overlapped, closed} \subseteq BOOLEAN
  OBVIOUS
<1> QED
  BY <1>1, <1>2, <1>3, <1>4 DEF TypeOK

LEMMA NextType == TypeOK /\ [Next]_vars => TypeOK'
<1> SUFFICES ASSUME TypeOK, [Next]_vars PROVE TypeOK'
  OBVIOUS
<1>1. CASE UNCHANGED vars
  BY <1>1 DEF TypeOK, vars, Work, Numbers
<1>2. CASE Next
  BY <1>2, WriteSliceType, LockTypes, FoldTypes, FaultTypes
     DEF Next, OwnConns
<1> QED
  BY <1>1, <1>2

(* Every variable keeps its type, and a session has the lock exactly when  *)
(* it has taken it more often than it has given it back.                   *)
THEOREM TypeCorrect == Spec => []TypeOK
BY InitType, NextType, PTL DEF Spec

-----------------------------------------------------------------------------
(* The lock keeps the processes apart                                      *)

Holders == {w \in Workers : Holding(w)}

(* A connection that has the lock has it at least once for every worker    *)
(* that believes to have it, all of them of the connection's process: a    *)
(* release through another connection of the pool leaves the count high,   *)
(* and never takes it below the number of the workers that are left.       *)
Counted == ~closed => /\ Cardinality(Holders) <= depth
                      /\ \A w \in Holders : Home[holder] = Home[w]

LEMMA HoldersFinite ==
  IsFiniteSet(Holders) /\ Cardinality(Holders) \in Nat
BY FoldersAssumption, FS_Subset, FS_CardinalityType DEF Holders

(* Who holds what while the workers stay where they are.                   *)
LEMMA OneMoves ==
  ASSUME TypeOK, NEW w \in Workers, NEW pc,
         \/ work' = [work EXCEPT ![w].pc = pc]
         \/ \E seen : work' = [work EXCEPT ![w].pc = pc, ![w].seen = seen]
  PROVE  /\ work'[w].pc = pc
         /\ \A v \in Workers \ {w} : work'[v] = work[v]
<1>1. work[w] = [pc |-> work[w].pc, seen |-> work[w].seen]
  BY DEF TypeOK, Work
<1>2. CASE work' = [work EXCEPT ![w].pc = pc]
  BY <1>1, <1>2 DEF TypeOK
<1>3. ASSUME NEW seen, work' = [work EXCEPT ![w].pc = pc, ![w].seen = seen]
      PROVE  /\ work'[w].pc = pc
             /\ \A v \in Workers \ {w} : work'[v] = work[v]
  BY <1>1, <1>3 DEF TypeOK
<1> QED
  BY <1>2, <1>3

LEMMA NobodyHolds ==
  ASSUME TypeOK, Counted, ~closed, holder = NoConn
  PROVE  Holders = {}
BY HoldersFinite, FS_EmptySet DEF TypeOK, Counted

LEMMA FewerHolders ==
  ASSUME Holders' \subseteq Holders
  PROVE  Cardinality(Holders') <= Cardinality(Holders)
         /\ Cardinality(Holders') \in Nat
<1>1. IsFiniteSet(Holders') /\ Holders' \in SUBSET Holders
  BY HoldersFinite, FS_Subset
<1> QED
  BY <1>1, HoldersFinite, FS_Subset, FS_CardinalityType

LEMMA TakenCounted ==
  ASSUME TypeOK, Counted, NEW w \in Workers, NEW c \in OwnConns(w),
         LockFree(c), Lock(c), closed' = closed,
         Holders' = Holders \cup {w}
  PROVE  Counted'
<1> SUFFICES ASSUME ~closed PROVE Counted'
  BY DEF Counted
<1>1. Cardinality(Holders') <= Cardinality(Holders) + 1
      /\ Cardinality(Holders') \in Nat
  <2>1. /\ IsFiniteSet(Holders \cup {w})
        /\ Cardinality(Holders \cup {w}) =
             IF w \in Holders THEN Cardinality(Holders)
                              ELSE Cardinality(Holders) + 1
    BY HoldersFinite, FS_AddElement
  <2> QED
    BY <2>1, HoldersFinite
<1>2. Cardinality(Holders) <= depth /\ depth \in Nat /\ depth' = depth + 1
  BY BoundsAssumption DEF Counted, Lock, TypeOK
<1>3. Cardinality(Holders') <= depth'
  BY <1>1, <1>2, HoldersFinite
<1>4. \A v \in Holders' : Home[holder'] = Home[v]
  <2>1. holder' = c /\ Home[c] = Home[w]
    BY DEF Lock, OwnConns
  <2>2. \A v \in Holders : Home[c] = Home[v]
    BY NobodyHolds DEF LockFree, Counted
  <2> QED
    BY <2>1, <2>2
<1> QED
  BY <1>3, <1>4 DEF Counted

LEMMA ReleasedCounted ==
  ASSUME TypeOK, Counted, NEW w \in Workers, NEW c \in OwnConns(w),
         Release(w, c)
  PROVE  Counted'
<1> SUFFICES ASSUME ~closed PROVE Counted'
  BY DEF Counted, Release
<1>1. w \in Holders /\ Holders' = Holders \ {w}
  BY DEF Release, Holders, Holding, Idle, TypeOK
<1>2. Cardinality(Holders') = Cardinality(Holders) - 1
      /\ Cardinality(Holders') \in Nat
  BY <1>1, HoldersFinite, FS_RemoveElement, FS_CardinalityType
<1>3. Cardinality(Holders) <= depth /\ depth \in Nat
  BY BoundsAssumption DEF Counted, TypeOK
<1>4. CASE holder = c /\ depth = 1
  <2>1. IsFiniteSet(Holders') /\ Cardinality(Holders') = 0 /\ depth' = 0
    BY <1>1, <1>2, <1>3, <1>4, HoldersFinite, FS_RemoveElement
       DEF Release, Unlock
  <2>2. Holders' = {}
    BY <2>1, FS_EmptySet
  <2> QED
    BY <2>1, <2>2 DEF Counted
<1>5. CASE ~(holder = c /\ depth = 1)
  <2>1. holder' = holder /\ depth' \in {depth, depth - 1}
    BY <1>5 DEF Release, Unlock
  <2>2. Cardinality(Holders') <= depth'
    BY <1>2, <1>3, <2>1, HoldersFinite
  <2> QED
    BY <1>1, <2>1, <2>2 DEF Counted
<1> QED
  BY <1>4, <1>5

LEMMA CrashCounted ==
  ASSUME TypeOK, Counted, NEW p \in Procs, Crash(p)
  PROVE  Counted'
<1> SUFFICES ASSUME ~closed PROVE Counted'
  BY DEF Counted, Crash
<1>1. Holders' = {w \in Holders : Home[w] # p}
  BY DEF Crash, Holders, Holding, Idle, TypeOK
<1>2. Cardinality(Holders') <= Cardinality(Holders)
      /\ Cardinality(Holders') \in Nat
  BY <1>1, FewerHolders
<1>3. CASE holder # NoConn /\ Home[holder] = p
  <2>1. Holders' = {} /\ depth' = 0
    BY <1>1, <1>3 DEF Counted, Crash
  <2> QED
    BY <2>1, FS_EmptySet DEF Counted
<1>4. CASE ~(holder # NoConn /\ Home[holder] = p)
  <2>1. holder' = holder /\ depth' = depth /\ depth \in Nat
    BY <1>4, BoundsAssumption DEF Crash, TypeOK
  <2> QED
    BY <1>1, <1>2, <2>1, HoldersFinite DEF Counted
<1> QED
  BY <1>3, <1>4

LEMMA OtherCounted ==
  ASSUME TypeOK, Counted,
         \/ UNCHANGED vars
         \/ \E complete \in BOOLEAN : WriteSlice(complete)
         \/ \E w \in Workers : Fold(w)
         \/ \E w \in Workers, c \in Conns : Refused(w, c)
  PROVE  Counted'
<1>1. closed' = closed /\ holder' = holder /\ depth' = depth
  BY DEF vars, WriteSlice, Fold, List, Write, Fails, Refused
<1>2. Holders' = Holders
  <2>1. ASSUME NEW w \in Workers, Fold(w)
        PROVE  Holders' = Holders
    <3>1. PICK pc \in {"release", "call"} :
             /\ work'[w].pc = pc
             /\ \A v \in Workers \ {w} : work'[v] = work[v]
      <4>1. PICK pc \in {"release", "call"} :
               \/ work' = [work EXCEPT ![w].pc = pc]
               \/ work' = [work EXCEPT ![w].pc = pc, ![w].seen = Listed]
        BY <2>1 DEF Fold, List, Write, Fails
      <4> QED
        BY <4>1, OneMoves
    <3>2. Holding(w)
      BY <2>1 DEF Fold, List, Write, Fails, Holding
    <3> QED
      BY <3>1, <3>2 DEF Holders, Holding
  <2> QED
    BY <2>1 DEF vars, WriteSlice, Refused, Holders, Holding
<1> QED
  BY <1>1, <1>2 DEF Counted

LEMMA NextCounted == TypeOK /\ Counted /\ [Next]_vars => Counted'
<1> SUFFICES ASSUME TypeOK, Counted, [Next]_vars PROVE Counted'
  OBVIOUS
<1>1. ASSUME NEW w \in Workers, NEW c \in OwnConns(w),
             Take(w, c) \/ TakeToRefine(w, c)
      PROVE  Counted'
  <2>1. Holders' = Holders \cup {w}
    <3>1. PICK pc \in {"listing", "refining"} :
             /\ work'[w].pc = pc
             /\ \A v \in Workers \ {w} : work'[v] = work[v]
      BY <1>1, OneMoves DEF Take, TakeToRefine
    <3> QED
      BY <3>1 DEF Holders, Holding
  <2>2. LockFree(c) /\ Lock(c) /\ closed' = closed
    BY <1>1 DEF Take, TakeToRefine
  <2> QED
    BY <2>1, <2>2, TakenCounted
<1>2. ASSUME NEW c \in Conns, Close(c)
      PROVE  Counted'
  BY <1>2 DEF Close, Counted
<1> QED
  BY <1>1, <1>2, ReleasedCounted, CrashCounted, OtherCounted
     DEF Next, OwnConns

LEMMA InitCounted == Init => Counted
<1> SUFFICES ASSUME Init PROVE Counted
  OBVIOUS
<1>1. Holders = {}
  BY DEF Init, Holders, Holding, Idle
<1> QED
  BY <1>1, FS_EmptySet DEF Init, Counted

(* As long as no connection is closed that has the lock, the workers that  *)
(* fold or refine at a time are of one process, though the lock is taken   *)
(* through one connection of its pool and given back through another.      *)
THEOREM LockOfOneProcess == Spec => []FoldsOfOneProcess
<1>1. Counted => FoldsOfOneProcess
  BY DEF Counted, FoldsOfOneProcess, Holders
<1> QED
  BY <1>1, InitCounted, NextCounted, TypeCorrect, PTL DEF Spec

-----------------------------------------------------------------------------
(* Nothing is left out of the synthesis                                    *)

InFold(w) == work[w].pc \in {"listing", "call", "release"}
SeenBy(w) == {n \in Numbers : work[w].seen[n] > 0}

(* Unless two folds have been under way at a time, there is one at most.   *)
Alone == /\ \A w \in Workers : InFold(w) => w \in Folders
         /\ ~overlapped => \A v, w \in Workers :
                              InFold(v) /\ InFold(w) => v = w

(* What is covered or listed exists; what a fold that is alone has listed  *)
(* is all that is covered, so that to replace the row loses nothing.       *)
Grows ==
  /\ Covered \subseteq Rows
  /\ \A w \in Workers : SeenBy(w) \subseteq Rows
  /\ ~overlapped => \A w \in Workers :
                       work[w].pc = "call" => Covered \subseteq SeenBy(w)

(* Row n is going to be folded: a job waits, or a fold is about to list it *)
(* or has listed it.                                                       *)
Awaited(n) ==
  \/ folds > 0
  \/ \E w \in Workers : \/ work[w].pc = "listing"
                        \/ work[w].pc = "call" /\ n \in SeenBy(w)

Pending == ~dropped /\ ~overlapped =>
             \A n \in CompleteRows : n \in Covered \/ Awaited(n)

FoldInv == TypeOK /\ Alone /\ Grows /\ Pending

LEMMA ListedRows ==
  ASSUME TypeOK
  PROVE  {n \in Numbers : Listed[n] > 0} = Rows
<1>1. \A n \in Rows : slices[n] \in SliceRow
  BY DEF TypeOK, Rows
<1>2. \A n \in Rows : slices[n].edition > 0
  BY <1>1 DEF SliceRow
<1> QED
  BY <1>2, RowsAreNumbers DEF Listed

LEMMA WriteSliceFolds ==
  ASSUME FoldInv, NEW complete \in BOOLEAN, WriteSlice(complete)
  PROVE  Alone' /\ Grows' /\ Pending'
<1> USE DEF FoldInv
<1>1. UNCHANGED <<folded, work, dropped, overlapped>>
  BY DEF WriteSlice
<1>2. Rows \subseteq Rows'
  <2>1. ASSUME NEW k \in GroupConcepts, AddSlice(k, complete)
        PROVE  Rows \subseteq Rows'
    BY <2>1 DEF AddSlice, TypeOK, Rows
  <2>2. ASSUME NEW n \in Rows, RewriteSlice(n, complete)
        PROVE  Rows \subseteq Rows'
    BY <2>2 DEF RewriteSlice, TypeOK, Rows
  <2> QED
    BY <2>1, <2>2 DEF WriteSlice
<1>3. Alone'
  BY <1>1 DEF Alone, InFold
<1>4. Grows'
  BY <1>1, <1>2 DEF Grows, Covered, SeenBy
<1>5. Pending'
  <2>1. CASE complete
    BY <2>1 DEF WriteSlice, TypeOK, Pending, Awaited
  <2>2. CASE ~complete
    <3>1. folds' = folds
      BY <2>2 DEF WriteSlice
    <3>2. CompleteRows' \subseteq CompleteRows
      <4>1. CASE \E k \in GroupConcepts : AddSlice(k, complete)
        BY <2>2, <4>1 DEF AddSlice, TypeOK, CompleteRows, Rows
      <4>2. ASSUME NEW n \in Rows, RewriteSlice(n, complete)
            PROVE  CompleteRows' \subseteq CompleteRows
        <5> DEFINE r == [slices[n] EXCEPT !.edition = 2]
                   q == [r EXCEPT !.complete = complete]
        <5>1. r \in SliceRow
          <6>1. slices[n] \in SliceRow
            BY DEF TypeOK, Rows
          <6> QED
            BY <6>1 DEF SliceRow
        <5>2. q.complete = complete
          BY <5>1 DEF SliceRow
        <5>3. slices' = [slices EXCEPT ![n] = q]
          BY <4>2 DEF RewriteSlice, TypeOK, Rows
        <5>4. Rows' = Rows /\ slices'[n] = q
              /\ \A m \in Rows \ {n} : slices'[m] = slices[m]
          BY <5>3 DEF TypeOK, Rows
        <5> QED
          BY <2>2, <5>2, <5>4 DEF CompleteRows
      <4> QED
        BY <4>1, <4>2 DEF WriteSlice
    <3> QED
      BY <1>1, <3>1, <3>2 DEF Pending, Awaited, Covered, SeenBy
  <2> QED
    BY <2>1, <2>2
<1> QED
  BY <1>3, <1>4, <1>5

LEMMA TakeFolds ==
  ASSUME FoldInv, NEW w \in Workers, NEW c \in Conns,
         Take(w, c) \/ Refused(w, c) \/ TakeToRefine(w, c) \/ Release(w, c)
  PROVE  Alone' /\ Grows' /\ Pending'
<1> USE DEF FoldInv
<1>1. UNCHANGED <<slices, folded>>
  BY DEF Take, Refused, TakeToRefine, Release
<1>2. CASE Take(w, c)
  <2>1. /\ work'[w].pc = "listing" /\ w \in Folders
        /\ \A v \in Workers \ {w} : work'[v] = work[v]
    BY <1>2, OneMoves DEF Take
  <2>2. work'[w].seen = work[w].seen
    BY <1>2 DEF Take, TypeOK, Work
  <2>3. overlapped' = (overlapped \/ \E v \in Workers : Folding(v))
        /\ dropped' = dropped
    BY <1>2 DEF Take
  <2>4. Alone'
    BY <2>1, <2>3 DEF Alone, InFold, Folding, Holding
  <2>5. Grows'
    BY <1>1, <2>1, <2>2, <2>3 DEF Grows, Covered, Rows, SeenBy
  <2>6. Pending'
    BY <2>1 DEF Pending, Awaited
  <2> QED
    BY <2>4, <2>5, <2>6
<1>3. CASE Refused(w, c)
  BY <1>1, <1>3
     DEF Refused, Alone, InFold, Grows, Covered, Rows, SeenBy, Pending
<1>4. CASE TakeToRefine(w, c) \/ Release(w, c)
  <2>1. PICK pc \in {"refining", "idle"} :
           /\ work'[w].pc = pc
           /\ \A v \in Workers \ {w} : work'[v] = work[v]
    <3>1. CASE TakeToRefine(w, c)
      BY <3>1, OneMoves DEF TakeToRefine
    <3>2. CASE Release(w, c)
      BY <3>2 DEF Release, TypeOK, Idle
    <3> QED
      BY <1>4, <3>1, <3>2
  <2>2. SeenBy(w)' \subseteq SeenBy(w)
    <3>1. CASE TakeToRefine(w, c)
      BY <3>1 DEF TakeToRefine, TypeOK, Work, SeenBy
    <3>2. CASE Release(w, c)
      BY <3>2 DEF Release, TypeOK, Idle, Nothing, SeenBy
    <3> QED
      BY <1>4, <3>1, <3>2
  <2>3. UNCHANGED <<folds, dropped, overlapped>>
        /\ work[w].pc \notin {"listing", "call"}
    BY <1>4 DEF TakeToRefine, Release
  <2>4. Alone'
    BY <2>1, <2>3 DEF Alone, InFold
  <2>5. Grows'
    BY <1>1, <2>1, <2>2, <2>3 DEF Grows, Covered, Rows, SeenBy
  <2>6. Pending'
    BY <1>1, <2>1, <2>3
       DEF Pending, Awaited, Covered, CompleteRows, Rows, SeenBy
  <2> QED
    BY <2>4, <2>5, <2>6
<1> QED
  BY <1>2, <1>3, <1>4

LEMMA FoldFolds ==
  ASSUME FoldInv, NEW w \in Workers, Fold(w)
  PROVE  Alone' /\ Grows' /\ Pending'
<1> USE DEF FoldInv
<1>1. UNCHANGED <<slices, overlapped>>
  BY DEF Fold, List, Write, Fails
<1>2. InFold(w) /\ w \in Folders
  BY DEF Fold, List, Write, Fails, InFold, Alone
<1>3. PICK pc \in {"release", "call"} :
         /\ work'[w].pc = pc
         /\ \A v \in Workers \ {w} : work'[v] = work[v]
  <2>1. PICK pc \in {"release", "call"} :
           \/ work' = [work EXCEPT ![w].pc = pc]
           \/ work' = [work EXCEPT ![w].pc = pc, ![w].seen = Listed]
    BY DEF Fold, List, Write, Fails
  <2> QED
    BY <2>1, OneMoves
<1>4. Alone'
  BY <1>1, <1>2, <1>3 DEF Alone, InFold
<1>5. CASE List(w)
  <2>1. /\ folded' = folded /\ folds' = folds /\ Rows' = Rows
        /\ CompleteRows' = CompleteRows /\ dropped' = dropped
    BY <1>1, <1>5 DEF List, CompleteRows, Rows
  <2>2. SeenBy(w)' = Rows
    <3>1. work'[w].seen = Listed
      <4>1. work[w] = [pc |-> work[w].pc, seen |-> work[w].seen]
        BY DEF TypeOK, Work
      <4> QED
        BY <1>5, <4>1 DEF List, TypeOK
    <3> QED
      BY <3>1, ListedRows DEF SeenBy
  <2>3. Grows'
    BY <1>1, <1>3, <2>1, <2>2 DEF Grows, Covered, SeenBy
  <2>4. work'[w].pc = "call" \/ Rows = {} \/ Rows \subseteq Covered
    <3>1. CASE Rows = {} \/ (Covered # {} /\ CoversAll)
      BY <3>1 DEF CoversAll
    <3>2. CASE ~(Rows = {} \/ (Covered # {} /\ CoversAll))
      <4>1. work' = [work EXCEPT ![w].pc = "call", ![w].seen = Listed]
        BY <1>5, <3>2 DEF List
      <4> QED
        BY <4>1, OneMoves
    <3> QED
      BY <3>1, <3>2
  <2>5. Pending'
    <3>1. CASE work'[w].pc = "call"
      BY <2>1, <2>2, <3>1 DEF Pending, Awaited, CompleteRows
    <3>2. CASE Rows = {} \/ Rows \subseteq Covered
      BY <2>1, <3>2 DEF Pending, CompleteRows, Covered
    <3> QED
      BY <2>4, <3>1, <3>2
  <2> QED
    BY <1>4, <2>3, <2>5
<1>6. CASE Write(w)
  <2>1. /\ work[w].pc = "call" /\ folded' = work[w].seen /\ folds' = folds
        /\ Rows' = Rows /\ CompleteRows' = CompleteRows /\ dropped' = dropped
    BY <1>1, <1>6 DEF Write, CompleteRows, Rows
  <2>2. Covered' = SeenBy(w)
    BY <2>1 DEF Covered, SeenBy
  <2>3. work'[w].pc # "call" /\ \A v \in Workers : SeenBy(v)' = SeenBy(v)
    BY <1>6 DEF Write, TypeOK, Work, SeenBy
  <2>4. Grows'
    <3>1. ASSUME ~overlapped, NEW v \in Workers, work'[v].pc = "call"
          PROVE  FALSE
      BY <1>2, <1>3, <2>3, <3>1 DEF Alone, InFold
    <3> QED
      BY <1>1, <2>1, <2>2, <2>3, <3>1 DEF Grows
  <2>5. Pending'
    <3>1. ASSUME ~dropped, ~overlapped, NEW n \in CompleteRows
          PROVE  n \in Covered' \/ Awaited(n)'
      <4>1. CASE folds > 0 \/ n \in Covered
        BY <2>1, <2>2, <3>1, <4>1 DEF Awaited, Grows
      <4>2. ASSUME NEW v \in Workers,
                   \/ work[v].pc = "listing"
                   \/ work[v].pc = "call" /\ n \in SeenBy(v)
            PROVE  n \in Covered'
        <5>1. v = w
          BY <1>2, <3>1, <4>2 DEF Alone, InFold
        <5> QED
          BY <2>1, <2>2, <4>2, <5>1
      <4> QED
        BY <3>1, <4>1, <4>2 DEF Pending, Awaited
    <3> QED
      BY <1>1, <2>1, <3>1 DEF Pending
  <2> QED
    BY <1>4, <2>4, <2>5
<1>7. CASE Fails(w)
  <2>1. folded' = folded /\ Rows' = Rows /\ (folds' > 0 \/ dropped')
    BY <1>1, <1>7, RetriedType DEF Fails, Rows
  <2>2. work'[w].pc = "release" /\ \A v \in Workers : SeenBy(v)' = SeenBy(v)
    BY <1>7 DEF Fails, TypeOK, Work, SeenBy
  <2>3. Grows'
    BY <1>1, <1>3, <2>1, <2>2 DEF Grows, Covered
  <2>4. Pending'
    BY <2>1 DEF Pending, Awaited
  <2> QED
    BY <1>4, <2>3, <2>4
<1> QED
  BY <1>5, <1>6, <1>7 DEF Fold

LEMMA FaultFolds ==
  ASSUME FoldInv, (\E c \in Conns : Close(c)) \/ (\E p \in Procs : Crash(p))
  PROVE  Alone' /\ Grows' /\ Pending'
<1> USE DEF FoldInv
<1>1. ASSUME NEW c \in Conns, Close(c)
      PROVE  Alone' /\ Grows' /\ Pending'
  BY <1>1 DEF Close, Alone, InFold, Grows, Covered, Rows, SeenBy, Pending,
              Awaited, CompleteRows
<1>2. ASSUME NEW p \in Procs, Crash(p)
      PROVE  Alone' /\ Grows' /\ Pending'
  <2> DEFINE gone == {w \in Workers : Home[w] = p /\ work[w].pc # "idle"}
             jobs == {w \in gone : w \in Folders}
  <2>1. UNCHANGED <<slices, folded, overlapped>>
    BY <1>2 DEF Crash
  <2>2. \A w \in Workers : work'[w] = IF w \in gone THEN Idle ELSE work[w]
    BY <1>2 DEF Crash
  <2>3. /\ folds' \in Nat /\ folds <= folds' /\ (dropped => dropped')
        /\ jobs # {} => folds' > 0 \/ dropped'
    <3>1. IsFiniteSet(jobs)
      BY FoldersAssumption, FS_Subset
    <3>2. Cardinality(jobs) \in Nat /\ (Cardinality(jobs) = 0 <=> jobs = {})
      BY <3>1, FS_CardinalityType, FS_EmptySet
    <3>3. Retried(Cardinality(jobs))
      BY <1>2 DEF Crash
    <3>4. jobs # {} => Cardinality(jobs) > 0
      BY <3>2
    <3> HIDE DEF jobs
    <3> QED
      BY <3>2, <3>3, <3>4, RetriedType
  <2>4. Alone'
    BY <2>1, <2>2 DEF Alone, InFold, Idle
  <2>5. \A w \in Workers : SeenBy(w)' \subseteq SeenBy(w)
    BY <2>2 DEF SeenBy, Idle, Nothing
  <2>6. Grows'
    BY <2>1, <2>2, <2>5 DEF Grows, Covered, Rows, SeenBy, Idle
  <2>7. Pending'
    <3>1. CASE jobs # {}
      BY <2>3, <3>1 DEF Pending, Awaited
    <3>2. CASE jobs = {}
      <4>1. \A w \in Workers : InFold(w) => work'[w] = work[w]
        BY <2>2, <3>2 DEF Alone
      <4>2. folds > 0 => folds' > 0
        BY <2>3 DEF TypeOK
      <4> QED
        BY <2>1, <2>3, <4>1, <4>2 DEF TypeOK, Pending, Awaited, Covered,
             CompleteRows, Rows, SeenBy, InFold
    <3> QED
      BY <3>1, <3>2
  <2> QED
    BY <2>4, <2>6, <2>7
<1> QED
  BY <1>1, <1>2

LEMMA InitFolds == Init => FoldInv
<1> SUFFICES ASSUME Init PROVE FoldInv
  OBVIOUS
<1>1. Rows = {} /\ Covered = {}
  BY DEF Init, Rows, Covered, Nothing
<1>2. \A w \in Workers : work[w].pc = "idle" /\ SeenBy(w) = {}
  BY DEF Init, Idle, Nothing, SeenBy
<1> QED
  BY <1>1, <1>2, InitType
     DEF FoldInv, Alone, InFold, Grows, Pending, CompleteRows

LEMMA NextFolds == FoldInv /\ [Next]_vars => FoldInv'
<1> SUFFICES ASSUME FoldInv, [Next]_vars PROVE FoldInv'
  OBVIOUS
<1>1. TypeOK'
  BY NextType DEF FoldInv
<1>2. CASE UNCHANGED vars
  BY <1>1, <1>2 DEF vars, FoldInv, Alone, InFold, Grows, Covered, Rows,
                    SeenBy, Pending, Awaited, CompleteRows
<1>3. CASE Next
  <2>1. Alone' /\ Grows' /\ Pending'
    BY <1>3, WriteSliceFolds, TakeFolds, FoldFolds, FaultFolds
       DEF Next, OwnConns
  <2> QED
    BY <1>1, <2>1 DEF FoldInv
<1> QED
  BY <1>2, <1>3

LEMMA FoldsInvariant == Spec => []FoldInv
BY InitFolds, NextFolds, PTL DEF Spec

(* When every job has been served, none was refused the lock or discarded  *)
(* and no two folds were under way at a time, the synthesis covers every   *)
(* complete slice, whatever calls failed and whatever process has crashed. *)
THEOREM NothingLeftOut == Spec => []EverySliceFolded
<1>1. FoldInv => EverySliceFolded
  <2> SUFFICES ASSUME FoldInv, Settled, ~dropped, ~overlapped
               PROVE  CompleteRows \subseteq Covered
    BY DEF EverySliceFolded
  <2>1. \A w \in Workers : work[w].pc \notin {"listing", "call"}
    BY DEF FoldInv, Settled, Alone, InFold
  <2> QED
    BY <2>1 DEF FoldInv, Settled, Pending, Awaited
<1> QED
  BY <1>1, FoldsInvariant, PTL

(* A fold that is alone never takes a slice out of the synthesis.          *)
THEOREM CoverageGrows == Spec => NothingUnfolded
<1>1. FoldInv /\ [Next]_vars => [overlapped \/ Covered \subseteq Covered']_vars
  <2> SUFFICES ASSUME FoldInv, Next, ~overlapped
               PROVE  Covered \subseteq Covered'
    BY DEF vars
  <2>1. ASSUME NEW w \in Workers, Write(w)
        PROVE  Covered \subseteq Covered'
    <3>1. Covered \subseteq SeenBy(w) /\ folded' = work[w].seen
      BY <2>1 DEF Write, FoldInv, Grows
    <3> QED
      BY <3>1 DEF Covered, SeenBy
  <2>2. (\E w \in Workers : Write(w)) \/ folded' = folded
    BY DEF Next, Fold, List, Fails, WriteSlice, Take, Refused, TakeToRefine,
           Release, Close, Crash
  <2> QED
    BY <2>1, <2>2 DEF Covered
<1> QED
  BY <1>1, FoldsInvariant, PTL DEF Spec, NothingUnfolded

-----------------------------------------------------------------------------
(* Folds that overlap                                                      *)

(* Worker w takes the lock on a connection of the pool that has it, beside *)
(* worker v of the same process, which is at a fold.                       *)
Joins(w, v) ==
    /\ Folding(v) /\ ~Folding(w) /\ Folding(w)'
    /\ Home[v] = Home[w] /\ Home[holder] = Home[w]
    /\ holder' = holder /\ depth' = depth + 1

(* Two folds of a group are under way at a time for one reason only, as    *)
(* long as no connection is closed that has the lock, however many workers *)
(* a process has: the pool of the process hands a second worker the very   *)
(* connection through which the first has the lock, and PostgreSQL counts  *)
(* instead of refusing (synthesize_concept.go:265).                        *)
THEOREM OverlapsAtHome ==
  Spec => [][overlapped' # overlapped =>
               closed \/ \E v, w \in Folders : Joins(w, v)]_vars
<1>1. ASSUME TypeOK, Counted, ~closed, overlapped' # overlapped,
             NEW w \in Workers, NEW c \in OwnConns(w), Take(w, c)
      PROVE  \E v \in Folders : Joins(w, v)
  <2>1. PICK v \in Workers : Folding(v)
    BY <1>1 DEF Take, TypeOK
  <2>2. v \in Holders /\ v \in Folders /\ Holders # {}
    BY <2>1 DEF Folding, Holders
  <2>3. holder = c
    BY <1>1, <2>2, NobodyHolds DEF Take, LockFree
  <2>4. Home[holder] = Home[v] /\ Home[holder] = Home[w]
    BY <1>1, <2>2, <2>3 DEF Counted, OwnConns
  <2>5. holder' = holder /\ depth' = depth + 1
    BY <1>1, <2>3 DEF Take, Lock
  <2>6. work[w].pc = "idle" /\ work'[w].pc = "listing" /\ w \in Folders
    BY <1>1, OneMoves DEF Take
  <2>7. ~Folding(w) /\ Folding(w)'
    BY <2>6 DEF Folding, Holding
  <2> QED
    BY <2>1, <2>2, <2>4, <2>5, <2>7 DEF Joins
<1>2. ASSUME TypeOK, Counted, [Next]_vars, overlapped' # overlapped
      PROVE  closed \/ \E v, w \in Folders : Joins(w, v)
  <2>1. PICK w \in Workers : \E c \in OwnConns(w) : Take(w, c)
    BY <1>2 DEF vars, Next, Fold, List, Write, Fails, WriteSlice, Refused,
                TakeToRefine, Release, Close, Crash
  <2>2. w \in Folders
    BY <2>1 DEF Take
  <2> QED
    BY <1>1, <1>2, <2>1, <2>2
<1>3. TypeOK /\ Counted /\ [Next]_vars
        => [overlapped' # overlapped =>
              closed \/ \E v, w \in Folders : Joins(w, v)]_vars
  BY <1>2
<1> QED
  BY <1>3, InitCounted, NextCounted, TypeCorrect, PTL DEF Spec
=============================================================================
