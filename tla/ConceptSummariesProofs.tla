----------------------- MODULE ConceptSummariesProofs -----------------------
(* Proofs about the slices of a concept, for any number of workers and     *)
(* facts, any batch sizes, calls of any length and any staleness window.   *)
EXTENDS ConceptSummaries, FiniteSetTheorems, TLAPS

-----------------------------------------------------------------------------
(* The inductive invariant                                                 *)

Active(w) == pass[w].pc # "idle"

OnePass == \A v, w \in Workers : Active(v) /\ Active(w) => v = w

(* The rows are numbered without a gap, share no fact, and the open one is *)
(* the only one: it exists until the first slice is complete.              *)
Numbered == \A r \in Rows : slices[r].seq = r
Disjoint == \A q, r \in Rows : q # r => slices[q].covered \cap slices[r].covered = {}
OpenAlone == \A r \in OpenRows : Rows = {r}
OnlyLinked == \A r \in Rows : slices[r].covered \subseteq 1..linked

(* What a pass has still to cover no row covers, but the open row that it  *)
(* is going to update.                                                     *)
TodoUncovered(w) ==
    /\ pass[w].todo # {} /\ pass[w].todo \subseteq 1..linked
    /\ \A r \in Rows : r # pass[w].row =>
                          slices[r].covered \cap pass[w].todo = {}

(* The row it is going to write, and no open remainder beside a complete   *)
(* slice.                                                                  *)
Target(w) ==
    /\ pass[w].row = 0 => OpenRows = {} /\ pass[w].seq = Len(slices) + 1
    /\ pass[w].row # 0 => pass[w].row \in OpenRows /\ pass[w].seq = pass[w].row
    /\ ~FullBatch(w) => CompleteRows = {}

PassInv(w) ==
    /\ Active(w) => claimed
    /\ pass[w].pc \in {"idle", "claimed", "listed"} => pass[w].row = 0
    /\ pass[w].pc = "listed" => TodoUncovered(w)
    /\ pass[w].pc = "call" => TodoUncovered(w) /\ Target(w)

(* As long as no pass has been overtaken.                                  *)
SummaryInv == /\ TypeOK /\ OnePass
              /\ Numbered /\ Disjoint /\ OpenAlone /\ OnlyLinked
              /\ \A w \in Workers : PassInv(w)

-----------------------------------------------------------------------------
(* Steps of a pass                                                         *)

LEMMA Basics ==
  ASSUME TypeOK
  PROVE  /\ Rows = 1..Len(slices) /\ Len(slices) \in Nat
         /\ linked \in Nat /\ linked <= MaxFacts /\ age \in Nat
         /\ IsFiniteSet(1..linked) /\ Cardinality(1..linked) = linked
<1>1. slices \in Seq(SliceType) /\ linked \in 0..MaxFacts
      /\ age \in 0..(Staleness + 1)
  BY DEF TypeOK
<1>2. Rows = 1..Len(slices) /\ Len(slices) \in Nat
  BY <1>1 DEF Rows
<1>3. linked \in Nat /\ linked <= MaxFacts /\ age \in Nat
  BY <1>1, NumbersAssumption
<1>4. IsFiniteSet(1..linked) /\ Cardinality(1..linked) = linked
  BY <1>3, FS_Interval
<1> QED
  BY <1>2, <1>3, <1>4

(* A claim that overtakes nobody finds nobody at work: the claim of a pass *)
(* is there until its end, and can only be taken over.                     *)
LEMMA AllRest ==
  ASSUME NEW w \in Workers, Claim(w), overtaken' # "now",
         \A v \in Workers : Active(v) => claimed
  PROVE  \A v \in Workers : pass[v].pc = "idle"
BY DEF Claim, Claimable, Resting, Active

(* No step makes up for an overtaking.                                     *)
LEMMA NeverBefore ==
  ASSUME [Next]_vars, overtaken' = "never"
  PROVE  overtaken = "never"
<1>1. ASSUME NEW w \in Workers, Summarize(w)
      PROVE  overtaken = "never"
  BY <1>1 DEF Summarize, Claim, Skip, List, Plan, Write, Fails, Chain, Release,
              Crash, Outlives
<1> QED
  BY <1>1 DEF Next, LinkFacts, EnqueuePass, Requeue, Tick, vars

(* More facts alone do not disturb the rows.                               *)
LEMMA RowsKept ==
  ASSUME SummaryInv, UNCHANGED slices, linked' \in Nat, linked <= linked'
  PROVE  /\ Numbered' /\ Disjoint' /\ OpenAlone' /\ OnlyLinked'
<1>1. linked \in Nat
  BY Basics DEF SummaryInv
<1>2. Numbered' /\ Disjoint' /\ OpenAlone'
  BY DEF SummaryInv, Numbered, Disjoint, OpenAlone, OpenRows, CompleteRows,
         Rows
<1>3. OnlyLinked'
  <2>1. 1..linked \subseteq 1..linked'
    BY <1>1
  <2> QED
    BY <2>1 DEF SummaryInv, OnlyLinked, Rows
<1> QED
  BY <1>2, <1>3

(* A step that touches neither the rows nor a pass.                        *)
LEMMA Untouched ==
  ASSUME SummaryInv, TypeOK', UNCHANGED <<slices, claimed, pass>>,
         linked <= linked'
  PROVE  SummaryInv'
<1>1. linked \in Nat /\ linked' \in Nat
  BY Basics, NumbersAssumption DEF SummaryInv, TypeOK
<1>2. Numbered' /\ Disjoint' /\ OpenAlone' /\ OnlyLinked'
  BY <1>1, RowsKept
<1>3. OnePass'
  BY DEF SummaryInv, OnePass, Active
<1>4. 1..linked \subseteq 1..linked'
  BY <1>1
<1>5. ASSUME NEW w \in Workers
      PROVE  PassInv(w)'
  <2>1. PassInv(w)
    BY DEF SummaryInv
  <2>2. TodoUncovered(w) => TodoUncovered(w)'
    BY <1>4 DEF TodoUncovered, Rows
  <2>3. Target(w) => Target(w)'
    BY DEF Target, OpenRows, CompleteRows, Rows, FullBatch
  <2> QED
    BY <2>1, <2>2, <2>3 DEF PassInv, Active
<1> QED
  BY <1>2, <1>3, <1>5 DEF SummaryInv

(* A step of the only pass there is.                                       *)
LEMMA OnlyStep ==
  ASSUME SummaryInv, TypeOK', NEW w \in Workers,
         \A v \in Workers : v # w => pass[v].pc = "idle" /\ pass'[v] = pass[v],
         Numbered', Disjoint', OpenAlone', OnlyLinked', PassInv(w)'
  PROVE  SummaryInv'
<1>1. OnePass'
  BY DEF OnePass, Active
<1>2. \A v \in Workers : v # w => PassInv(v)'
  BY DEF SummaryInv, PassInv, Active
<1> QED
  BY <1>1, <1>2 DEF SummaryInv

(* The others are idle while w is not, and keep still when w takes a step. *)
LEMMA OthersIdle ==
  ASSUME SummaryInv, NEW w \in Workers, Active(w), NEW x,
         pass' = [pass EXCEPT ![w] = x]
  PROVE  /\ pass'[w] = x
         /\ \A v \in Workers : v # w => /\ pass[v].pc = "idle"
                                        /\ pass'[v] = pass[v]
<1>1. pass \in [Workers -> PassType]
  BY DEF SummaryInv, TypeOK
<1> QED
  BY <1>1 DEF SummaryInv, OnePass, Active

-----------------------------------------------------------------------------
(* The actions keep the types                                              *)

LEMMA FaultType ==
  ASSUME TypeOK, Fault \/ NoFault
  PROVE  faults' \in 0..MaxFaults
  BY NumbersAssumption DEF TypeOK, Fault, NoFault

LEMMA IdleType == IdlePass \in PassType
  BY NumbersAssumption DEF IdlePass, PassType

LEMMA QueueType ==
  ASSUME TypeOK, LinkFacts \/ EnqueuePass \/ Requeue
  PROVE  TypeOK'
<1>1. CASE LinkFacts
  BY <1>1, NumbersAssumption DEF LinkFacts, TypeOK, Rows
<1>2. CASE EnqueuePass
  BY <1>2, NumbersAssumption DEF EnqueuePass, TypeOK, Rows
<1>3. CASE Requeue
  BY <1>3, FaultType DEF Requeue, TypeOK, Rows
<1> QED
  BY <1>1, <1>2, <1>3

(* Plan and Write need the invariant for their types: see below.           *)
LEMMA PassTypeStep ==
  ASSUME TypeOK, NEW w \in Workers,
         \/ Claim(w) \/ Skip(w) \/ List(w) \/ Fails(w) \/ Chain(w)
         \/ Release(w) \/ Crash(w)
  PROVE  TypeOK'
<1>0. pass \in [Workers -> PassType] /\ faults' \in 0..MaxFaults
  BY FaultType DEF TypeOK, Claim, Skip, List, Fails, Chain, Release, Crash,
                   NoFault
<1>o. overtaken' \in {"never", "now", "past"}
  BY DEF TypeOK, Claim, Skip, List, Fails, Chain, Release, Crash, Outlives
<1>1. CASE Claim(w)
  <2>1. pass' \in [Workers -> PassType]
    BY <1>0, <1>1 DEF Claim, PassType
  <2>2. /\ UNCHANGED <<linked, extracting, slices, asked>>
        /\ jobs > 0 /\ jobs' = jobs - 1 /\ claimed' = TRUE /\ age' = 0
    BY <1>1 DEF Claim
  <2>3. jobs' \in Nat /\ age' \in 0..(Staleness + 1)
    BY <2>2, NumbersAssumption DEF TypeOK
  <2> QED
    BY <1>0, <1>o, <2>1, <2>2, <2>3 DEF TypeOK, Rows
<1>2. CASE Skip(w)
  BY <1>0, <1>o, <1>2 DEF Skip, TypeOK, Rows
<1>3. CASE List(w)
  <2>1. Uncovered \subseteq Facts
    BY NumbersAssumption DEF Uncovered, Facts, TypeOK
  <2> DEFINE pc == IF Uncovered = {} THEN "release" ELSE "listed"
             new == [pass[w] EXCEPT !.pc = pc, !.todo = Uncovered]
  <2>2. new \in PassType
    <3>1. pc \in {"release", "listed"}
      OBVIOUS
    <3> HIDE DEF pc
    <3> QED
      BY <1>0, <2>1, <3>1 DEF PassType
  <2>3. pass' = [pass EXCEPT ![w] = new]
    BY <1>0, <1>3 DEF List
  <2>4. pass' \in [Workers -> PassType]
    <3> HIDE DEF new
    <3> QED
      BY <1>0, <2>2, <2>3
  <2>5. UNCHANGED <<linked, extracting, slices, claimed, age, jobs, asked>>
    BY <1>3 DEF List
  <2> HIDE DEF new, pc
  <2> QED
    BY <1>0, <1>o, <2>4, <2>5 DEF TypeOK, Rows
<1>4. CASE Fails(w)
  <2> DEFINE new == [pass[w] EXCEPT !.pc = "release"]
  <2>0. pass' = [pass EXCEPT ![w] = new] /\ new \in PassType
    BY <1>0, <1>4 DEF Fails, PassType
  <2> HIDE DEF new
  <2>1. pass' \in [Workers -> PassType]
    BY <1>0, <2>0
  <2>2. UNCHANGED <<linked, extracting, slices, claimed, age, jobs, asked>>
    BY <1>4 DEF Fails
  <2> QED
    BY <1>0, <1>o, <2>1, <2>2 DEF TypeOK, Rows
<1>5. CASE Chain(w)
  <2>1. pass' \in [Workers -> PassType]
    BY <1>0, <1>5 DEF Chain, PassType
  <2>2. asked' \subseteq Rows
    BY <1>5 DEF Chain, CompleteRows, TypeOK
  <2> QED
    BY <1>0, <1>o, <1>5, <2>1, <2>2 DEF Chain, TypeOK, Rows
<1>6. CASE Release(w)
  <2>1. pass' \in [Workers -> PassType]
    BY <1>0, <1>6, IdleType DEF Release
  <2>2. age' \in 0..(Staleness + 1)
    BY <1>6, NumbersAssumption DEF Release, TypeOK
  <2>3. claimed' \in BOOLEAN
    BY <1>6, Zenon DEF Release, TypeOK
  <2> QED
    BY <1>0, <1>o, <1>6, <2>1, <2>2, <2>3 DEF Release, TypeOK, Rows
<1>7. CASE Crash(w)
  <2>1. pass' \in [Workers -> PassType]
    BY <1>0, <1>7, IdleType DEF Crash
  <2> QED
    BY <1>0, <1>o, <1>7, <2>1 DEF Crash, TypeOK, Rows
<1> QED
  BY <1>1, <1>2, <1>3, <1>4, <1>5, <1>6, <1>7

LEMMA TickType ==
  ASSUME TypeOK, Tick
  PROVE  TypeOK'
<1>1. pass \in [Workers -> PassType]
  BY DEF TypeOK
<1>2. pass' \in [Workers -> PassType]
  <2>1. ASSUME NEW w \in Workers, pass[w].pc = "call"
        PROVE  [pass[w] EXCEPT !.since = @ + 1] \in PassType
    <3>1. pass[w].since \in 0..CallTime /\ pass[w].since < CallTime
      BY <1>1, <2>1 DEF Tick, PassType
    <3>2. pass[w].since + 1 \in 0..CallTime
      BY <3>1, NumbersAssumption
    <3> QED
      BY <1>1, <3>2 DEF PassType
  <2> QED
    BY <1>1, <2>1 DEF Tick
<1>3. age' \in 0..(Staleness + 1)
  BY NumbersAssumption DEF Tick, TypeOK
<1> QED
  BY <1>2, <1>3 DEF Tick, TypeOK, Rows

-----------------------------------------------------------------------------
(* The actions keep the invariant                                          *)

LEMMA ClaimInv ==
  ASSUME SummaryInv, NEW w \in Workers, Claim(w), overtaken' = "never"
  PROVE  SummaryInv'
<1>1. TypeOK' /\ pass \in [Workers -> PassType] /\ linked \in Nat
  BY PassTypeStep, Basics DEF SummaryInv, TypeOK
<1>2. \A v \in Workers : pass[v].pc = "idle"
  BY AllRest DEF SummaryInv, PassInv
<1>3. \A v \in Workers : v # w => pass'[v] = pass[v]
  BY <1>1 DEF Claim
<1>4. Numbered' /\ Disjoint' /\ OpenAlone' /\ OnlyLinked'
  BY <1>1, RowsKept DEF Claim
<1>5. PassInv(w)'
  <2>1. pass'[w].pc = "claimed" /\ pass'[w].row = pass[w].row
    BY <1>1 DEF Claim, PassType
  <2>2. pass[w].row = 0
    BY <1>2 DEF SummaryInv, PassInv
  <2> QED
    BY <2>1, <2>2 DEF Claim, PassInv, Active
<1> QED
  BY <1>1, <1>2, <1>3, <1>4, <1>5, OnlyStep

(* The ends of a pass: the release, and the death of its worker.           *)
LEMMA EndInv ==
  ASSUME SummaryInv, NEW w \in Workers, Release(w) \/ Crash(w)
  PROVE  SummaryInv'
<1>1. TypeOK' /\ pass \in [Workers -> PassType] /\ linked \in Nat
  BY PassTypeStep, Basics DEF SummaryInv, TypeOK
<1>2. /\ pass' = [pass EXCEPT ![w] = IdlePass] /\ Active(w)
      /\ UNCHANGED <<slices, linked>>
  BY DEF Release, Crash, Active
<1>3. Numbered' /\ Disjoint' /\ OpenAlone' /\ OnlyLinked'
  BY <1>1, <1>2, RowsKept
<1>4. PassInv(w)'
  <2>1. pass'[w] = IdlePass
    BY <1>1, <1>2
  <2> QED
    BY <2>1 DEF PassInv, Active, IdlePass
<1> QED
  BY <1>1, <1>2, <1>3, <1>4, OnlyStep, OthersIdle

(* A pass that goes to its release, having failed or asked for a synthesis.*)
LEMMA ToReleaseInv ==
  ASSUME SummaryInv, TypeOK', NEW w \in Workers, Active(w),
         pass' = [pass EXCEPT ![w].pc = "release"],
         UNCHANGED <<slices, linked, claimed>>
  PROVE  SummaryInv'
<1>1. pass \in [Workers -> PassType] /\ linked \in Nat
  BY Basics DEF SummaryInv, TypeOK
<1>2. Numbered' /\ Disjoint' /\ OpenAlone' /\ OnlyLinked'
  BY <1>1, RowsKept
<1>3. PassInv(w)'
  <2>1. pass'[w].pc = "release"
    BY <1>1 DEF PassType
  <2> QED
    BY <2>1 DEF SummaryInv, PassInv
<1> QED
  BY <1>1, <1>2, <1>3, OnlyStep, OthersIdle

(* What no row covers at the listing is what the pass has to cover.        *)
LEMMA ListInv ==
  ASSUME SummaryInv, NEW w \in Workers, List(w)
  PROVE  SummaryInv'
<1>1. TypeOK' /\ pass \in [Workers -> PassType] /\ linked \in Nat
  BY PassTypeStep, Basics DEF SummaryInv, TypeOK
<1> DEFINE pc == IF Uncovered = {} THEN "release" ELSE "listed"
           new == [pass[w] EXCEPT !.pc = pc, !.todo = Uncovered]
<1>2. pass' = [pass EXCEPT ![w] = new] /\ Active(w)
  BY <1>1 DEF List, Active
<1>3. Numbered' /\ Disjoint' /\ OpenAlone' /\ OnlyLinked'
  BY <1>1, RowsKept DEF List
<1>4. PassInv(w)'
  <2>1. /\ pass'[w].pc = pc /\ pass'[w].todo = Uncovered
        /\ pass'[w].row = pass[w].row
    BY <1>1, <1>2 DEF PassType
  <2>2. claimed /\ pass[w].row = 0
    BY <1>2 DEF List, SummaryInv, PassInv
  <2>3. ASSUME Uncovered # {}
        PROVE  TodoUncovered(w)'
    BY <2>1, <2>3 DEF List, TodoUncovered, Uncovered, Covered, Rows
  <2> QED
    BY <2>1, <2>2, <2>3 DEF List, PassInv
<1> QED
  BY <1>1, <1>2, <1>3, <1>4, OnlyStep, OthersIdle

(* Time alone disturbs nothing.                                            *)
LEMMA TickInv ==
  ASSUME SummaryInv, Tick
  PROVE  SummaryInv'
<1>1. TypeOK' /\ pass \in [Workers -> PassType] /\ linked \in Nat
  BY TickType, Basics DEF SummaryInv, TypeOK
<1>2. Numbered' /\ Disjoint' /\ OpenAlone' /\ OnlyLinked'
  BY <1>1, RowsKept DEF Tick
<1>3. ASSUME NEW w \in Workers
      PROVE  /\ pass'[w].pc = pass[w].pc
             /\ pass'[w].row = pass[w].row /\ pass'[w].seq = pass[w].seq
             /\ pass'[w].todo = pass[w].todo /\ pass'[w].batch = pass[w].batch
             /\ pass[w].pc \in {"idle", "call"}
  BY <1>1 DEF Tick, PassType
<1>4. OnePass'
  BY <1>3 DEF SummaryInv, OnePass, Active
<1>5. claimed' = claimed
  BY DEF Tick
<1>6. ASSUME NEW w \in Workers
      PROVE  PassInv(w)'
  <2>1. CASE pass[w].pc = "idle"
    BY <1>3, <2>1 DEF SummaryInv, PassInv, Active
  <2>2. CASE pass[w].pc = "call"
    <3>1. TodoUncovered(w) /\ Target(w) /\ claimed
      BY <2>2 DEF SummaryInv, PassInv, Active
    <3>2. TodoUncovered(w)' /\ Target(w)'
      BY <1>3, <3>1 DEF Tick, TodoUncovered, Target, Rows, OpenRows,
                        CompleteRows, FullBatch
    <3> QED
      BY <1>3, <1>5, <2>2, <3>1, <3>2 DEF PassInv
  <2> QED
    BY <1>3, <2>1, <2>2
<1> QED
  BY <1>1, <1>2, <1>4, <1>6 DEF SummaryInv

(* The rows being numbered, the next number is the next row's.             *)
LEMMA NextSeqIs ==
  ASSUME SummaryInv
  PROVE  NextSeq = Len(slices) + 1
<1>1. Rows = 1..Len(slices) /\ Len(slices) \in Nat
  BY Basics DEF SummaryInv
<1> DEFINE S == {slices[r].seq : r \in Rows} \cup {0}
<1>2. S = 0..Len(slices)
  <2>1. \A r \in Rows : slices[r].seq = r
    BY DEF SummaryInv, Numbered
  <2> QED
    BY <1>1, <2>1
<1>3. MaxSeq = Max(0..Len(slices))
  BY <1>2 DEF MaxSeq
<1>4. Max(0..Len(slices)) = Len(slices)
  BY <1>1 DEF Max
<1> QED
  BY <1>1, <1>3, <1>4 DEF NextSeq

(* The plan: the facts are those no row covers, or those of the open row.  *)
LEMMA PlanInv ==
  ASSUME SummaryInv, NEW w \in Workers, Plan(w)
  PROVE  SummaryInv'
<1> DEFINE batch == Batch[linked]
           open == IF OpenRow = {} THEN 0 ELSE CHOOSE r \in OpenRow : TRUE
           seq == IF open = 0 THEN NextSeq ELSE slices[open].seq
           kept == IF open = 0 THEN {} ELSE slices[open].covered
           todo == pass[w].todo \cup kept
           new == [pass[w] EXCEPT !.pc = "call", !.since = 0, !.batch = batch,
                                  !.row = open, !.seq = seq, !.kept = kept,
                                  !.todo = todo]
<1>1. /\ pass \in [Workers -> PassType] /\ slices \in Seq(SliceType)
      /\ Rows = 1..Len(slices) /\ Len(slices) \in Nat
      /\ linked \in Nat /\ linked <= MaxFacts
      /\ IsFiniteSet(1..linked) /\ Cardinality(1..linked) = linked
  BY Basics DEF SummaryInv, TypeOK
<1>2. /\ TodoUncovered(w) /\ claimed /\ pass[w].row = 0 /\ Active(w)
  BY DEF Plan, SummaryInv, PassInv, Active
<1>3. batch \in Nat \ {0}
  BY <1>1, BatchAssumption
<1>4. /\ open = 0 => OpenRows = {}
      /\ open # 0 => /\ open \in OpenRows /\ open \in Rows
                     /\ slices[open] \in SliceType
  <2>1. OpenRow # {} => open \in OpenRow
    OBVIOUS
  <2> QED
    BY <1>1, <2>1 DEF OpenRow, OpenRows
<1>5. seq \in Nat /\ (open = 0 => seq = Len(slices) + 1)
                  /\ (open # 0 => seq = open)
  BY <1>1, <1>4, NextSeqIs DEF SummaryInv, Numbered
<1>6. todo # {} /\ todo \subseteq 1..linked
  BY <1>2, <1>4 DEF TodoUncovered, SummaryInv, OnlyLinked
<1>7. /\ IsFiniteSet(todo) /\ Cardinality(todo) \in Nat
      /\ Cardinality(todo) <= linked /\ 1 <= linked
      /\ Cardinality(pass[w].todo) <= Cardinality(todo)
  <2>1. pass[w].todo \in SUBSET todo /\ todo \in SUBSET (1..linked)
    BY <1>6
  <2>0. todo # {} /\ todo \subseteq 1..linked
    BY <1>6
  <2> HIDE DEF todo
  <2>2. IsFiniteSet(todo) /\ Cardinality(todo) <= linked
    BY <1>1, <2>1, FS_Subset
  <2>3. Cardinality(pass[w].todo) <= Cardinality(todo)
    BY <2>1, <2>2, FS_Subset
  <2>4. 1 <= linked
    <3>1. PICK f \in todo : f \in 1..linked
      BY <2>0
    <3> QED
      BY <1>1, <3>1
  <2> QED
    BY <2>2, <2>3, <2>4, FS_CardinalityType
<1>8. new \in PassType
  <2>1. todo \subseteq Facts
    <3>1. todo \subseteq 1..linked
      BY <1>6
    <3> HIDE DEF todo
    <3> QED
      BY <1>1, <3>1, NumbersAssumption DEF Facts
  <2>2. open \in Nat
    <3>1. open # 0 => open \in 1..Len(slices)
      BY <1>1, <1>4
    <3> HIDE DEF open
    <3> QED
      BY <1>1, <3>1
  <2>3. batch \in Nat \ {0} /\ seq \in Nat /\ pass[w] \in PassType
        /\ 0 \in 0..CallTime
    BY <1>1, <1>3, <1>5, NumbersAssumption
  <2>k. kept \subseteq Facts
    <3>1. kept \subseteq todo
      OBVIOUS
    <3> HIDE DEF todo, kept
    <3> QED
      BY <2>1, <3>1
  <2> HIDE DEF open, seq, kept, todo, batch
  <2> DEFINE a == [pass[w] EXCEPT !.pc = "call", !.since = 0, !.batch = batch]
  <2>4. a \in PassType
    BY <2>3 DEF PassType
  <2>5. new = [a EXCEPT !.row = open, !.seq = seq, !.kept = kept, !.todo = todo]
    BY <2>3 DEF PassType
  <2> HIDE DEF a
  <2>6. [a EXCEPT !.row = open, !.seq = seq, !.kept = kept, !.todo = todo] \in PassType
    BY <2>1, <2>k, <2>2, <2>3, <2>4 DEF PassType
  <2> QED
    BY <2>5, <2>6
<1>9. CASE CompleteRows # {} /\ Cardinality(pass[w].todo) < batch
  <2>1. pass' = [pass EXCEPT ![w].pc = "release"]
    BY <1>9 DEF Plan
  <2>2. pass' \in [Workers -> PassType]
    <3> DEFINE r == [pass[w] EXCEPT !.pc = "release"]
    <3>1. r \in PassType
      BY <1>1 DEF PassType
    <3>2. pass' = [pass EXCEPT ![w] = r]
      BY <2>1
    <3> HIDE DEF r
    <3> QED
      BY <1>1, <3>1, <3>2
  <2>u. UNCHANGED <<linked, extracting, slices, claimed, age, jobs, asked,
                   overtaken, faults>>
    BY DEF Plan, NoFault
  <2>3. TypeOK'
    BY <2>2, <2>u DEF SummaryInv, TypeOK, Rows
  <2> QED
    BY <1>2, <2>1, <2>3, ToReleaseInv DEF Plan
<1>10. CASE ~(CompleteRows # {} /\ Cardinality(pass[w].todo) < batch)
  <2>0. /\ UNCHANGED <<linked, extracting, slices, claimed, age, jobs, asked,
                       overtaken>>
        /\ faults' = faults
    BY DEF Plan, NoFault
  <2>1. pass' = [pass EXCEPT ![w] = new]
    <3>1. pass' = [pass EXCEPT
                    ![w].pc = "call", ![w].since = 0, ![w].batch = batch,
                    ![w].row = open, ![w].seq = seq,
                    ![w].kept = kept, ![w].todo = @ \cup kept]
      BY <1>10, Zenon DEF Plan
    <3> HIDE DEF open, seq, kept, batch
    <3> QED
      BY <1>1, <3>1 DEF PassType
  <2> HIDE DEF new
  <2>2. TypeOK'
    <3>1. pass' \in [Workers -> PassType]
      BY <1>1, <1>8, <2>1
    <3> QED
      BY <2>0, <3>1 DEF SummaryInv, TypeOK, Rows
  <2>3. Numbered' /\ Disjoint' /\ OpenAlone' /\ OnlyLinked'
    BY <1>1, <2>0, RowsKept
  <2>4. pass'[w] = new
    BY <1>1, <2>1
  <2>5. /\ pass'[w].pc = "call" /\ pass'[w].since = 0 /\ pass'[w].batch = batch
        /\ pass'[w].row = open /\ pass'[w].seq = seq /\ pass'[w].todo = todo
    <3> HIDE DEF open, seq, todo, batch
    <3> QED
      BY <1>1, <2>4 DEF PassType, new
  <2>6. TodoUncovered(w)'
    <3>1. ASSUME NEW r \in Rows, r # open
          PROVE  slices[r].covered \cap todo = {}
      <4>1. slices[r].covered \cap pass[w].todo = {}
        BY <1>1, <1>2 DEF TodoUncovered
      <4>2. ASSUME open # 0
            PROVE  slices[r].covered \cap slices[open].covered = {}
        <5>1. open \in Rows
          BY <1>4, <4>2
        <5> HIDE DEF open
        <5> QED
          BY <3>1, <5>1 DEF SummaryInv, Disjoint
      <4> HIDE DEF open
      <4> QED
        BY <4>1, <4>2
    <3>2. todo # {} /\ todo \subseteq 1..linked
      BY <1>6
    <3>3. /\ Rows' = Rows /\ slices' = slices /\ linked' = linked
          /\ pass'[w].todo = todo /\ pass'[w].row = open
      BY <2>0, <2>5 DEF Rows
    <3> HIDE DEF todo, open, batch, seq, kept
    <3> QED
      BY <3>1, <3>2, <3>3 DEF TodoUncovered
  <2>7. Target(w)'
    <3>1. CompleteRows # {} => batch <= Cardinality(todo)
      <4>1. Cardinality(pass[w].todo) \in Nat
        <5>1. pass[w].todo \in SUBSET todo
          OBVIOUS
        <5>2. IsFiniteSet(todo)
          BY <1>7
        <5> HIDE DEF todo
        <5>3. IsFiniteSet(pass[w].todo)
          BY <5>1, <5>2, FS_Subset
        <5> QED
          BY <5>3, FS_CardinalityType
      <4>2. Cardinality(todo) \in Nat
            /\ Cardinality(pass[w].todo) <= Cardinality(todo)
        BY <1>7
      <4>3. CompleteRows # {} => ~(Cardinality(pass[w].todo) < batch)
        BY <1>10
      <4> HIDE DEF batch, todo
      <4> QED
        BY <1>3, <4>1, <4>2, <4>3
    <3>2. CompleteRows' = CompleteRows /\ OpenRows' = OpenRows
      BY DEF Plan, CompleteRows, OpenRows, Rows
    <3>3. FullBatch(w)' <=> Cardinality(todo) >= batch
      BY <2>5 DEF FullBatch
    <3> HIDE DEF open, seq, todo, batch
    <3>4. CompleteRows # {} => FullBatch(w)'
      BY <1>3, <1>7, <3>1, <3>3
    <3> QED
      BY <1>4, <1>5, <2>5, <3>2, <3>4 DEF Target, Plan
  <2>9. PassInv(w)'
    BY <1>2, <2>5, <2>6, <2>7 DEF PassInv, Plan
  <2> QED
    BY <1>2, <2>1, <2>2, <2>3, <2>9, OnlyStep, OthersIdle
<1> QED
  BY <1>9, <1>10

(* A slice that a pass may write, and the facts left after it.             *)
LEMMA SliceFacts ==
  ASSUME SummaryInv, NEW w \in Workers, pass[w].pc = "call",
         NEW slice \in NextSlices(w)
  PROVE  LET rest == pass[w].todo \ slice
         IN  /\ slice # {} /\ slice \subseteq pass[w].todo
             /\ Cardinality(pass[w].todo) \in Nat
             /\ Cardinality(pass[w].todo) <= MaxFacts
             /\ Cardinality(rest) \in Nat /\ (rest = {} <=> Cardinality(rest) = 0)
             /\ IF FullBatch(w)
                  THEN Cardinality(rest) + pass[w].batch
                         <= Cardinality(pass[w].todo)
                  ELSE rest = {}
<1> DEFINE todo == pass[w].todo
           batch == pass[w].batch
           rest == todo \ slice
<1>1. /\ linked \in Nat /\ linked <= MaxFacts
      /\ IsFiniteSet(1..linked) /\ Cardinality(1..linked) = linked
      /\ pass[w] \in PassType
  BY Basics DEF SummaryInv, TypeOK
<1>2. todo # {} /\ todo \subseteq 1..linked /\ batch \in Nat \ {0}
  BY <1>1 DEF SummaryInv, PassInv, TodoUncovered, PassType
<1>3. /\ IsFiniteSet(todo) /\ Cardinality(todo) \in Nat
      /\ Cardinality(todo) <= MaxFacts
  <2> HIDE DEF todo
  <2>1. IsFiniteSet(todo) /\ Cardinality(todo) <= linked
    BY <1>1, <1>2, FS_Subset
  <2>2. Cardinality(todo) \in Nat
    BY <2>1, FS_CardinalityType
  <2> QED
    BY <1>1, <2>1, <2>2, NumbersAssumption
<1>4. /\ slice \subseteq todo
      /\ IF FullBatch(w) THEN Cardinality(slice) = batch ELSE slice = todo
  BY DEF NextSlices, kSubset
<1> HIDE DEF todo, batch
<1>5. IsFiniteSet(slice) /\ IsFiniteSet(rest) /\ todo \cap slice = slice
  BY <1>3, <1>4, FS_Subset
<1>6. /\ Cardinality(rest) \in Nat /\ (rest = {} <=> Cardinality(rest) = 0)
      /\ Cardinality(rest) = Cardinality(todo) - Cardinality(slice)
  <2>1. Cardinality(rest) = Cardinality(todo) - Cardinality(todo \cap slice)
    BY <1>3, FS_Difference
  <2> HIDE DEF rest
  <2> QED
    BY <1>5, <2>1, FS_CardinalityType, FS_EmptySet
<1>7. slice # {}
  <2>1. Cardinality({}) = 0
    BY FS_EmptySet
  <2> QED
    BY <1>2, <1>4, <2>1
<1>8. FullBatch(w) => Cardinality(rest) + batch <= Cardinality(todo)
  <2> HIDE DEF rest
  <2> QED
    BY <1>2, <1>3, <1>4, <1>6
<1> QED
  BY <1>3, <1>4, <1>6, <1>7, <1>8 DEF todo, batch

(* The row a pass writes is the last one, and the others are complete and  *)
(* cover nothing of what it has still to slice.                            *)
LEMMA TargetFacts ==
  ASSUME SummaryInv, NEW w \in Workers, pass[w].pc = "call"
  PROVE  LET t == pass[w].seq
         IN  /\ t \in Nat \ {0}
             /\ pass[w].row = 0 => t = Len(slices) + 1
             /\ pass[w].row # 0 => /\ t = pass[w].row /\ t \in Rows
                                   /\ t = Len(slices)
             /\ \A r \in Rows \ {t} :
                    slices[r].complete /\ slices[r].covered \cap pass[w].todo = {}
             /\ ~FullBatch(w) => Rows \ {t} = {}
<1> DEFINE t == pass[w].seq
<1>1. Rows = 1..Len(slices) /\ Len(slices) \in Nat /\ pass[w] \in PassType
  BY Basics DEF SummaryInv, TypeOK
<1>2. TodoUncovered(w) /\ Target(w) /\ OpenAlone
  BY DEF SummaryInv, PassInv
<1>3. CASE pass[w].row = 0
  <2>1. OpenRows = {} /\ t = Len(slices) + 1
    BY <1>2, <1>3 DEF Target
  <2>2. \A r \in Rows \ {t} :
           slices[r].complete /\ slices[r].covered \cap pass[w].todo = {}
    BY <1>1, <1>2, <1>3, <2>1 DEF TodoUncovered, OpenRows, CompleteRows
  <2>3. ~FullBatch(w) => Rows \ {t} = {}
    BY <1>2, <2>1 DEF Target, OpenRows
  <2> QED
    BY <1>1, <1>3, <2>1, <2>2, <2>3
<1>4. CASE pass[w].row # 0
  <2>1. t \in OpenRows /\ t = pass[w].row
    BY <1>2, <1>4 DEF Target
  <2>2. Rows = {t}
    BY <1>2, <2>1 DEF OpenAlone
  <2>3. t = Len(slices) /\ t \in Nat \ {0}
    <3> HIDE DEF t
    <3>1. t \in 1..Len(slices)
      BY <1>1, <2>2
    <3>2. Len(slices) \in 1..Len(slices)
      BY <1>1, <3>1
    <3> QED
      BY <1>1, <2>2, <3>1, <3>2
  <2> QED
    BY <1>4, <2>1, <2>2, <2>3
<1> QED
  BY <1>3, <1>4

(* The rows after the slice has been written.                              *)
LEMMA UpsertedFacts ==
  ASSUME SummaryInv, NEW w \in Workers, pass[w].pc = "call",
         NEW slice \in NextSlices(w)
  PROVE  LET t == pass[w].seq
             rows == Upserted(w, slice)
         IN  /\ rows \in Seq(SliceType) /\ Len(rows) = t
             /\ DOMAIN rows = Rows \cup {t}
             /\ rows[t] = [seq |-> t, complete |-> FullBatch(w),
                           covered |-> slice]
             /\ \A r \in Rows \ {t} : rows[r] = slices[r]
<1> DEFINE t == pass[w].seq
           rows == Upserted(w, slice)
           new == [seq |-> t, complete |-> FullBatch(w), covered |-> slice]
<1>1. /\ Rows = 1..Len(slices) /\ Len(slices) \in Nat
      /\ slices \in Seq(SliceType) /\ linked \in Nat /\ linked <= MaxFacts
  BY Basics DEF SummaryInv, TypeOK
<1>2. new \in SliceType
  <2>1. slice \in (SUBSET Facts) \ {{}}
    <3>1. slice # {} /\ slice \subseteq pass[w].todo
      BY SliceFacts
    <3>2. pass[w].todo \subseteq 1..linked
      BY DEF SummaryInv, PassInv, TodoUncovered
    <3> QED
      BY <1>1, <3>1, <3>2, NumbersAssumption DEF Facts
  <2>2. t \in Nat \ {0}
    BY TargetFacts
  <2>3. FullBatch(w) \in BOOLEAN
    BY DEF FullBatch
  <2> HIDE DEF t
  <2> QED
    BY <2>1, <2>2, <2>3 DEF SliceType
<1> HIDE DEF t
<1>3. CASE pass[w].row = 0
  <2>1. rows = Append(slices, new) /\ t = Len(slices) + 1
    BY <1>3, TargetFacts DEF Upserted, t
  <2> HIDE DEF new, rows
  <2> QED
    BY <1>1, <1>2, <2>1 DEF Rows, new, t, rows
<1>4. CASE pass[w].row # 0
  <2>1. t = pass[w].row /\ t \in Rows /\ t = Len(slices)
    BY <1>4, TargetFacts DEF t
  <2>2. slices[t].seq = t
    BY <2>1 DEF SummaryInv, Numbered
  <2>3. rows = [slices EXCEPT ![t] = new]
    BY <1>4, <2>1, <2>2 DEF Upserted, t
  <2> HIDE DEF new, rows
  <2>4. t \in 1..Len(slices) /\ DOMAIN slices = 1..Len(slices)
    BY <1>1, <2>1 DEF Rows
  <2>5. rows \in Seq(SliceType) /\ Len(rows) = Len(slices)
    BY <1>1, <1>2, <2>3, <2>4
  <2>6. DOMAIN rows = Rows /\ rows[t] = new /\ \A r \in Rows \ {t} : rows[r] = slices[r]
    BY <2>3, <2>4 DEF Rows
  <2> QED
    BY <2>1, <2>5, <2>6 DEF new, t, rows
<1> QED
  BY <1>3, <1>4

(* The unique index refuses no row of a pass that holds the claim.         *)
LEMMA WriteAllowed ==
  ASSUME SummaryInv, NEW w \in Workers, pass[w].pc = "call",
         NEW slice \in NextSlices(w)
  PROVE  OneOpen(Upserted(w, slice))
<1> DEFINE rows == Upserted(w, slice)
           t == pass[w].seq
           O == {r \in DOMAIN rows : ~rows[r].complete}
<1>1. O \subseteq {t}
  <2>1. DOMAIN rows = Rows \cup {t} /\ \A r \in Rows \ {t} : rows[r] = slices[r]
    BY UpsertedFacts
  <2>2. \A r \in Rows \ {t} : slices[r].complete
    BY TargetFacts
  <2> HIDE DEF rows, t
  <2> QED
    BY <2>1, <2>2
<1>2. O = {} \/ O = {t}
  <2> HIDE DEF O
  <2> QED
    BY <1>1
<1>3. Cardinality(O) <= 1
  <2> HIDE DEF O
  <2>1. Cardinality({}) = 0 /\ Cardinality({t}) = 1
    BY FS_EmptySet, FS_Singleton
  <2> QED
    BY <1>2, <2>1
<1> QED
  BY <1>3 DEF OneOpen

LEMMA WrittenFacts ==
  ASSUME SummaryInv, NEW w \in Workers, pass[w].pc = "call",
         NEW slice \in NextSlices(w), slices' = Upserted(w, slice)
  PROVE  LET t == pass[w].seq
         IN  /\ slices' \in Seq(SliceType) /\ Len(slices') = t
             /\ Rows' = Rows \cup {t}
             /\ slices'[t] = [seq |-> t, complete |-> FullBatch(w),
                              covered |-> slice]
             /\ \A r \in Rows \ {t} : slices'[r] = slices[r]
<1> DEFINE t == pass[w].seq
           rows == Upserted(w, slice)
<1>1. /\ rows \in Seq(SliceType) /\ Len(rows) = t /\ DOMAIN rows = Rows \cup {t}
      /\ rows[t] = [seq |-> t, complete |-> FullBatch(w), covered |-> slice]
      /\ \A r \in Rows \ {t} : rows[r] = slices[r]
  BY UpsertedFacts
<1>2. slices' = rows /\ Rows' = DOMAIN rows
  BY DEF Rows
<1> HIDE DEF rows, t
<1> QED
  BY <1>1, <1>2 DEF t

(* So a write is a slice of the pass, and the pass moves on.               *)
LEMMA WriteStep ==
  ASSUME SummaryInv, NEW w \in Workers, Write(w)
  PROVE  \E slice \in NextSlices(w) :
            /\ slices' = Upserted(w, slice)
            /\ pass' = [pass EXCEPT ![w] = Advanced(w, slice, FullBatch(w))]
  BY WriteAllowed DEF Write

(* A slice is written: the call has ended, and one less is left.           *)
LEMMA WriteInv ==
  ASSUME SummaryInv, NEW w \in Workers, Write(w)
  PROVE  SummaryInv'
<1>1. /\ pass \in [Workers -> PassType] /\ pass[w] \in PassType
      /\ linked \in Nat /\ linked <= MaxFacts /\ age \in Nat
      /\ pass[w].batch \in Nat \ {0} /\ pass[w].since \in 0..CallTime
      /\ FullBatch(w) \in BOOLEAN
  <2>1. /\ pass \in [Workers -> PassType] /\ linked \in Nat
        /\ linked <= MaxFacts /\ age \in Nat
    BY Basics DEF SummaryInv, TypeOK
  <2> QED
    BY <2>1 DEF PassType, FullBatch
<1>2. /\ pass[w].pc = "call" /\ Active(w) /\ PassInv(w)
      /\ UNCHANGED <<linked, extracting, claimed, age, jobs, asked,
                   overtaken, faults>>
  BY DEF Write, Active, SummaryInv
<1>3. TodoUncovered(w) /\ Target(w) /\ claimed
  BY <1>2 DEF PassInv
<1>4. PICK slice \in NextSlices(w) :
            /\ slices' = Upserted(w, slice)
            /\ pass' = [pass EXCEPT ![w] = Advanced(w, slice, FullBatch(w))]
  BY WriteStep
<1>5. SummaryInv'
  <2> DEFINE t == pass[w].seq
             rest == pass[w].todo \ slice
             more == Cardinality(rest) >= pass[w].batch
             new == Advanced(w, slice, FullBatch(w))
             rows == Upserted(w, slice)
  <2>1. slices' = rows /\ pass' = [pass EXCEPT ![w] = new]
    BY <1>4
  <2>2. /\ slices' \in Seq(SliceType) /\ Len(slices') = t
        /\ Rows' = Rows \cup {t}
        /\ slices'[t] = [seq |-> t, complete |-> FullBatch(w),
                         covered |-> slice]
        /\ \A r \in Rows \ {t} : slices'[r] = slices[r]
    BY <1>2, <1>4, WrittenFacts
  <2>3. /\ t \in Nat \ {0}
        /\ \A r \in Rows \ {t} : /\ slices[r].complete
                                 /\ slices[r].covered \cap pass[w].todo = {}
        /\ ~FullBatch(w) => Rows \ {t} = {}
    BY <1>2, TargetFacts
  <2>4. /\ slice \subseteq pass[w].todo
        /\ Cardinality(pass[w].todo) \in Nat
        /\ Cardinality(pass[w].todo) <= MaxFacts
        /\ Cardinality(rest) \in Nat /\ (rest = {} <=> Cardinality(rest) = 0)
        /\ FullBatch(w) => Cardinality(rest) + pass[w].batch
                             <= Cardinality(pass[w].todo)
        /\ ~FullBatch(w) => rest = {}
    BY <1>2, SliceFacts
  <2>5. pass[w].todo \subseteq 1..linked
    BY <1>3 DEF TodoUncovered
  <2>6. /\ slices'[t].seq = t /\ slices'[t].covered = slice
        /\ slices'[t].complete = FullBatch(w)
    BY <2>2
  <2> HIDE DEF rows
  <2>7. pass'[w] = new /\ new \in PassType
    <3>1. rest \subseteq Facts /\ t + 1 \in Nat /\ 0 \in 0..CallTime
      <4>1. rest \subseteq 1..linked
        BY <2>5
      <4> HIDE DEF rest
      <4> QED
        BY <1>1, <2>3, <4>1, NumbersAssumption DEF Facts
    <3>2. pass[w].froze \in BOOLEAN /\ (pass[w].froze \/ FullBatch(w)) \in BOOLEAN
      BY <1>1, Zenon DEF PassType
    <3>3. new = [pass[w] EXCEPT !.pc = IF more THEN "call" ELSE "chain",
                                !.todo = rest, !.kept = @ \ slice,
                                !.row = 0, !.seq = @ + 1,
                                !.froze = @ \/ FullBatch(w),
                                !.since = 0]
      BY Zenon DEF Advanced
    <3> DEFINE p == pass[w]
    <3>4. /\ p \in PassType /\ p.kept \ slice \subseteq Facts
          /\ p.seq + 1 \in Nat /\ (p.froze \/ FullBatch(w)) \in BOOLEAN
      <4>1. p \in PassType /\ p.kept \subseteq Facts /\ p.seq \in Nat
        BY <1>1 DEF PassType
      <4> QED
        BY <3>2, <4>1
    <3>5. new = [p EXCEPT !.pc = IF more THEN "call" ELSE "chain",
                          !.todo = rest, !.kept = p.kept \ slice,
                          !.row = 0, !.seq = p.seq + 1,
                          !.froze = p.froze \/ FullBatch(w), !.since = 0]
      <4> HIDE DEF new, rest, t, more
      <4> QED
        BY <1>1, <3>3 DEF PassType
    <3> HIDE DEF new, rest, t, more, p
    <3>6. new \in PassType
      BY <3>1, <3>4, <3>5 DEF PassType
    <3> QED
      BY <1>1, <2>1, <3>6
  <2>8. /\ pass'[w].pc = IF more THEN "call" ELSE "chain"
        /\ pass'[w].todo = rest /\ pass'[w].row = 0 /\ pass'[w].seq = t + 1
        /\ pass'[w].batch = pass[w].batch /\ pass'[w].since = 0
    <3> HIDE DEF rest, t, more
    <3> QED
      BY <1>1, <2>7 DEF new, Advanced, PassType, rest, t, more
  <2> HIDE DEF new
  <2>9. TypeOK'
    <3>1. pass' \in [Workers -> PassType]
      BY <1>1, <2>1, <2>7
    <3>2. asked \subseteq Rows'
      BY <2>2 DEF SummaryInv, TypeOK
    <3> QED
      BY <1>2, <2>2, <3>1, <3>2 DEF SummaryInv, TypeOK
  <2> HIDE DEF t, rest, more
  <2>10. Numbered'
    BY <2>2, <2>6 DEF SummaryInv, Numbered
  <2>11. Disjoint'
    <3>1. \A r \in Rows \ {t} : slices[r].covered \cap slice = {}
      BY <2>3, <2>4
    <3>2. \A q, r \in Rows \ {t} :
             q # r => slices[q].covered \cap slices[r].covered = {}
      BY DEF SummaryInv, Disjoint
    <3> QED
      BY <2>2, <2>6, <3>1, <3>2 DEF Disjoint
  <2>12. \A r \in Rows \ {t} : slices'[r].complete
    BY <2>2, <2>3
  <2>13. OpenAlone'
    <3> SUFFICES ASSUME NEW r \in OpenRows'
                 PROVE  Rows' = {r}
      BY DEF OpenAlone
    <3>1. r = t /\ ~FullBatch(w)
      BY <2>2, <2>6, <2>12 DEF OpenRows, CompleteRows
    <3> QED
      BY <2>2, <2>3, <3>1
  <2>14. OnlyLinked'
    BY <1>2, <2>2, <2>4, <2>5, <2>6 DEF SummaryInv, OnlyLinked
  <2>15. ASSUME more
         PROVE  TodoUncovered(w)' /\ Target(w)'
    <3>1. rest # {} /\ FullBatch(w)
      BY <1>1, <2>4, <2>15 DEF more
    <3>2. TodoUncovered(w)'
      <4>1. \A r \in Rows \ {t} : slices'[r].covered \cap rest = {}
        BY <2>2, <2>3 DEF rest
      <4>2. slices'[t].covered \cap rest = {}
        BY <2>6 DEF rest
      <4>3. rest \subseteq 1..linked
        BY <2>5 DEF rest
      <4> QED
        BY <1>2, <2>2, <2>8, <3>1, <4>1, <4>2, <4>3 DEF TodoUncovered
    <3>3. Target(w)'
      <4>1. OpenRows' = {}
        BY <2>2, <2>6, <2>12, <3>1 DEF OpenRows, CompleteRows
      <4>2. FullBatch(w)'
        BY <2>8, <2>15 DEF FullBatch, more
      <4> QED
        BY <2>2, <2>8, <4>1, <4>2 DEF Target
    <3> QED
      BY <3>2, <3>3
  <2>16. PassInv(w)'
    BY <1>2, <1>3, <2>8, <2>15 DEF PassInv
  <2> QED
    BY <1>2, <2>1, <2>9, <2>10, <2>11, <2>13, <2>14, <2>16, OnlyStep,
       OthersIdle
<1> QED
  BY <1>5

LEMMA NextInv ==
  ASSUME SummaryInv, [Next]_vars, overtaken' = "never"
  PROVE  SummaryInv'
<1>1. linked \in Nat /\ pass \in [Workers -> PassType]
  BY Basics DEF SummaryInv, TypeOK
<1>2. CASE LinkFacts \/ EnqueuePass \/ Requeue
  <2>1. TypeOK' /\ UNCHANGED <<slices, claimed, pass>>
    BY <1>2, QueueType DEF LinkFacts, EnqueuePass, Requeue, SummaryInv
  <2>2. linked <= linked'
    BY <1>1, <1>2, NumbersAssumption DEF LinkFacts, EnqueuePass, Requeue
  <2> QED
    BY <2>1, <2>2, Untouched
<1>3. CASE Tick
  BY <1>3, TickInv
<1>4. ASSUME NEW w \in Workers, Summarize(w)
      PROVE  SummaryInv'
  <2>1. CASE Claim(w)
    BY <2>1, ClaimInv
  <2>2. CASE Skip(w)
    <3>1. TypeOK' /\ UNCHANGED <<slices, claimed, pass, linked>>
      BY <2>2, PassTypeStep DEF Skip, SummaryInv
    <3>2. linked <= linked'
      BY <1>1, <3>1
    <3> QED
      BY <3>1, <3>2, Untouched
  <2>3. CASE List(w)
    BY <2>3, ListInv
  <2>4. CASE Plan(w)
    BY <2>4, PlanInv
  <2>5. CASE Write(w)
    BY <2>5, WriteInv
  <2>6. CASE Fails(w) \/ Chain(w)
    <3>1. /\ TypeOK' /\ Active(w)
          /\ pass' = [pass EXCEPT ![w].pc = "release"]
          /\ UNCHANGED <<slices, linked, claimed>>
      BY <2>6, PassTypeStep DEF Fails, Chain, Active, SummaryInv
    <3> QED
      BY <3>1, ToReleaseInv
  <2>7. CASE Release(w) \/ Crash(w)
    BY <2>7, EndInv
  <2> QED
    BY <1>4, <2>1, <2>2, <2>3, <2>4, <2>5, <2>6, <2>7 DEF Summarize
<1>5. CASE UNCHANGED vars
  <2>1. UNCHANGED <<slices, claimed, pass, linked>> /\ linked <= linked'
    BY <1>1, <1>5 DEF vars
  <2>2. TypeOK'
    BY <1>5 DEF vars, SummaryInv, TypeOK, Rows
  <2> QED
    BY <2>1, <2>2, Untouched
<1> QED
  BY <1>2, <1>3, <1>4, <1>5 DEF Next

LEMMA InitInv ==
  ASSUME Init
  PROVE  SummaryInv
<1>1. Rows = {} /\ slices \in Seq(SliceType)
  BY DEF Init, Rows
<1>2. TypeOK
  <2>1. pass \in [Workers -> PassType]
    BY IdleType DEF Init
  <2>2. /\ linked \in 0..MaxFacts /\ extracting \in 0..linked /\ jobs \in Nat
        /\ age \in 0..(Staleness + 1) /\ faults \in 0..MaxFaults
    BY NumbersAssumption DEF Init
  <2>3. claimed \in BOOLEAN /\ asked \subseteq Rows /\ overtaken = "never"
    BY DEF Init
  <2> QED
    BY <1>1, <2>1, <2>2, <2>3 DEF TypeOK
<1>3. \A w \in Workers : pass[w] = IdlePass
  BY DEF Init
<1>4. OnePass /\ \A w \in Workers : PassInv(w)
  BY <1>3 DEF OnePass, PassInv, Active, IdlePass
<1>5. Numbered /\ Disjoint /\ OpenAlone /\ OnlyLinked
  BY <1>1 DEF Numbered, Disjoint, OpenAlone, OnlyLinked, OpenRows
<1> QED
  BY <1>2, <1>4, <1>5 DEF SummaryInv

-----------------------------------------------------------------------------
(* Theorems                                                                *)

(* As long as no pass has been overtaken, there is one at most and the     *)
(* rows keep their shape, whatever summarizeOneConcept does: however long  *)
(* its calls last, whoever claims a stale claim whose owner has died.      *)
THEOREM SummaryInvariant == Spec => [](overtaken = "never" => SummaryInv)
<1> DEFINE I == overtaken = "never" => SummaryInv
<1>1. Init => I
  BY InitInv
<1>2. I /\ [Next]_vars => I'
  BY NeverBefore, NextInv
<1> QED
  BY <1>1, <1>2, PTL DEF Spec

(* No fact is in two summaries of a concept and no two of them have one    *)
(* sequence number, however many workers, jobs, crashes and failing calls, *)
(* unless a pass has gone on beside the one that took its claim over: the  *)
(* overtaking is all that can break the slices.                            *)
THEOREM SlicesTheorem == Spec => []SlicesDisjoint
<1>1. (overtaken = "never" => SummaryInv) => SlicesDisjoint
  BY DEF SummaryInv, Numbered, Disjoint, SlicesDisjoint
<1> QED
  BY <1>1, SummaryInvariant, PTL

-----------------------------------------------------------------------------
(* The synthesis that follows                                              *)

(* The pass has completed a slice and has still to ask for the synthesis.  *)
Due(w) == pass[w].pc \in {"call", "chain"} /\ pass[w].froze

(* Nothing complete is forgotten on the way to the end of its pass.        *)
Asking ==
    faults = 0 /\ overtaken = "never" =>
        CompleteRows \subseteq asked \/ \E w \in Workers : Due(w)

LEMMA AskingWrite ==
  ASSUME SummaryInv, Asking, faults = 0, overtaken = "never",
         NEW w \in Workers, Write(w)
  PROVE  CompleteRows' \subseteq asked' \/ \E v \in Workers : Due(v)'
<1>1. /\ pass \in [Workers -> PassType] /\ pass[w] \in PassType
      /\ pass[w].pc = "call" /\ asked' = asked
  BY DEF SummaryInv, TypeOK, Write
<1>3. PICK slice \in NextSlices(w) :
            /\ slices' = Upserted(w, slice)
            /\ pass' = [pass EXCEPT ![w] = Advanced(w, slice, FullBatch(w))]
  BY WriteStep
<1>4. /\ \A v \in Workers : v # w => pass'[v] = pass[v]
      /\ pass'[w] = Advanced(w, slice, FullBatch(w))
  BY <1>1, <1>3
<1>5. /\ Advanced(w, slice, FullBatch(w)).pc \in {"call", "chain"}
      /\ Advanced(w, slice, FullBatch(w)).froze = (pass[w].froze \/ FullBatch(w))
  <2> DEFINE rest == pass[w].todo \ slice
             more == Cardinality(rest) >= pass[w].batch
             F == pass[w].froze \/ FullBatch(w)
             n == pass[w].seq + 1
             kept == pass[w].kept \ slice
             a == [pass[w] EXCEPT !.pc = IF more THEN "call" ELSE "chain",
                                  !.todo = rest, !.kept = kept,
                                  !.row = 0, !.seq = n,
                                  !.froze = F, !.since = 0]
  <2>1. Advanced(w, slice, FullBatch(w)) = a
    BY <1>1 DEF Advanced, PassType
  <2> HIDE DEF rest, more, kept, F, n
  <2>2. a.pc \in {"call", "chain"} /\ a.froze = F
    BY <1>1 DEF PassType
  <2> HIDE DEF a
  <2> QED
    BY <2>1, <2>2 DEF F
<1>6. CASE FullBatch(w)
  BY <1>4, <1>5, <1>6, Zenon DEF Due
<1>7. CASE ~FullBatch(w)
  <2>a. /\ Rows' = Rows \cup {pass[w].seq}
        /\ slices'[pass[w].seq] = [seq |-> pass[w].seq,
                      complete |-> FullBatch(w), covered |-> slice]
        /\ \A r \in Rows \ {pass[w].seq} : slices'[r] = slices[r]
    BY <1>1, <1>3, WrittenFacts
  <2>b. slices'[pass[w].seq].complete = FullBatch(w)
    BY <2>a
  <2>1. /\ Rows' = Rows \cup {pass[w].seq}
        /\ ~slices'[pass[w].seq].complete
        /\ \A r \in Rows \ {pass[w].seq} : slices'[r] = slices[r]
    BY <1>7, <2>a, <2>b
  <2>2. CompleteRows' \subseteq CompleteRows
    BY <2>1 DEF CompleteRows
  <2>3. \A v \in Workers : Due(v) => Due(v)'
    <3>1. Due(w) => Due(w)'
      BY <1>4, <1>5, Zenon DEF Due
    <3> QED
      BY <1>4, <3>1 DEF Due
  <2> QED
    BY <1>1, <2>2, <2>3 DEF Asking
<1> QED
  BY <1>6, <1>7

LEMMA AskingNext ==
  ASSUME overtaken = "never" => SummaryInv, Asking, [Next]_vars
  PROVE  Asking'
<1> SUFFICES ASSUME faults' = 0, overtaken' = "never"
             PROVE  CompleteRows' \subseteq asked' \/ \E w \in Workers : Due(w)'
  BY DEF Asking
<1>0. overtaken = "never" /\ SummaryInv
  BY NeverBefore
<1>1. faults \in Nat /\ ~Fault /\ pass \in [Workers -> PassType]
  <2>1. faults \in Nat
    BY <1>0, NumbersAssumption DEF SummaryInv, TypeOK
  <2> QED
    BY <1>0, <2>1 DEF SummaryInv, TypeOK, Fault
<1>2. faults = 0
  <2>1. CASE LinkFacts \/ EnqueuePass \/ Requeue \/ Tick \/ UNCHANGED vars
    BY <1>1, <2>1 DEF LinkFacts, EnqueuePass, Requeue, Tick, vars
  <2>2. ASSUME NEW w \in Workers, Summarize(w)
        PROVE  faults = 0
    <3>1. CASE Claim(w) \/ Skip(w) \/ List(w) \/ Plan(w) \/ Write(w)
      BY <1>1, <3>1 DEF Claim, Skip, List, Plan, Write, NoFault
    <3>2. CASE Fails(w) \/ Chain(w) \/ Release(w) \/ Crash(w)
      BY <1>1, <3>2 DEF Fails, Chain, Release, Crash, NoFault
    <3> QED
      BY <2>2, <3>1, <3>2 DEF Summarize
  <2> QED
    BY <2>1, <2>2 DEF Next
<1>3. CompleteRows \subseteq asked \/ \E w \in Workers : Due(w)
  BY <1>0, <1>2 DEF Asking
<1>4. CASE UNCHANGED <<slices, asked>> /\ \A w \in Workers : Due(w) => Due(w)'
  BY <1>3, <1>4 DEF CompleteRows, Rows
<1>5. CASE LinkFacts \/ EnqueuePass \/ UNCHANGED vars
  BY <1>4, <1>5 DEF LinkFacts, EnqueuePass, vars, Due
<1>6. CASE Requeue
  BY <1>1, <1>6 DEF Requeue
<1>7. CASE Tick
  <2>1. \A w \in Workers : pass'[w].pc = pass[w].pc /\ pass'[w].froze = pass[w].froze
    BY <1>1, <1>7 DEF Tick, PassType
  <2> QED
    BY <1>4, <1>7, <2>1 DEF Tick, Due
<1>8. ASSUME NEW w \in Workers, Summarize(w)
      PROVE  CompleteRows' \subseteq asked' \/ \E v \in Workers : Due(v)'
  <2>1. CASE Write(w)
    BY <1>0, <1>2, <2>1, AskingWrite
  <2>2. CASE Chain(w)
    <3>1. CASE pass[w].froze
      BY <1>1, <2>2, <3>1 DEF Chain, CompleteRows, Rows
    <3>2. CASE ~pass[w].froze
      <4>1. UNCHANGED <<slices, asked>> /\ \A v \in Workers : v # w => pass'[v] = pass[v]
        BY <1>1, <2>2, <3>2 DEF Chain
      <4>2. \A v \in Workers : Due(v) => v # w
        BY <3>2 DEF Due
      <4> QED
        BY <1>4, <4>1, <4>2 DEF Due
    <3> QED
      BY <3>1, <3>2
  <2>3. CASE Claim(w) \/ Skip(w) \/ List(w) \/ Plan(w) \/ Release(w)
    <3>1. /\ UNCHANGED <<slices, asked>>
          /\ \A v \in Workers : v # w => pass'[v] = pass[v]
      BY <1>1, <2>3 DEF Claim, Skip, List, Plan, Release
    <3>2. Due(w) => Due(w)'
      BY <1>1, <2>3 DEF Due, Claim, Skip, List, Plan, Release
    <3> QED
      BY <1>4, <3>1, <3>2 DEF Due
  <2>4. CASE Fails(w) \/ Crash(w)
    BY <1>1, <2>4 DEF Fails, Crash
  <2> QED
    BY <1>8, <2>1, <2>2, <2>3, <2>4 DEF Summarize
<1> QED
  BY <1>5, <1>6, <1>7, <1>8 DEF Next

(* When no call has failed, no pass was overtaken and no job is left, a    *)
(* synthesis has been asked for every complete slice: a pass that          *)
(* completes one goes on to its chain, for the unique index never refuses  *)
(* its row.                                                                *)
THEOREM SynthesisTheorem == Spec => []SynthesisAsked
<1>1. Init => Asking
  BY DEF Init, Asking, CompleteRows, Rows
<1>2. (overtaken = "never" => SummaryInv) /\ Asking /\ [Next]_vars => Asking'
  BY AskingNext
<1>3. Asking => SynthesisAsked
  BY DEF Asking, SynthesisAsked, Quiescent, Resting, Due
<1> QED
  BY <1>1, <1>2, <1>3, SummaryInvariant, PTL DEF Spec

-----------------------------------------------------------------------------
(* The log that the readers of the table see                               *)

(* A pass that is to update the open slice has read its facts as they are, *)
(* and has some to add.                                                    *)
Keeps(w) ==
    pass[w].pc = "call" /\ pass[w].row # 0 =>
        /\ pass[w].kept = slices[pass[w].row].covered
        /\ pass[w].kept \subseteq pass[w].todo /\ pass[w].kept # pass[w].todo

LogInv == \A w \in Workers : Keeps(w)

(* A step that leaves the rows and what the passes have planned.           *)
LEMMA LogFrame ==
  ASSUME LogInv, UNCHANGED slices,
         \A w \in Workers : pass'[w].pc = "call" =>
            /\ pass[w].pc = "call"
            /\ pass'[w].row = pass[w].row /\ pass'[w].kept = pass[w].kept
            /\ pass'[w].todo = pass[w].todo
  PROVE  LogInv'
BY DEF LogInv, Keeps

(* A plan takes the facts of the open slice along.                         *)
LEMMA LogPlan ==
  ASSUME SummaryInv, LogInv, NEW w \in Workers, Plan(w)
  PROVE  LogInv'
<1>1. /\ pass \in [Workers -> PassType] /\ Active(w) /\ UNCHANGED slices
      /\ TodoUncovered(w) /\ pass[w].row = 0
  <2>1. pass \in [Workers -> PassType]
    BY DEF SummaryInv, TypeOK
  <2>2. pass[w].pc = "listed" /\ UNCHANGED slices
    BY DEF Plan
  <2> QED
    BY <2>1, <2>2 DEF SummaryInv, PassInv, Active
<1> DEFINE batch == Batch[linked]
           open == IF OpenRow = {} THEN 0 ELSE CHOOSE r \in OpenRow : TRUE
           kept == IF open = 0 THEN {} ELSE slices[open].covered
           seq == IF open = 0 THEN NextSeq ELSE slices[open].seq
<1>2. CASE CompleteRows # {} /\ Cardinality(pass[w].todo) < batch
  <2>1. pass' = [pass EXCEPT ![w].pc = "release"]
    BY <1>2 DEF Plan
  <2>2. \A v \in Workers : pass'[v].pc = "call" => pass'[v] = pass[v]
    BY <1>1, <2>1 DEF PassType
  <2> QED
    BY <1>1, <2>2, LogFrame
<1>3. CASE ~(CompleteRows # {} /\ Cardinality(pass[w].todo) < batch)
  <2>1. pass' = [pass EXCEPT
                  ![w].pc = "call", ![w].since = 0, ![w].batch = batch,
                  ![w].row = open, ![w].seq = seq,
                  ![w].kept = kept, ![w].todo = @ \cup kept]
    BY <1>3, Zenon DEF Plan
  <2>2. /\ pass'[w].batch = batch /\ pass'[w].row = open
        /\ pass'[w].kept = kept /\ pass'[w].todo = pass[w].todo \cup kept
        /\ \A v \in Workers : v # w => pass'[v] = pass[v]
    <3> HIDE DEF batch, open, kept, seq
    <3> QED
      BY <1>1, <2>1 DEF PassType
  <2>3. \A v \in Workers : v # w => pass'[v].pc = "idle"
    BY <1>1, <2>2 DEF SummaryInv, OnePass, Active
  <2>4. ASSUME open # 0
        PROVE  pass[w].todo \cup kept # kept
    <3>1. open \in OpenRows /\ open \in Rows
      <4>1. OpenRow # {} /\ open \in OpenRow
        BY <2>4
      <4> QED
        BY <4>1 DEF OpenRow, OpenRows
    <3>2. kept = slices[open].covered
      BY <2>4
    <3> HIDE DEF open, kept
    <3>3. kept \cap pass[w].todo = {} /\ pass[w].todo # {}
      BY <1>1, <2>4, <3>1, <3>2 DEF TodoUncovered
    <3> QED
      BY <3>3
  <2>5. Keeps(w)'
    <3>1. open # 0 => kept = slices[open].covered
      OBVIOUS
    <3> HIDE DEF open, kept
    <3> QED
      BY <1>1, <2>2, <2>4, <3>1 DEF Keeps
  <2> QED
    BY <2>3, <2>5 DEF LogInv, Keeps
<1> QED
  BY <1>2, <1>3

(* What a pass writes over the open slice are facts of it that make up a   *)
(* batch, or all of them and perhaps more.                                 *)
LEMMA SliceGrows ==
  ASSUME LogInv, NEW w \in Workers, pass[w].pc = "call",
         pass[w].row # 0, NEW slice \in NextSlices(w)
  PROVE  /\ pass[w].kept = slices[pass[w].row].covered
         /\ \/ FullBatch(w) /\ slice \subseteq pass[w].kept
               /\ Cardinality(slice) = pass[w].batch
            \/ pass[w].kept \subseteq slice /\ slice # pass[w].kept
<1>1. /\ pass[w].kept = slices[pass[w].row].covered
      /\ pass[w].kept \subseteq pass[w].todo /\ pass[w].kept # pass[w].todo
  BY DEF LogInv, Keeps
<1>2. CASE FullBatch(w)
  BY <1>1, <1>2 DEF NextSlices, kSubset
<1>3. CASE ~FullBatch(w)
  BY <1>1, <1>3 DEF NextSlices
<1> QED
  BY <1>2, <1>3

(* After a slice, a pass has no row to update.                             *)
LEMMA LogWrite ==
  ASSUME SummaryInv, LogInv, NEW w \in Workers, Write(w)
  PROVE  LogInv'
<1>1. pass \in [Workers -> PassType] /\ pass[w].pc = "call" /\ Active(w)
  BY DEF Write, Active, SummaryInv, TypeOK
<1>2. PICK slice \in NextSlices(w) :
            pass' = [pass EXCEPT ![w] = Advanced(w, slice, FullBatch(w))]
  BY WriteStep
<1>3. ASSUME NEW v \in Workers, pass'[v].pc = "call"
      PROVE  pass'[v].row = 0
  <2>1. v = w /\ pass'[w] = Advanced(w, slice, FullBatch(w))
    BY <1>1, <1>2, <1>3, OthersIdle
  <2>2. Advanced(w, slice, FullBatch(w)).row = 0
    BY <1>1 DEF Advanced, PassType
  <2> QED
    BY <2>1, <2>2
<1> QED
  BY <1>3 DEF LogInv, Keeps

LEMMA Rewritten ==
  ASSUME NEW row \in SliceType, NEW complete \in BOOLEAN, NEW covered
  PROVE  [row EXCEPT !.complete = complete, !.covered = covered]
            = [seq |-> row.seq, complete |-> complete, covered |-> covered]
<1> DEFINE new == [row EXCEPT !.complete = complete, !.covered = covered]
<1>1. DOMAIN row = {"seq", "complete", "covered"}
  BY DEF SliceType
<1>2. /\ DOMAIN new = {"seq", "complete", "covered"}
      /\ new.seq = row.seq /\ new.complete = complete /\ new.covered = covered
  BY <1>1
<1>3. new = [f \in DOMAIN new |-> new[f]]
  OBVIOUS
<1> HIDE DEF new
<1>4. new = [seq |-> row.seq, complete |-> complete, covered |-> covered]
  BY <1>2, <1>3
<1> QED
  BY <1>4 DEF new

(* A write adds to the log, or to its open slice, or cuts that.            *)
LEMMA WriteLogs ==
  ASSUME SummaryInv, LogInv, NEW w \in Workers, Write(w)
  PROVE  Log!Next
<1>1. /\ pass[w].pc = "call" /\ slices \in Seq(SliceType)
      /\ Rows = 1..Len(slices) /\ Len(slices) \in Nat
      /\ TodoUncovered(w) /\ Target(w) /\ FullBatch(w) \in BOOLEAN
  BY Basics DEF Write, SummaryInv, TypeOK, PassInv, FullBatch
<1>2. PICK slice \in NextSlices(w) : slices' = Upserted(w, slice)
  BY WriteStep
<1>3. slice # {} /\ slice \subseteq pass[w].todo /\ slice \subseteq Facts
  <2>1. slice # {} /\ slice \subseteq pass[w].todo
    BY <1>1, SliceFacts
  <2>2. pass[w].todo \subseteq Facts
    BY DEF SummaryInv, TypeOK, PassType
  <2> QED
    BY <2>1, <2>2
<1>4. CASE pass[w].row = 0
  <2>1. OpenRows = {} /\ pass[w].seq = Len(slices) + 1
    BY <1>1, <1>4 DEF Target
  <2>2. slices' = Append(slices, [seq |-> Len(slices) + 1,
                                  complete |-> FullBatch(w), covered |-> slice])
    BY <1>2, <1>4, <2>1 DEF Upserted
  <2>3. \A r \in Rows : slices[r].complete
    BY <2>1 DEF OpenRows, CompleteRows
  <2>4. FullBatch(w) \/ slices = <<>>
    <3>1. ~FullBatch(w) => Rows = {}
      BY <1>1, <2>3 DEF Target, CompleteRows
    <3>2. Rows = {} => Len(slices) = 0
      <4>1. Len(slices) # 0 => 1 \in 1..Len(slices)
        BY <1>1
      <4> QED
        BY <1>1, <4>1
    <3> QED
      BY <1>1, <3>1, <3>2
  <2>5. slice \in (SUBSET Log!Untaken) \ {{}}
    BY <1>1, <1>3, <1>4 DEF Log!Untaken, Log!Taken, TodoUncovered, Rows
  <2>6. Log!Add(slice, FullBatch(w))
    BY <2>2, <2>3, <2>4 DEF Log!Add, Rows
  <2> QED
    BY <1>1, <2>5, <2>6 DEF Log!Next
<1>5. CASE pass[w].row # 0
  <2> DEFINE r == pass[w].row
             F == slice \ slices[r].covered
  <2>1. r \in OpenRows /\ r \in Rows /\ ~slices[r].complete
    BY <1>1, <1>5 DEF Target, OpenRows, CompleteRows
  <2>2. \/ FullBatch(w) /\ slice \subseteq slices[r].covered
        \/ slices[r].covered \subseteq slice /\ slice # slices[r].covered
    BY <1>1, <1>5, SliceGrows
  <2>4. slices' = [slices EXCEPT ![r] = [seq |-> @.seq,
                          complete |-> FullBatch(w), covered |-> slice]]
    BY <1>2, <1>5 DEF Upserted
  <2>5. slices[r] \in SliceType
    BY <1>1, <2>1
  <2> DEFINE new == [slices[r] EXCEPT !.complete = FullBatch(w), !.covered = slice]
  <2>6. new = [seq |-> slices[r].seq, complete |-> FullBatch(w), covered |-> slice]
    <3> HIDE DEF r
    <3> QED
      BY <1>1, <2>5, Rewritten
  <2>7. slices' = [slices EXCEPT ![r] = new]
    BY <2>4, <2>6
  <2>8. r \in DOMAIN slices
    BY <2>1 DEF Rows
  <2>9. CASE FullBatch(w) /\ slice \subseteq slices[r].covered
    <3>1. [slices EXCEPT ![r].complete = TRUE, ![r].covered = slice]
            = [slices EXCEPT ![r] = new]
      <4> HIDE DEF r
      <4>1. FullBatch(w) = TRUE
        BY <1>1, <2>9
      <4> QED
        BY <1>1, <2>5, <2>8, <4>1 DEF SliceType
    <3> HIDE DEF new, r
    <3>2. Log!Cut(r, slice)
      BY <2>1, <2>7, <3>1 DEF Log!Cut
    <3> QED
      BY <1>3, <2>8, <2>9, <3>2 DEF Log!Next
  <2>10. CASE slices[r].covered \subseteq slice /\ slice # slices[r].covered
    <3>1. F \in (SUBSET Log!Untaken) \ {{}}
      <4>1. \A q \in Rows : q # r => slices[q].covered \cap slice = {}
        BY <1>1, <1>3 DEF TodoUncovered
      <4>2. \A q \in Rows : slices[q].covered \cap F = {}
        BY <4>1
      <4>3. F # {} /\ F \subseteq Facts
        BY <1>3, <2>10
      <4> HIDE DEF F
      <4> QED
        BY <4>2, <4>3 DEF Log!Untaken, Log!Taken, Rows
    <3>2. slices[r].covered \cup F = slice
      BY <2>10
    <3>3. [slices EXCEPT ![r].complete = FullBatch(w),
                         ![r].covered = @ \cup F] = [slices EXCEPT ![r] = new]
      <4> HIDE DEF r, F
      <4> QED
        BY <1>1, <2>5, <2>8, <3>2 DEF SliceType
    <3> HIDE DEF new, F, r
    <3>4. Log!Extend(r, F, FullBatch(w))
      BY <2>1, <2>7, <3>3 DEF Log!Extend
    <3> QED
      BY <1>1, <2>8, <3>1, <3>4 DEF Log!Next
  <2> QED
    BY <2>2, <2>9, <2>10
<1> QED
  BY <1>4, <1>5

LEMMA LogNext ==
  ASSUME SummaryInv, LogInv, [Next]_vars
  PROVE  LogInv' /\ [Log!Next]_slices
<1>1. pass \in [Workers -> PassType]
  BY DEF SummaryInv, TypeOK
<1>2. CASE LinkFacts \/ EnqueuePass \/ Requeue \/ UNCHANGED vars
  <2>1. UNCHANGED <<slices, pass>>
    BY <1>2 DEF LinkFacts, EnqueuePass, Requeue, vars
  <2> QED
    BY <2>1, LogFrame
<1>3. CASE Tick
  <2>1. ASSUME NEW v \in Workers
        PROVE  /\ pass'[v].pc = pass[v].pc
               /\ pass'[v].row = pass[v].row /\ pass'[v].kept = pass[v].kept
               /\ pass'[v].todo = pass[v].todo
    BY <1>1, <1>3 DEF Tick, PassType
  <2>2. UNCHANGED slices
    BY <1>3 DEF Tick
  <2> QED
    BY <2>1, <2>2, LogFrame
<1>4. ASSUME NEW w \in Workers, Summarize(w)
      PROVE  LogInv' /\ [Log!Next]_slices
  <2>1. CASE Write(w)
    BY <2>1, LogWrite, WriteLogs
  <2>2. CASE Plan(w)
    <3>1. UNCHANGED slices
      BY <2>2 DEF Plan
    <3> QED
      BY <2>2, <3>1, LogPlan
  <2>3. CASE Claim(w) \/ Skip(w) \/ List(w) \/ Fails(w) \/ Chain(w)
                \/ Release(w) \/ Crash(w)
    <3>1. UNCHANGED slices
      BY <2>3 DEF Claim, Skip, List, Fails, Chain, Release, Crash
    <3>2. ASSUME NEW v \in Workers, pass'[v].pc = "call"
          PROVE  pass'[v] = pass[v]
      <4>1. v # w => pass'[v] = pass[v]
        BY <1>1, <2>3 DEF Claim, Skip, List, Fails, Chain, Release, Crash
      <4>2. pass'[w] = pass[w] \/ pass'[w].pc # "call"
        BY <1>1, <2>3 DEF Claim, Skip, List, Fails, Chain, Release, Crash,
                          IdlePass, PassType
      <4> QED
        BY <3>2, <4>1, <4>2
    <3> QED
      BY <3>1, <3>2, LogFrame
  <2> QED
    BY <1>4, <2>1, <2>2, <2>3 DEF Summarize
<1> QED
  BY <1>2, <1>3, <1>4 DEF Next

(* Both invariants hold as long as no pass is overtaken.                   *)
LogInvs == overtaken = "never" => SummaryInv /\ LogInv

LEMMA LogInvsHold == Spec => []LogInvs
<1>1. Init => LogInvs
  <2>1. Init => LogInv
    BY DEF Init, LogInv, Keeps, IdlePass
  <2> QED
    BY <2>1, InitInv DEF LogInvs
<1>2. LogInvs /\ [Next]_vars => LogInvs'
  BY NeverBefore, NextInv, LogNext DEF LogInvs
<1> QED
  BY <1>1, <1>2, PTL DEF Spec

(* The table of summaries implements the log of SliceLog as long as no     *)
(* pass has been overtaken: each write of a pass adds a slice to its end,  *)
(* adds facts to its one open slice, or completes that with a batch of its *)
(* facts, and no other step is seen, whatever batches the tiers give.      *)
THEOREM LogTheorem == Spec => LogSpec
<1>1. Init => Log!Init
  BY DEF Init, Log!Init
<1>2. LogInvs /\ [Next]_vars => [overtaken # "never" \/ Log!Next]_slices
  BY LogNext DEF LogInvs
<1> QED
  BY <1>1, <1>2, LogInvsHold, PTL DEF Spec, LogSpec

(* A pass that has read the open slice and whose batch is smaller.         *)
Cuts(w) == /\ pass[w].pc = "call" /\ pass[w].row \in OpenRows
           /\ Cardinality(slices[pass[w].row].covered) > pass[w].batch

LEMMA CutOnly ==
  ASSUME SummaryInv, LogInv, NEW w \in Workers, Write(w)
  PROVE  Covered \subseteq Covered' \/ Cuts(w)
<1>1. /\ pass[w].pc = "call" /\ slices \in Seq(SliceType) /\ Target(w)
      /\ pass[w] \in PassType
  BY DEF Write, SummaryInv, TypeOK, PassInv
<1>2. PICK slice \in NextSlices(w) : slices' = Upserted(w, slice)
  BY WriteStep
<1> DEFINE t == pass[w].seq
           row == pass[w].row
<1>3. /\ Rows' = Rows \cup {t}
      /\ slices'[t] = [seq |-> t, complete |-> FullBatch(w), covered |-> slice]
      /\ \A r \in Rows \ {t} : slices'[r] = slices[r]
  BY <1>1, <1>2, WrittenFacts
<1>4. slices'[t].covered = slice
  BY <1>3
<1>5. CASE t \in Rows => slices[t].covered \subseteq slice
  <2>1. \A r \in Rows : r \in Rows' /\ slices[r].covered \subseteq slices'[r].covered
    <3> HIDE DEF t
    <3> QED
      BY <1>3, <1>4, <1>5
  <2> QED
    BY <2>1 DEF Covered
<1>6. CASE t \in Rows /\ ~(slices[t].covered \subseteq slice)
  <2>1. row # 0 /\ row = t /\ row \in OpenRows
    <3>1. row = 0 => t = Len(slices) + 1 /\ t \notin Rows
      BY <1>1, Basics DEF Target, SummaryInv
    <3> QED
      BY <1>1, <1>6, <3>1 DEF Target
  <2>2. /\ slice \subseteq slices[row].covered /\ slice # slices[row].covered
        /\ Cardinality(slice) = pass[w].batch
    BY <1>1, <1>6, <2>1, SliceGrows
  <2>3. IsFiniteSet(slices[row].covered)
    <3>1. slices[row] \in SliceType
      BY <1>1, <2>1 DEF OpenRows, Rows
    <3>2. slices[row].covered \in SUBSET Facts
      BY <3>1 DEF SliceType
    <3>3. IsFiniteSet(Facts)
      BY FS_Interval, NumbersAssumption DEF Facts
    <3> QED
      BY <3>2, <3>3, FS_Subset
  <2> DEFINE C == slices[row].covered
  <2>4. Cardinality(slice) < Cardinality(C)
    <3>1. slice \in SUBSET C /\ slice # C /\ IsFiniteSet(C)
      BY <2>2, <2>3
    <3> HIDE DEF C
    <3>2. /\ IsFiniteSet(slice) /\ Cardinality(slice) <= Cardinality(C)
          /\ (Cardinality(slice) = Cardinality(C) => slice = C)
      BY <3>1, FS_Subset
    <3>3. Cardinality(slice) \in Nat /\ Cardinality(C) \in Nat
      BY <3>1, <3>2, FS_CardinalityType
    <3> QED
      BY <3>1, <3>2, <3>3
  <2>5. Cardinality(slice) \in Nat /\ Cardinality(C) \in Nat
    <3>1. slice \in SUBSET C /\ IsFiniteSet(C)
      BY <2>2, <2>3
    <3> HIDE DEF C
    <3> QED
      BY <3>1, FS_Subset, FS_CardinalityType
  <2> QED
    BY <1>1, <2>1, <2>2, <2>4, <2>5 DEF Cuts
<1> QED
  BY <1>5, <1>6

(* A fact that is in a summary leaves the summaries only when a pass       *)
(* replaces the open slice that it has read and its batch is smaller than  *)
(* that slice, so that the fact is summarized later: never because of a    *)
(* failing call, a crash or another job, unless a pass has been overtaken. *)
THEOREM NoFactLeaves ==
  Spec => [][\/ overtaken # "never" \/ Covered \subseteq Covered'
             \/ \E w \in Workers : Cuts(w)]_vars
<1>1. ASSUME LogInvs, [Next]_vars, overtaken = "never"
      PROVE  Covered \subseteq Covered' \/ \E w \in Workers : Cuts(w)
  <2>1. CASE UNCHANGED slices
    BY <2>1 DEF Covered, Rows
  <2>2. ASSUME NEW w \in Workers, Write(w)
        PROVE  Covered \subseteq Covered' \/ Cuts(w)
    BY <1>1, <2>2, CutOnly DEF LogInvs
  <2>3. ASSUME NEW w \in Workers, Summarize(w), ~Write(w)
        PROVE  UNCHANGED slices
    BY <2>3 DEF Summarize, Claim, Skip, List, Plan, Fails, Chain, Release, Crash
  <2> QED
    BY <1>1, <2>1, <2>2, <2>3
       DEF Next, LinkFacts, EnqueuePass, Requeue, Tick, vars
<1>2. LogInvs /\ [Next]_vars
        => [\/ overtaken # "never" \/ Covered \subseteq Covered'
            \/ \E w \in Workers : Cuts(w)]_vars
  BY <1>1
<1> QED
  BY <1>2, LogInvsHold, PTL DEF Spec
-----------------------------------------------------------------------------
(* Whatever the window: passes may overlap and write each other's rows.    *)

Numbers == {slices[r].seq : r \in Rows} \cup {0}

(* The sequence numbers leave no gap, although two rows may share one.     *)
NoGap == \E m \in Nat : Numbers = 0..m

(* A pass has facts to slice, the row that it is going to update has not   *)
(* gone, and the number before its own is taken.                           *)
PassShape(w) ==
    /\ pass[w].row \in 0..Len(slices)
    /\ pass[w].pc \in {"listed", "call"} => pass[w].todo # {}
    /\ pass[w].pc = "call" =>
          /\ pass[w].seq \in Nat \ {0} /\ pass[w].seq - 1 \in Numbers
          /\ pass[w].row # 0 => pass[w].seq \in Numbers

OverlapInv == TypeOK /\ NoGap /\ \A w \in Workers : PassShape(w)

(* Rows only come in, and keep their numbers.                              *)
LEMMA ShapeKept ==
  ASSUME OverlapInv, TypeOK', NoGap', Rows \subseteq Rows',
         Numbers \subseteq Numbers', NEW W \in SUBSET Workers,
         \A v \in W : pass'[v] = pass[v],
         \A v \in Workers \ W : PassShape(v)'
  PROVE  OverlapInv'
<1>1. /\ Rows = 1..Len(slices) /\ Len(slices) \in Nat
      /\ Rows' = 1..Len(slices') /\ Len(slices') \in Nat
  BY DEF OverlapInv, TypeOK, Rows
<1>2. \A i \in 0..Len(slices) : i \in 0..Len(slices')
  <2>1. Len(slices) = 0 \/ Len(slices) \in Rows'
    BY <1>1
  <2> QED
    BY <1>1, <2>1
<1>3. ASSUME NEW v \in W
      PROVE  PassShape(v)'
  BY <1>2 DEF OverlapInv, PassShape
<1> QED
  BY <1>3 DEF OverlapInv

LEMMA SlicesStill ==
  ASSUME OverlapInv, UNCHANGED slices
  PROVE  NoGap' /\ Rows' = Rows /\ Numbers' = Numbers
  BY DEF OverlapInv, NoGap, Numbers, Rows

(* A step of a pass that writes no slice.                                  *)
LEMMA ShapeStep ==
  ASSUME OverlapInv, TypeOK', UNCHANGED slices, NEW w \in Workers,
         \A v \in Workers \ {w} : pass'[v] = pass[v], PassShape(w)'
  PROVE  OverlapInv'
<1>1. NoGap' /\ Rows' = Rows /\ Numbers' = Numbers
  BY SlicesStill
<1>2. Workers \ {w} \in SUBSET Workers
  OBVIOUS
<1> QED
  BY <1>1, <1>2, ShapeKept

(* MAX(sequence_num) of the rows is the last of their numbers.             *)
LEMMA MaxSeqLast ==
  ASSUME OverlapInv
  PROVE  /\ MaxSeq \in Numbers /\ MaxSeq \in Nat
         /\ Numbers = 0..MaxSeq
<1>1. PICK m \in Nat : Numbers = 0..m
  BY DEF OverlapInv, NoGap
<1>2. Max(0..m) = m
  BY DEF Max
<1>3. MaxSeq = Max(Numbers)
  BY DEF MaxSeq, Numbers
<1> QED
  BY <1>1, <1>2, <1>3

LEMMA PlanShape ==
  ASSUME OverlapInv, NEW w \in Workers, Plan(w)
  PROVE  OverlapInv'
<1> DEFINE batch == Batch[linked]
           open == IF OpenRow = {} THEN 0 ELSE CHOOSE r \in OpenRow : TRUE
           seq == IF open = 0 THEN NextSeq ELSE slices[open].seq
           kept == IF open = 0 THEN {} ELSE slices[open].covered
           todo == pass[w].todo \cup kept
<1>1. /\ pass \in [Workers -> PassType] /\ pass[w] \in PassType
      /\ slices \in Seq(SliceType)
      /\ Rows = 1..Len(slices) /\ Len(slices) \in Nat
      /\ linked \in Nat /\ linked <= MaxFacts
      /\ pass[w].todo # {} /\ pass[w].row \in 0..Len(slices)
      /\ UNCHANGED <<linked, extracting, slices, claimed, age, jobs, asked,
                     overtaken, faults>>
  BY Basics DEF OverlapInv, TypeOK, PassShape, Plan, NoFault
<1>2. batch \in Nat \ {0}
  BY <1>1, BatchAssumption
<1>3. open # 0 => open \in Rows /\ slices[open] \in SliceType
  <2>1. OpenRow # {} => open \in OpenRow
    OBVIOUS
  <2> QED
    BY <1>1, <2>1 DEF OpenRow, OpenRows
<1>4. open \in 0..Len(slices)
  <2> HIDE DEF open
  <2> QED
    BY <1>1, <1>3
<1>5. /\ seq \in Nat \ {0} /\ seq - 1 \in Numbers
      /\ open # 0 => seq \in Numbers
  <2>1. MaxSeq \in Nat /\ Numbers = 0..MaxSeq
    BY MaxSeqLast
  <2>2. CASE open = 0
    BY <2>1, <2>2 DEF NextSeq
  <2>3. CASE open # 0
    <3>1. seq = slices[open].seq /\ open \in Rows /\ slices[open] \in SliceType
      BY <1>3, <2>3
    <3>2. seq \in Nat \ {0} /\ seq \in Numbers
      BY <3>1 DEF SliceType, Numbers
    <3> HIDE DEF seq, open
    <3> QED
      BY <2>1, <3>2
  <2> QED
    BY <2>2, <2>3
<1>6. kept \subseteq Facts
  BY <1>3 DEF SliceType
<1>7. NoGap' /\ Rows' = Rows /\ Numbers' = Numbers
  BY <1>1, SlicesStill
<1> HIDE DEF batch, open, seq, kept
<1>8. CASE CompleteRows # {} /\ Cardinality(pass[w].todo) < batch
  <2> DEFINE new == [pass[w] EXCEPT !.pc = "release"]
  <2>1. pass' = [pass EXCEPT ![w] = new]
    BY <1>8 DEF Plan, batch
  <2>2. new \in PassType /\ new.pc = "release" /\ new.row = pass[w].row
    BY <1>1 DEF PassType
  <2> HIDE DEF new
  <2>3. TypeOK'
    BY <1>1, <2>1, <2>2 DEF OverlapInv, TypeOK, Rows
  <2>4. PassShape(w)'
    BY <1>1, <2>1, <2>2 DEF PassShape
  <2> QED
    BY <1>1, <2>1, <2>3, <2>4, ShapeStep
<1>9. CASE ~(CompleteRows # {} /\ Cardinality(pass[w].todo) < batch)
  <2> DEFINE new == [pass[w] EXCEPT !.pc = "call", !.since = 0, !.batch = batch,
                                    !.row = open, !.seq = seq, !.kept = kept,
                                    !.todo = todo]
  <2>1. pass' = [pass EXCEPT ![w] = new]
    <3>1. pass' = [pass EXCEPT
                    ![w].pc = "call", ![w].since = 0, ![w].batch = batch,
                    ![w].row = open, ![w].seq = seq,
                    ![w].kept = kept, ![w].todo = @ \cup kept]
      BY <1>9, Zenon DEF Plan, batch, open, seq, kept
    <3> QED
      BY <1>1, <3>1 DEF PassType
  <2>2. /\ new \in PassType /\ new.pc = "call" /\ new.row = open
        /\ new.seq = seq /\ new.todo = todo
    <3>1. todo \subseteq Facts /\ open \in Nat /\ 0 \in 0..CallTime
      BY <1>1, <1>4, <1>6, NumbersAssumption DEF PassType
    <3> HIDE DEF todo
    <3> QED
      BY <1>1, <1>2, <1>5, <1>6, <3>1 DEF PassType
  <2>3. todo # {}
    BY <1>1
  <2> HIDE DEF new, todo
  <2>4. TypeOK'
    BY <1>1, <2>1, <2>2 DEF OverlapInv, TypeOK, Rows
  <2>5. PassShape(w)'
    <3>1. pass'[w] = new /\ slices' = slices
      BY <1>1, <2>1
    <3> QED
      BY <1>4, <1>5, <1>7, <2>2, <2>3, <3>1 DEF PassShape
  <2> QED
    BY <1>1, <2>1, <2>4, <2>5, ShapeStep
<1> QED
  BY <1>8, <1>9

(* What a pass writes covers a fact, and the row keeps or gets a number    *)
(* that leaves no gap, whoever wrote rows since the plan.                  *)
LEMMA SomeSlice ==
  ASSUME OverlapInv, NEW w \in Workers, pass[w].pc = "call",
         NEW slice \in NextSlices(w)
  PROVE  slice # {} /\ slice \subseteq pass[w].todo
<1>1. pass[w] \in PassType /\ pass[w].todo # {}
  BY DEF OverlapInv, TypeOK, PassShape
<1>2. /\ slice \subseteq pass[w].todo
      /\ IF FullBatch(w) THEN Cardinality(slice) = pass[w].batch
                         ELSE slice = pass[w].todo
  BY DEF NextSlices, kSubset
<1>3. Cardinality({}) = 0 /\ pass[w].batch # 0
  BY <1>1, FS_EmptySet DEF PassType
<1> QED
  BY <1>1, <1>2, <1>3

LEMMA RowsWritten ==
  ASSUME OverlapInv, NEW w \in Workers, pass[w].pc = "call",
         NEW slice \in NextSlices(w), slices' = Upserted(w, slice)
  PROVE  /\ slices' \in Seq(SliceType) /\ Rows \subseteq Rows' /\ NoGap'
         /\ Numbers \subseteq Numbers' /\ pass[w].seq \in Numbers'
<1> DEFINE seq == pass[w].seq
           row == pass[w].row
           new(s) == [seq |-> s, complete |-> FullBatch(w), covered |-> slice]
<1>1. /\ Rows = 1..Len(slices) /\ Len(slices) \in Nat
      /\ slices \in Seq(SliceType) /\ pass[w].todo \subseteq Facts
  BY Basics DEF OverlapInv, TypeOK, PassType
<1>2. /\ row \in 0..Len(slices) /\ seq \in Nat \ {0} /\ seq - 1 \in Numbers
      /\ row # 0 => seq \in Numbers
  BY DEF OverlapInv, PassShape
<1>3. \A s \in Nat \ {0} : new(s) \in SliceType
  <2>1. slice \in (SUBSET Facts) \ {{}} /\ FullBatch(w) \in BOOLEAN
    BY <1>1, SomeSlice DEF FullBatch
  <2> QED
    BY <2>1 DEF SliceType
<1>4. CASE row = 0
  <2>1. slices' = Append(slices, new(seq)) /\ new(seq) \in SliceType
    BY <1>2, <1>3, <1>4 DEF Upserted
  <2>2. new(seq).seq = seq
    OBVIOUS
  <2> HIDE DEF new
  <2>3. /\ slices' \in Seq(SliceType) /\ Rows' = Rows \cup {Len(slices) + 1}
        /\ slices'[Len(slices) + 1] = new(seq)
        /\ \A r \in Rows : slices'[r] = slices[r]
        /\ Len(slices) + 1 \notin Rows
    BY <1>1, <2>1 DEF Rows
  <2>4. Numbers' = Numbers \cup {seq}
    BY <2>2, <2>3 DEF Numbers
  <2>5. NoGap'
    <3>1. PICK m \in Nat : Numbers = 0..m
      BY DEF OverlapInv, NoGap
    <3>2. seq \in 1..(m + 1)
      BY <1>2, <3>1
    <3>3. Numbers' = 0..m \/ Numbers' = 0..(m + 1)
      BY <2>4, <3>1, <3>2
    <3>4. m + 1 \in Nat
      BY <3>1
    <3> QED
      BY <3>3, <3>4 DEF NoGap
  <2> QED
    BY <2>3, <2>4, <2>5
<1>5. CASE row # 0
  <2>1. /\ row \in Rows /\ slices[row] \in SliceType
        /\ slices[row].seq \in Nat \ {0}
    <3>1. row \in Rows
      BY <1>1, <1>2, <1>5
    <3> HIDE DEF row
    <3>2. slices[row] \in SliceType
      BY <1>1, <3>1
    <3> QED
      BY <3>1, <3>2 DEF SliceType
  <2>2. slices' = [slices EXCEPT ![row] = new(slices[row].seq)]
    BY <1>5 DEF Upserted
  <2>3. new(slices[row].seq) \in SliceType
        /\ new(slices[row].seq).seq = slices[row].seq
    BY <1>3, <2>1
  <2> HIDE DEF new
  <2>4. /\ slices' \in Seq(SliceType) /\ Rows' = Rows
        /\ \A r \in Rows : slices'[r].seq = slices[r].seq
    BY <1>1, <2>1, <2>2, <2>3 DEF Rows
  <2>5. Numbers' = Numbers
    BY <2>4 DEF Numbers
  <2> QED
    BY <1>2, <1>5, <2>4, <2>5 DEF OverlapInv, NoGap
<1> QED
  BY <1>4, <1>5

LEMMA WriteShape ==
  ASSUME OverlapInv, NEW w \in Workers, Write(w)
  PROVE  OverlapInv'
<1>1. /\ pass \in [Workers -> PassType] /\ pass[w] \in PassType
      /\ pass[w].pc = "call" /\ pass[w].row \in 0..Len(slices)
      /\ pass[w].seq \in Nat \ {0} /\ Len(slices) \in Nat
      /\ IsFiniteSet(1..linked)
      /\ UNCHANGED <<linked, extracting, claimed, age, jobs, asked,
                   overtaken, faults>>
  BY Basics DEF OverlapInv, TypeOK, PassShape, Write
<1>2. PICK slice \in NextSlices(w) :
         \/ /\ slices' = Upserted(w, slice)
            /\ pass' = [pass EXCEPT ![w] = Advanced(w, slice, FullBatch(w))]
         \/ /\ slices' = slices
            /\ pass' = [pass EXCEPT ![w].pc = "release"]
  BY DEF Write
<1>3. CASE /\ slices' = Upserted(w, slice)
           /\ pass' = [pass EXCEPT ![w] = Advanced(w, slice, FullBatch(w))]
  <2> DEFINE new == Advanced(w, slice, FullBatch(w))
             rest == pass[w].todo \ slice
  <2>1. /\ new.pc = IF Cardinality(rest) >= pass[w].batch THEN "call" ELSE "chain"
        /\ new.todo = rest /\ new.row = 0 /\ new.seq = pass[w].seq + 1
    BY <1>1 DEF Advanced, PassType
  <2>2. new \in PassType
    <3>1. FullBatch(w) \in BOOLEAN
      BY DEF FullBatch
    <3>2. /\ (pass[w].froze \/ FullBatch(w)) \in BOOLEAN
          /\ rest \subseteq Facts /\ pass[w].kept \ slice \subseteq Facts
          /\ pass[w].seq + 1 \in Nat /\ 0 \in 0..CallTime
      BY <1>1, NumbersAssumption DEF PassType
    <3>3. \A p \in {"call", "chain"}, b \in BOOLEAN :
             [pass[w] EXCEPT !.pc = p, !.todo = rest,
                             !.kept = pass[w].kept \ slice, !.row = 0,
                             !.seq = pass[w].seq + 1, !.froze = b, !.since = 0]
               \in PassType
      <4> HIDE DEF rest
      <4> QED
        BY <1>1, <3>2 DEF PassType
    <3>4. (IF Cardinality(rest) >= pass[w].batch THEN "call" ELSE "chain")
            \in {"call", "chain"}
      OBVIOUS
    <3>5. new = [pass[w] EXCEPT
                   !.pc = IF Cardinality(rest) >= pass[w].batch
                            THEN "call" ELSE "chain",
                   !.todo = rest, !.kept = pass[w].kept \ slice, !.row = 0,
                   !.seq = pass[w].seq + 1,
                   !.froze = (pass[w].froze \/ FullBatch(w)), !.since = 0]
      BY <1>1, Zenon DEF Advanced
    <3> HIDE DEF new, rest
    <3> QED
      BY <3>2, <3>3, <3>4, <3>5, Zenon
  <2>3. new.pc = "call" => rest # {}
    <3>1. Cardinality({}) = 0 /\ pass[w].batch \in Nat \ {0}
      BY <1>1, FS_EmptySet DEF PassType
    <3>2. rest = {} => ~(Cardinality(rest) >= pass[w].batch)
      <4> HIDE DEF rest
      <4>1. rest = {} => Cardinality(rest) = 0
        BY <3>1
      <4> QED
        BY <3>1, <4>1
    <3> HIDE DEF rest, new
    <3> QED
      BY <2>1, <3>2
  <2> HIDE DEF new, rest
  <2>4. pass'[w] = new /\ \A v \in Workers \ {w} : pass'[v] = pass[v]
    BY <1>1, <1>3 DEF new
  <2>5. /\ slices' \in Seq(SliceType) /\ Rows \subseteq Rows' /\ NoGap'
        /\ Numbers \subseteq Numbers' /\ pass[w].seq \in Numbers'
    BY <1>1, <1>3, RowsWritten
  <2>6. TypeOK'
    <3>1. pass' \in [Workers -> PassType]
      BY <1>1, <1>3, <2>2 DEF new
    <3> QED
      BY <1>1, <2>5, <3>1 DEF OverlapInv, TypeOK
  <2>7. PassShape(w)'
    <3>1. 0 \in 0..Len(slices')
      BY <2>5
    <3>2. pass[w].seq + 1 \in Nat \ {0} /\ (pass[w].seq + 1) - 1 = pass[w].seq
      BY <1>1
    <3> QED
      BY <2>1, <2>3, <2>4, <2>5, <3>1, <3>2 DEF PassShape
  <2>8. Workers \ {w} \in SUBSET Workers
    OBVIOUS
  <2> QED
    BY <2>4, <2>5, <2>6, <2>7, <2>8, ShapeKept
<1>4. CASE /\ slices' = slices
           /\ pass' = [pass EXCEPT ![w].pc = "release"]
  <2> DEFINE new == [pass[w] EXCEPT !.pc = "release"]
  <2>1. pass' = [pass EXCEPT ![w] = new]
    BY <1>4
  <2>2. new \in PassType /\ new.pc = "release" /\ new.row = pass[w].row
    BY <1>1 DEF PassType
  <2> HIDE DEF new
  <2>3. TypeOK'
    BY <1>1, <1>4, <2>1, <2>2 DEF OverlapInv, TypeOK, Rows
  <2>4. PassShape(w)'
    BY <1>1, <1>4, <2>1, <2>2 DEF PassShape
  <2> QED
    BY <1>1, <1>4, <2>1, <2>3, <2>4, ShapeStep
<1> QED
  BY <1>2, <1>3, <1>4

LEMMA OverlapNext ==
  ASSUME OverlapInv, [Next]_vars
  PROVE  OverlapInv'
<1>1. TypeOK /\ pass \in [Workers -> PassType]
  BY DEF OverlapInv, TypeOK
<1>2. CASE LinkFacts \/ EnqueuePass \/ Requeue \/ UNCHANGED vars
  <2>1. TypeOK'
    <3>1. CASE UNCHANGED vars
      BY <1>1, <3>1 DEF vars, TypeOK, Rows
    <3> QED
      BY <1>1, <1>2, <3>1, QueueType
  <2>2. UNCHANGED <<slices, pass>>
    BY <1>2 DEF LinkFacts, EnqueuePass, Requeue, vars
  <2>3. Workers \in SUBSET Workers
    OBVIOUS
  <2> QED
    BY <2>1, <2>2, <2>3, SlicesStill, ShapeKept
<1>3. CASE Tick
  <2>1. TypeOK' /\ UNCHANGED slices
    BY <1>1, <1>3, TickType DEF Tick
  <2>2. \A v \in Workers : PassShape(v)'
    <3> SUFFICES ASSUME NEW v \in Workers
                 PROVE  PassShape(v)'
      OBVIOUS
    <3>1. /\ pass'[v].pc = pass[v].pc /\ pass'[v].row = pass[v].row
          /\ pass'[v].seq = pass[v].seq /\ pass'[v].todo = pass[v].todo
      BY <1>1, <1>3 DEF Tick, PassType
    <3>2. PassShape(v) /\ Numbers' = Numbers
      BY <2>1, SlicesStill DEF OverlapInv
    <3> QED
      BY <2>1, <3>1, <3>2 DEF PassShape
  <2> QED
    BY <2>1, <2>2, SlicesStill DEF OverlapInv
<1>4. ASSUME NEW w \in Workers, Summarize(w)
      PROVE  OverlapInv'
  <2>1. CASE \/ Claim(w) \/ Skip(w) \/ List(w) \/ Fails(w) \/ Chain(w)
             \/ Release(w) \/ Crash(w)
    <3>1. TypeOK' /\ UNCHANGED slices
      BY <1>1, <2>1, PassTypeStep DEF Claim, Skip, List, Fails, Chain, Release,
                                      Crash
    <3>2. \A v \in Workers \ {w} : pass'[v] = pass[v]
      BY <1>1, <2>1 DEF Claim, Skip, List, Fails, Chain, Release, Crash
    <3>3. PassShape(w) /\ Numbers' = Numbers /\ Len(slices) \in Nat
      BY <1>1, <3>1, SlicesStill, Basics DEF OverlapInv
    <3>4. PassShape(w)'
      <4>1. CASE Skip(w)
        BY <3>1, <3>3, <4>1 DEF Skip, PassShape
      <4>2. CASE List(w)
        <5>1. /\ pass'[w].row = pass[w].row /\ pass'[w].todo = Uncovered
              /\ pass'[w].pc = IF Uncovered = {} THEN "release" ELSE "listed"
          BY <1>1, <4>2 DEF List, PassType
        <5> QED
          BY <3>1, <3>3, <5>1 DEF PassShape
      <4>3. CASE Release(w) \/ Crash(w)
        <5>1. pass'[w] = IdlePass
          BY <1>1, <4>3 DEF Release, Crash
        <5> QED
          BY <3>1, <3>3, <5>1 DEF PassShape, IdlePass
      <4>4. CASE Claim(w) \/ Fails(w) \/ Chain(w)
        <5>1. /\ pass'[w].row = pass[w].row
              /\ pass'[w].pc \in {"claimed", "release"}
          BY <1>1, <4>4 DEF Claim, Fails, Chain, PassType
        <5> QED
          BY <3>1, <3>3, <5>1 DEF PassShape
      <4> QED
        BY <2>1, <4>1, <4>2, <4>3, <4>4
    <3> QED
      BY <3>1, <3>2, <3>4, ShapeStep
  <2>2. CASE Plan(w)
    BY <2>2, PlanShape
  <2>3. CASE Write(w)
    BY <2>3, WriteShape
  <2> QED
    BY <1>4, <2>1, <2>2, <2>3 DEF Summarize
<1> QED
  BY <1>2, <1>3, <1>4 DEF Next

LEMMA OverlapInit ==
  ASSUME Init
  PROVE  OverlapInv
<1>1. TypeOK
  BY InitInv DEF SummaryInv
<1>2. NoGap
  <2>1. Numbers = 0..0
    BY DEF Init, Numbers, Rows
  <2> QED
    BY <2>1 DEF NoGap
<1>3. \A w \in Workers : PassShape(w)
  BY DEF Init, IdlePass, PassShape
<1> QED
  BY <1>1, <1>2, <1>3 DEF OverlapInv

THEOREM OverlapInvariant == Spec => []OverlapInv
<1>1. Init => OverlapInv
  BY OverlapInit
<1>2. OverlapInv /\ [Next]_vars => OverlapInv'
  BY OverlapNext
<1> QED
  BY <1>1, <1>2, PTL DEF Spec

(* The variables keep their types even when a pass outlasts its claim and  *)
(* others write beside it: the row that a pass updates is there, every     *)
(* slice covers some fact, and a synthesis is asked for rows that exist.   *)
THEOREM TypeCorrect == Spec => []TypeOK
<1>1. OverlapInv => TypeOK
  BY DEF OverlapInv
<1> QED
  BY <1>1, OverlapInvariant, PTL

(* Passes that overlap may give two slices one number (SlicesDisjoint      *)
(* excepts them), but none of them ever skips a number.                    *)
THEOREM NumbersWithoutGap == Spec => []NoGap
<1>1. OverlapInv => NoGap
  BY DEF OverlapInv
<1> QED
  BY <1>1, OverlapInvariant, PTL

-----------------------------------------------------------------------------
(* What passes that overlap leave behind them                              *)

(* One pass is under way at most, the claim is set, and the row that the   *)
(* pass is going to update is open.                                        *)
Single ==
    /\ OnePass
    /\ \A w \in Workers :
          /\ Active(w) => claimed
          /\ pass[w].pc = "call" => pass[w].row = 0 \/ pass[w].row \in OpenRows

SingleInv == overtaken # "now" => Single

(* A step that neither begins nor ends a pass, nor writes.                 *)
LEMMA SingleFrame ==
  ASSUME Single, UNCHANGED <<slices, claimed>>,
         \A v \in Workers :
            /\ pass[v].pc = "idle" => pass'[v].pc = "idle"
            /\ pass'[v].pc = "call" => /\ pass[v].pc = "call"
                                       /\ pass'[v].row = pass[v].row
  PROVE  Single'
BY DEF Single, OnePass, Active, OpenRows, CompleteRows, Rows

(* A step of the only pass.                                                *)
LEMMA SingleStep ==
  ASSUME NEW w \in Workers,
         \A v \in Workers : v # w => pass[v].pc = "idle" /\ pass'[v] = pass[v],
         pass'[w].pc = "idle" \/ claimed',
         pass'[w].pc = "call" => pass'[w].row = 0 \/ pass'[w].row \in OpenRows'
  PROVE  Single'
BY DEF Single, OnePass, Active

LEMMA SinglePlan ==
  ASSUME OverlapInv, Single, NEW w \in Workers, Plan(w)
  PROVE  Single'
<1> DEFINE open == IF OpenRow = {} THEN 0 ELSE CHOOSE r \in OpenRow : TRUE
           seq == IF open = 0 THEN NextSeq ELSE slices[open].seq
           kept == IF open = 0 THEN {} ELSE slices[open].covered
<1>1. pass \in [Workers -> PassType] /\ Active(w) /\ UNCHANGED <<slices, claimed>>
  BY DEF OverlapInv, TypeOK, Plan, Active
<1>2. \/ pass' = [pass EXCEPT ![w].pc = "release"]
      \/ pass' = [pass EXCEPT
           ![w].pc = "call", ![w].since = 0, ![w].batch = Batch[linked],
           ![w].row = open, ![w].seq = seq, ![w].kept = kept,
           ![w].todo = @ \cup kept]
  BY Zenon DEF Plan
<1>3. open = 0 \/ open \in OpenRows
  <2>1. OpenRow # {} => open \in OpenRow
    OBVIOUS
  <2> QED
    BY <2>1 DEF OpenRow
<1> HIDE DEF open, seq, kept
<1>4. /\ \A v \in Workers : v # w => pass'[v] = pass[v]
      /\ pass'[w].pc = "call" => pass'[w].row = open
  BY <1>1, <1>2 DEF PassType
<1>5. OpenRows' = OpenRows
  BY <1>1 DEF OpenRows, CompleteRows, Rows
<1> QED
  BY <1>1, <1>3, <1>4, <1>5, SingleStep DEF Single, OnePass, Active

LEMMA SingleWrite ==
  ASSUME OverlapInv, Single, NEW w \in Workers, Write(w)
  PROVE  Single'
<1>1. pass \in [Workers -> PassType] /\ Active(w) /\ UNCHANGED claimed
  BY DEF OverlapInv, TypeOK, Write, Active
<1>2. PICK slice \in NextSlices(w) :
         \/ pass' = [pass EXCEPT ![w] = Advanced(w, slice, FullBatch(w))]
         \/ pass' = [pass EXCEPT ![w].pc = "release"]
  BY DEF Write
<1>3. Advanced(w, slice, FullBatch(w)).row = 0
  BY <1>1 DEF Advanced, PassType
<1>4. /\ \A v \in Workers : v # w => pass'[v] = pass[v]
      /\ pass'[w].pc = "call" => pass'[w].row = 0
  BY <1>1, <1>2, <1>3 DEF PassType
<1> QED
  BY <1>1, <1>4, SingleStep DEF Single, OnePass, Active

(* The last of the passes that overlap ends: none is under way.            *)
LEMMA SingleAgain ==
  ASSUME OverlapInv, [Next]_vars, overtaken = "now", overtaken' # "now"
  PROVE  Single'
<1>1. PICK w \in Workers : Release(w) \/ Crash(w)
  <2>1. ~(LinkFacts \/ EnqueuePass \/ Requeue \/ Tick \/ UNCHANGED vars)
    BY DEF LinkFacts, EnqueuePass, Requeue, Tick, vars
  <2>2. ASSUME NEW w \in Workers
        PROVE  ~(Claim(w) \/ Skip(w) \/ List(w) \/ Plan(w))
    BY DEF Claim, Skip, List, Plan
  <2>3. ASSUME NEW w \in Workers
        PROVE  ~(Write(w) \/ Fails(w) \/ Chain(w))
    BY DEF Write, Fails, Chain
  <2> QED
    BY <2>1, <2>2, <2>3 DEF Next, Summarize
<1>2. pass \in [Workers -> PassType]
  BY DEF OverlapInv, TypeOK
<1>3. /\ pass' = [pass EXCEPT ![w] = IdlePass]
      /\ \A v \in Workers \ {w} : pass[v].pc = "idle"
  BY <1>1 DEF Release, Crash, Outlives, Resting
<1>4. \A v \in Workers : pass'[v].pc = "idle"
  BY <1>2, <1>3 DEF IdlePass
<1> QED
  BY <1>4 DEF Single, OnePass, Active

LEMMA SingleNext ==
  ASSUME OverlapInv, Single, [Next]_vars, overtaken' # "now"
  PROVE  Single'
<1>1. pass \in [Workers -> PassType]
  BY DEF OverlapInv, TypeOK
<1>2. CASE LinkFacts \/ EnqueuePass \/ Requeue \/ UNCHANGED vars
  <2>1. UNCHANGED <<slices, claimed, pass>>
    BY <1>2 DEF LinkFacts, EnqueuePass, Requeue, vars
  <2> QED
    BY <2>1, SingleFrame
<1>3. CASE Tick
  <2>1. \A v \in Workers : pass'[v].pc = pass[v].pc /\ pass'[v].row = pass[v].row
    BY <1>1, <1>3 DEF Tick, PassType
  <2>2. UNCHANGED <<slices, claimed>>
    BY <1>3 DEF Tick
  <2> QED
    BY <2>1, <2>2, SingleFrame
<1>4. ASSUME NEW w \in Workers, Summarize(w)
      PROVE  Single'
  <2>1. CASE Claim(w)
    <3>1. \A v \in Workers : pass[v].pc = "idle"
      BY <2>1, AllRest DEF Single
    <3>2. /\ \A v \in Workers : v # w => pass'[v] = pass[v]
          /\ pass'[w].pc = "claimed" /\ claimed'
      BY <1>1, <2>1 DEF Claim, PassType
    <3> QED
      BY <3>1, <3>2, SingleStep
  <2>2. CASE Plan(w)
    BY <2>2, SinglePlan
  <2>3. CASE Write(w)
    BY <2>3, SingleWrite
  <2>4. CASE Release(w) \/ Crash(w)
    <3>1. /\ \A v \in Workers : v # w => pass[v].pc = "idle" /\ pass'[v] = pass[v]
          /\ pass'[w].pc = "idle"
      BY <1>1, <2>4 DEF Release, Crash, Single, OnePass, Active, IdlePass
    <3> QED
      BY <3>1, SingleStep
  <2>5. CASE Skip(w) \/ List(w) \/ Fails(w) \/ Chain(w)
    <3>1. /\ UNCHANGED <<slices, claimed>>
          /\ \A v \in Workers : v # w => pass'[v] = pass[v]
      BY <1>1, <2>5 DEF Skip, List, Fails, Chain
    <3>2. \/ pass'[w] = pass[w]
          \/ pass[w].pc # "idle" /\ pass'[w].pc # "call"
      BY <1>1, <2>5 DEF Skip, List, Fails, Chain, PassType
    <3> QED
      BY <3>1, <3>2, SingleFrame
  <2> QED
    BY <1>4, <2>1, <2>2, <2>3, <2>4, <2>5 DEF Summarize
<1> QED
  BY <1>2, <1>3, <1>4 DEF Next

(* A write of the only pass leaves the complete rows.                      *)
LEMMA FrozenStep ==
  ASSUME OverlapInv, Single, [Next]_vars, NEW r \in CompleteRows
  PROVE  slices'[r] = slices[r]
<1>1. slices \in Seq(SliceType) /\ r \in 1..Len(slices) /\ r \notin OpenRows
  BY DEF OverlapInv, TypeOK, CompleteRows, OpenRows, Rows
<1>2. ASSUME NEW w \in Workers, Write(w)
      PROVE  slices'[r] = slices[r]
  <2>1. PICK slice \in NextSlices(w) : slices' \in {slices, Upserted(w, slice)}
    BY <1>2 DEF Write
  <2>2. pass[w].row = 0 \/ pass[w].row \in OpenRows
    BY <1>2 DEF Write, Single
  <2>3. Upserted(w, slice)[r] = slices[r]
    <3>1. CASE pass[w].row = 0
      <4> DEFINE new == [seq |-> pass[w].seq, complete |-> FullBatch(w),
                         covered |-> slice]
      <4>1. Upserted(w, slice) = Append(slices, new)
        BY <3>1 DEF Upserted
      <4> HIDE DEF new
      <4> QED
        BY <1>1, <4>1
    <3>2. CASE pass[w].row # 0
      <4>1. pass[w].row # r
        BY <1>1, <2>2, <3>2
      <4> QED
        BY <1>1, <3>2, <4>1 DEF Upserted
    <3> QED
      BY <3>1, <3>2
  <2> QED
    BY <2>1, <2>3
<1>3. ASSUME NEW w \in Workers, Summarize(w), ~Write(w)
      PROVE  UNCHANGED slices
  BY <1>3 DEF Summarize, Claim, Skip, List, Plan, Fails, Chain, Release, Crash
<1> QED
  BY <1>2, <1>3 DEF Next, LinkFacts, EnqueuePass, Requeue, Tick, vars

(* A slice that is complete stays as it is, but for what several passes    *)
(* under way do: when they have ended, the one that comes next updates no  *)
(* row but an open one, however the table was left and whatever the calls  *)
(* take, for the row that it has read cannot change under its claim.       *)
THEOREM FrozenTheorem == Spec => FrozenForever
<1>1. Init => SingleInv
  BY DEF Init, SingleInv, Single, OnePass, Active, IdlePass
<1>2. OverlapInv /\ SingleInv /\ [Next]_vars => SingleInv'
  BY SingleAgain, SingleNext DEF SingleInv
<1>3. OverlapInv /\ SingleInv /\ [Next]_vars
        => [overtaken = "now" \/ \A r \in CompleteRows : slices'[r] = slices[r]]_vars
  BY FrozenStep DEF SingleInv
<1> QED
  BY <1>1, <1>2, <1>3, OverlapInvariant, PTL DEF Spec, FrozenForever
=============================================================================
