------------------------ MODULE SourceLifecycleProofs ------------------------
(* Theorems about SourceLifecycle, for any number of jobs, requests,       *)
(* editions, chunks, rows and faults.                                      *)
EXTENDS SourceLifecycle, TLAPS

Ops == {"idle", "retrieve", "decompose", "upload", "retry"}
Early == {"fetch", "page", "import", "error", "create"}
Core == {"mark", "fetched", "parse", "offsets"}
Ending == {"imported", "unfetched", "failed", "unparse"}
PcsOf == [idle      |-> {"idle"},
          retrieve  |-> Early \cup Core \cup Ending \cup {"check"},
          decompose |-> {"read", "waive", "extract", "record", "clear"},
          upload    |-> {"parse", "offsets", "check"},
          retry     |-> {"reset", "enqueue"}]
Pcs == UNION {PcsOf[op] : op \in Ops}

RowType == [id : Nat, status : Statuses, text : Texts, offsets : Texts,
            failures : SUBSET AllChunks]
ActType == [op : Ops, pc : Pcs, id : Nat, process : BOOLEAN, page : Texts,
            todo : SUBSET AllChunks, text : Texts, bad : SUBSET AllChunks]

(* Where a job or a request can be.                                        *)
Sane(x) ==
  /\ x.pc \in PcsOf[x.op] /\ x.bad \subseteq x.todo
  /\ x.op = "upload" => url = "upload"
  /\ x.op \in {"retrieve", "retry"} => url = "web"
  /\ x.op = "upload" /\ x.pc # "check" => x.page = 1

Types ==
  /\ TypeOK
  /\ row \in RowType /\ act \in [Actors -> ActType]
  /\ made \in Nat /\ url \in {"web", "upload"}
  /\ failed \in BOOLEAN /\ overlapped \in BOOLEAN /\ crossed \in BOOLEAN
  /\ \A a \in Actors : Sane(act[a])
  /\ row.id = 0 => row = NoRow
  /\ url = "upload" => row.text \in {0, 1}

(* The facts of the text are extracted, but for those of the chunks S.     *)
CoveredBut(S) ==
  row.text # 0 =>
    {row.text} \X (ChunksOf[row.text] \ S) \subseteq extracted \cup lost

Reading(a) == /\ act[a].op = "decompose"
              /\ act[a].pc \in {"extract", "record", "clear"}
(* A decomposition under way has read the text that is there, what it is   *)
(* not to do has been done, and what it has not recorded as failed too.    *)
InHand(a) ==
    /\ Reading(a) => row.text = IF Found(a) THEN act[a].text ELSE 0
    /\ act[a].op = "decompose" /\ Found(a) => CoveredBut(act[a].todo)
    /\ At(a, "decompose", "record") /\ Found(a) => CoveredBut(act[a].bad)
(* So have the chunks that are not recorded as failed.                     *)
Recorded ==
  /\ row.failures # {} => CoveredBut(row.failures)
  /\ row.status = "processed" /\ ~waived => CoveredBut({})
Coverage == ~crossed => Recorded /\ \A a \in Actors : InHand(a)

(* A job that will give a source that is being fetched its outcome.        *)
Fetching(a) ==
  /\ act[a].op = "retrieve"
  /\ \/ act[a].pc \in Early
     \/ Found(a) /\ act[a].pc \in {"imported", "unfetched", "mark", "fetched",
                                   "failed"}
Outcome == ~failed /\ row.status = "fetching" => \E a \in Actors : Fetching(a)

(* The steps from the one mark of a fetch to its offsets.                  *)
InCore(a) == act[a].op = "retrieve" /\ act[a].pc \in Core
(* A job that will write the text, or the offsets, again.                  *)
Rewrites(a) ==
  \/ /\ act[a].op = "retrieve"
     /\ act[a].pc \in Early \/ (Found(a) /\ act[a].pc \in Core \cup Ending)
  \/ Found(a) /\ act[a].pc = "offsets"
Sentences ==
  ~overlapped =>
    /\ \A a, b \in Actors : InCore(a) /\ InCore(b) => a = b
    /\ \A a \in Actors : act[a].pc = "offsets" /\ Found(a) /\ row.text # 0
                            => act[a].page = row.text
    /\ ~failed /\ HasSentences(row.text)
         => row.offsets = row.text \/ \E a \in Actors : Rewrites(a)

SourceInv == Types /\ Coverage /\ Outcome /\ Sentences

-----------------------------------------------------------------------------
(* One actor moves, and the others stay where they are.                    *)
Others(a) == /\ act' \in [Actors -> ActType]
             /\ \A o \in Actors \ {a} : act'[o] = act[o]

LEMMA IdleType == Idle \in ActType /\ Idle.pc = "idle" /\ Idle.op = "idle"
                    /\ Idle.id = 0 /\ Sane(Idle)
BY DEF Idle, ActType, Ops, Pcs, PcsOf, Texts, Sane

LEMMA GoesTo ==
  ASSUME Types, NEW a \in Actors, NEW pc \in Pcs, Goes(a, pc)
  PROVE  /\ Others(a)
         /\ act'[a].op = act[a].op /\ act'[a].pc = pc
         /\ act'[a].id = act[a].id /\ act'[a].process = act[a].process
         /\ act'[a].page = act[a].page /\ act'[a].todo = act[a].todo
         /\ act'[a].text = act[a].text /\ act'[a].bad = act[a].bad
BY DEF Types, Goes, Others, ActType

LEMMA EndsIn ==
  ASSUME Types, NEW a \in Actors, Ends(a)
  PROVE  Others(a) /\ act'[a] = Idle
BY IdleType DEF Types, Ends, Becomes, Others

LEMMA RetrievalType ==
  ASSUME NEW p \in BOOLEAN
  PROVE  /\ Retrieval(p) \in ActType
         /\ Retrieval(p).op = "retrieve" /\ Retrieval(p).pc = "fetch"
         /\ Retrieval(p).id = 0 /\ Retrieval(p).bad = {}
         /\ Retrieval(p).todo = {}
<1> DEFINE x == [Idle EXCEPT !.op = "retrieve"]
           y == [x EXCEPT !.pc = "fetch"]
           z == [y EXCEPT !.process = p]
<1>1. x \in ActType /\ x.op = "retrieve" /\ x.id = 0 /\ x.bad = {} /\ x.todo = {}
  BY DEF Idle, ActType, Ops, Pcs, PcsOf, Texts
<1>2. "fetch" \in Pcs
  BY DEF Pcs, PcsOf, Ops, Early
<1>3. /\ y \in ActType /\ y.op = "retrieve" /\ y.pc = "fetch" /\ y.id = 0
      /\ y.bad = {} /\ y.todo = {}
  BY <1>1, <1>2 DEF ActType
<1>4. /\ z \in ActType /\ z.op = "retrieve" /\ z.pc = "fetch" /\ z.id = 0
      /\ z.bad = {} /\ z.todo = {}
  BY <1>3 DEF ActType
<1>5. Retrieval(p) = z
  BY DEF Retrieval
<1> QED
  BY <1>4, <1>5

LEMMA DecompositionType ==
  ASSUME NEW i \in Nat, NEW S \in SUBSET AllChunks
  PROVE  /\ Decomposition(i, S) \in ActType
         /\ Decomposition(i, S).op = "decompose"
         /\ Decomposition(i, S).pc = "read"
         /\ Decomposition(i, S).id = i /\ Decomposition(i, S).todo = S
         /\ Decomposition(i, S).bad = {}
<1> DEFINE x == [Idle EXCEPT !.op = "decompose"]
           y == [x EXCEPT !.pc = "read"]
           z == [y EXCEPT !.id = i]
           w == [z EXCEPT !.todo = S]
<1>1. x \in ActType /\ x.op = "decompose" /\ x.bad = {}
  BY DEF Idle, ActType, Ops, Pcs, PcsOf, Texts
<1>2. "read" \in Pcs
  BY DEF Pcs, PcsOf, Ops
<1>3. y \in ActType /\ y.op = "decompose" /\ y.pc = "read" /\ y.bad = {}
  BY <1>1, <1>2 DEF ActType
<1>4. /\ z \in ActType /\ z.op = "decompose" /\ z.pc = "read" /\ z.bad = {}
      /\ z.id = i
  BY <1>3 DEF ActType
<1>5. /\ w \in ActType /\ w.op = "decompose" /\ w.pc = "read" /\ w.bad = {}
      /\ w.id = i /\ w.todo = S
  BY <1>4 DEF ActType
<1>6. Decomposition(i, S) = w
  BY DEF Decomposition
<1> QED
  BY <1>5, <1>6

(* What every step shows of the types.                                     *)
LEMMA TypeStep ==
  ASSUME Types, NEW a \in Actors, Others(a), Sane(act[a])',
         UNCHANGED url, row' \in RowType, made' \in {made, made + 1},
         made' <= MaxRows, row'.id \in 0..made', act'[a].id \in 0..made',
         (row'.id = 0) = (row'.status = "none"), row'.id = 0 => row' = NoRow,
         url = "upload" => row'.text \in {0, 1},
         extracted' \cup lost' \subseteq Editions \X AllChunks,
         failed' \in BOOLEAN, overlapped' \in BOOLEAN, crossed' \in BOOLEAN,
         faults' \in 0..MaxFaults, asked' \in 0..MaxRequests
  PROVE  Types'
<1>1. \A o \in Actors : Sane(act[o])' /\ act'[o] \in ActType
  BY DEF Types, Others, Sane
<1>2. \A o \in Actors : act'[o].id \in 0..made'
  BY BoundsAssumption DEF Types, TypeOK, Others
<1>3. TypeOK'
  <2>1. \A o \in Actors : /\ act'[o].bad \subseteq act'[o].todo
                          /\ act'[o].todo \subseteq AllChunks
                          /\ act'[o].page \in Texts
    BY <1>1 DEF Sane, ActType
  <2>2. made' \in 0..MaxRows
    BY BoundsAssumption DEF Types, TypeOK
  <2>3. /\ row'.status \in Statuses /\ row'.text \in Texts
        /\ row'.offsets \in Texts /\ row'.failures \subseteq AllChunks
    BY DEF RowType
  <2> QED
    BY <1>2, <2>1, <2>2, <2>3 DEF TypeOK
<1> QED
  BY <1>1, <1>3 DEF Types, Others

LEMMA FaultType ==
  ASSUME Types, Fine \/ Fault
  PROVE  /\ faults' \in 0..MaxFaults /\ failed' \in BOOLEAN
         /\ (failed => failed')
<1>1. CASE Fine
  BY <1>1 DEF Types, TypeOK, Fine
<1>2. CASE Fault
  <2>1. faults \in 0..MaxFaults /\ MaxFaults \in Nat
    BY BoundsAssumption DEF Types, TypeOK
  <2>2. faults < MaxFaults /\ faults' = faults + 1 /\ failed' = TRUE
    BY <1>2 DEF Fault
  <2> QED
    BY <2>1, <2>2
<1> QED
  BY <1>1, <1>2

-----------------------------------------------------------------------------
(* Steps that leave the row alone                                          *)

LEMMA RowAlone ==
  ASSUME SourceInv, NEW a \in Actors, Others(a), Sane(act[a])',
         UNCHANGED <<url, row, made, extracted, lost, waived, crossed>>,
         UNCHANGED overlapped \/ overlapped' = TRUE,
         act'[a].id \in 0..made,
         Fine \/ Fault \/ UNCHANGED failed, faults' \in 0..MaxFaults,
         asked' \in 0..MaxRequests,
         ~crossed => InHand(a)', act'[a].pc # "offsets",
         Fetching(a) => Fetching(a)' \/ failed',
         Rewrites(a) => Rewrites(a)' \/ failed',
         InCore(a)' /\ ~overlapped'
           => InCore(a) \/ \A o \in Actors \ {a} : ~InCore(o)
  PROVE  SourceInv'
<1>1. failed' \in BOOLEAN /\ (failed => failed')
  BY FaultType DEF SourceInv, Types
<1>2. Types'
  <2>1. Types /\ row \in RowType /\ made \in Nat
    BY DEF SourceInv, Types
  <2>2. /\ made <= MaxRows /\ row.id \in 0..made
        /\ (row.id = 0) = (row.status = "none")
        /\ row.id = 0 => row = NoRow
        /\ url = "upload" => row.text \in {0, 1}
        /\ extracted \cup lost \subseteq Editions \X AllChunks
        /\ overlapped \in BOOLEAN /\ crossed \in BOOLEAN
    BY <2>1 DEF Types, TypeOK
  <2>3. overlapped' \in BOOLEAN
    BY <2>2
  <2> QED
    BY <1>1, <2>1, <2>2, <2>3, TypeStep
<1>3. Coverage'
  <2>1. \A o \in Actors \ {a} : InHand(o) => InHand(o)'
    BY DEF Others, InHand, Reading, Found, At, CoveredBut
  <2>2. Recorded => Recorded'
    BY DEF Recorded, CoveredBut
  <2> QED
    BY <2>1, <2>2 DEF SourceInv, Coverage
<1>4. Outcome'
  <2>1. \A o \in Actors \ {a} : Fetching(o) => Fetching(o)'
    BY DEF Others, Fetching, Found
  <2> QED
    BY <1>1, <2>1 DEF SourceInv, Outcome
<1>5. Sentences'
  <2>1. \A o \in Actors \ {a} : /\ Rewrites(o) => Rewrites(o)'
                                /\ InCore(o)' <=> InCore(o)
    BY DEF Others, Rewrites, InCore, Found
  <2>2. \A o \in Actors : act'[o].pc = "offsets" /\ Found(o)'
                            => act[o].pc = "offsets" /\ Found(o)
                                 /\ act'[o].page = act[o].page
    BY DEF Others, Found
  <2> SUFFICES ASSUME ~overlapped' PROVE Sentences'
    BY DEF Sentences
  <2>3. /\ \A o, p \in Actors : InCore(o) /\ InCore(p) => o = p
        /\ \A o \in Actors : act[o].pc = "offsets" /\ Found(o) /\ row.text # 0
                                => act[o].page = row.text
        /\ ~failed /\ HasSentences(row.text)
             => row.offsets = row.text \/ \E o \in Actors : Rewrites(o)
    BY DEF SourceInv, Sentences
  <2>4. \A o, p \in Actors : InCore(o)' /\ InCore(p)' => o = p
    <3>1. CASE InCore(a)' /\ ~InCore(a)
      BY <2>1, <3>1 DEF InCore, Core
    <3>2. CASE InCore(a)' => InCore(a)
      <4>1. \A o \in Actors : InCore(o)' => InCore(o)
        BY <2>1, <3>2 DEF InCore, Core
      <4> QED
        BY <2>3, <4>1
    <3> QED
      BY <3>1, <3>2
  <2>5. \A o \in Actors : act'[o].pc = "offsets" /\ Found(o)' /\ row'.text # 0
                              => act'[o].page = row'.text
    BY <2>2, <2>3
  <2>6. ~failed' /\ HasSentences(row'.text)
           => row'.offsets = row'.text \/ \E o \in Actors : Rewrites(o)'
    <3> SUFFICES ASSUME ~failed', HasSentences(row'.text), row'.offsets # row'.text
                 PROVE  \E o \in Actors : Rewrites(o)'
      OBVIOUS
    <3>1. PICK o \in Actors : Rewrites(o)
      BY <1>1, <2>3
    <3>2. Rewrites(o)'
      BY <2>1, <3>1 DEF Rewrites, Found, Early, Core, Ending
    <3> QED
      BY <3>2
  <2> QED
    BY <2>4, <2>5, <2>6 DEF Sentences
<1> QED
  BY <1>2, <1>3, <1>4, <1>5 DEF SourceInv

(* A job that starts, or starts again, at its beginning, or ends.          *)
LEMMA Fresh ==
  ASSUME SourceInv, NEW a \in Actors, Others(a), UNCHANGED url,
         \/ act'[a] = Idle
         \/ url = "web" /\ \E p \in BOOLEAN : act'[a] = Retrieval(p)
         \/ \E i \in 0..made, S \in SUBSET AllChunks :
                act'[a] = Decomposition(i, S)
  PROVE  /\ Sane(act[a])' /\ act'[a].id \in 0..made /\ act'[a].pc # "offsets"
         /\ ~InCore(a)' /\ ~Reading(a)' /\ ~At(a, "decompose", "record")'
<1>1. made \in Nat
  BY DEF SourceInv, Types
<1>2. CASE act'[a] = Idle
  BY <1>1, <1>2, IdleType DEF Sane, InCore, Reading, At
<1>3. ASSUME url = "web", NEW p \in BOOLEAN, act'[a] = Retrieval(p)
      PROVE  /\ Sane(act[a])' /\ act'[a].id \in 0..made /\ act'[a].pc # "offsets"
             /\ ~InCore(a)' /\ ~Reading(a)' /\ ~At(a, "decompose", "record")'
  BY <1>1, <1>3, RetrievalType DEF Sane, InCore, Reading, At, PcsOf, Early, Core
<1>4. ASSUME NEW i \in 0..made, NEW S \in SUBSET AllChunks,
             act'[a] = Decomposition(i, S)
      PROVE  /\ Sane(act[a])' /\ act'[a].id \in 0..made /\ act'[a].pc # "offsets"
             /\ ~InCore(a)' /\ ~Reading(a)' /\ ~At(a, "decompose", "record")'
  <2>1. i \in Nat
    BY <1>1
  <2> QED
    BY <1>4, <2>1, DecompositionType DEF Sane, InCore, Reading, At, PcsOf
<1> QED
  BY <1>2, <1>3, <1>4

LEMMA CoveredAll ==
  ASSUME Types
  PROVE  CoveredBut(AllChunks)
<1>1. ASSUME row.text # 0 PROVE ChunksOf[row.text] \subseteq AllChunks
  <2>1. row.text \in Editions
    BY <1>1 DEF Types, RowType, Texts
  <2> QED
    BY <2>1 DEF AllChunks
<1> QED
  BY <1>1 DEF CoveredBut

LEMMA StartsOver ==
  ASSUME SourceInv, NEW a \in Actors, Others(a),
         UNCHANGED <<url, row, made, extracted, lost, waived, crossed>>,
         UNCHANGED overlapped \/ overlapped' = TRUE,
         Fine \/ Fault \/ UNCHANGED failed, faults' \in 0..MaxFaults,
         asked' \in 0..MaxRequests,
         \/ act'[a] = Idle
         \/ url = "web" /\ \E p \in BOOLEAN : act'[a] = Retrieval(p)
         \/ \E i \in 0..made, S \in SUBSET AllChunks :
               /\ act'[a] = Decomposition(i, S)
               /\ ~crossed /\ row.id # 0 /\ i = row.id => CoveredBut(S),
         Fetching(a) => act'[a].op = "retrieve" \/ failed',
         Rewrites(a) => act'[a].op = "retrieve" \/ failed'
  PROVE  SourceInv'
<1>1. /\ Sane(act[a])' /\ act'[a].id \in 0..made /\ act'[a].pc # "offsets"
      /\ ~InCore(a)' /\ ~Reading(a)' /\ ~At(a, "decompose", "record")'
  BY Fresh
<1>2. act'[a].op = "retrieve" => Fetching(a)' /\ Rewrites(a)'
  <2>1. Idle.op # "retrieve"
    BY IdleType
  <2>2. ASSUME act'[a].op = "retrieve" PROVE act'[a].pc = "fetch"
    BY <2>1, <2>2, <1>1, RetrievalType, DecompositionType DEF SourceInv, Types
  <2> QED
    BY <2>2 DEF Fetching, Rewrites, Early
<1>3. ~crossed => InHand(a)'
  <2> SUFFICES ASSUME ~crossed, act'[a].op = "decompose", Found(a)'
               PROVE  CoveredBut(act[a].todo)'
    BY <1>1 DEF InHand
  <2>1. Idle.op # "decompose" /\ \A p \in BOOLEAN : Retrieval(p).op # "decompose"
    BY IdleType, RetrievalType
  <2>2. PICK i \in 0..made, S \in SUBSET AllChunks :
               /\ act'[a] = Decomposition(i, S)
               /\ ~crossed /\ row.id # 0 /\ i = row.id => CoveredBut(S)
    BY <2>1
  <2>3. i \in Nat
    BY DEF SourceInv, Types
  <2>4. act'[a].todo = S /\ act'[a].id = i
    BY <2>2, <2>3, DecompositionType
  <2> QED
    BY <2>2, <2>4 DEF Found, CoveredBut
<1> QED
  BY <1>1, <1>2, <1>3, RowAlone

LEMMA IsIdle ==
  ASSUME NEW a \in Actors, act[a] = Idle
  PROVE  ~Fetching(a) /\ ~Rewrites(a)
BY IdleType DEF Fetching, Rewrites

LEMMA RequestInv ==
  ASSUME SourceInv, NEW a \in Actors, asked' \in 0..MaxRequests,
         \/ \E p \in BOOLEAN : EnqueueRetrieveSource(a, p)
         \/ ProcessSource(a) \/ ReprocessSource(a)
  PROVE  SourceInv'
<1>1. /\ UNCHANGED <<url, row, made, extracted, lost, waived, overlapped, crossed>>
      /\ Fine /\ act[a] = Idle /\ row.id \in 0..made /\ Types
      /\ made \in Nat /\ faults \in 0..MaxFaults
  BY DEF EnqueueRetrieveSource, ProcessSource, ReprocessSource, RowsAlone, Asks,
         SourceInv, Types, TypeOK
<1>2. PICK x : /\ act' = [act EXCEPT ![a] = x]
               /\ \/ url = "web" /\ \E p \in BOOLEAN : x = Retrieval(p)
                  \/ x = Decomposition(row.id, AllChunks)
                  \/ row.failures # {} /\ x = Decomposition(row.id, row.failures)
  BY DEF EnqueueRetrieveSource, ProcessSource, ReprocessSource, Asks, Becomes
<1>3. row.failures \in SUBSET AllChunks /\ row.id \in Nat
  BY <1>1 DEF Types, RowType
<1>4. x \in ActType
  BY <1>2, <1>3, RetrievalType, DecompositionType
<1>5. Others(a) /\ act'[a] = x
  BY <1>1, <1>2, <1>4 DEF Others, Types
<1>6. ~crossed /\ row.failures # {} => CoveredBut(row.failures)
  BY DEF SourceInv, Coverage, Recorded
<1>7. faults' \in 0..MaxFaults
  BY <1>1 DEF Fine
<1> QED
  BY <1>1, <1>2, <1>3, <1>5, <1>6, <1>7, CoveredAll, IsIdle, StartsOver

(* A step whose statement does not find the row, or fails.                 *)
RowStays == /\ UNCHANGED <<url, row, made, extracted, lost, waived, crossed>>
            /\ UNCHANGED overlapped \/ overlapped' = TRUE
Owing(a) == Fetching(a) \/ Rewrites(a)

LEMMA EndsInv ==
  ASSUME SourceInv, NEW a \in Actors, Ends(a), RowStays, Fine \/ Fault,
         Owing(a) => failed', asked' \in 0..MaxRequests
  PROVE  SourceInv'
<1>1. Types /\ faults' \in 0..MaxFaults
  BY FaultType DEF SourceInv
<1>2. Others(a) /\ act'[a] = Idle
  BY <1>1, EndsIn
<1> QED
  BY <1>1, <1>2, StartsOver DEF RowStays, Owing

LEMMA ErrsInv ==
  ASSUME SourceInv, NEW a \in Actors, Errs(a), RowStays, Fine \/ Fault,
         act[a].op \in {"retrieve", "decompose"},
         Owing(a) => failed', asked' \in 0..MaxRequests
  PROVE  SourceInv'
<1>1. Types /\ faults' \in 0..MaxFaults
  BY FaultType DEF SourceInv
<1>2. CASE Ends(a)
  BY <1>2, EndsInv
<1>3. CASE Becomes(a, IF act[a].op = "retrieve"
                        THEN Retrieval(act[a].process)
                        ELSE Decomposition(act[a].id, act[a].todo))
  <2>1. /\ act[a] \in ActType /\ act[a].id \in 0..made /\ Sane(act[a])
        /\ act[a].process \in BOOLEAN /\ act[a].id \in Nat
        /\ act[a].todo \in SUBSET AllChunks
    BY <1>1 DEF Types, TypeOK, ActType
  <2>2. CASE act[a].op = "retrieve"
    <3>1. act' = [act EXCEPT ![a] = Retrieval(act[a].process)]
      BY <1>3, <2>2 DEF Becomes
    <3>2. Others(a) /\ act'[a] = Retrieval(act[a].process) /\ url = "web"
      BY <1>1, <2>1, <2>2, <3>1, RetrievalType DEF Others, Types, Sane
    <3> QED
      BY <1>1, <2>1, <3>2, StartsOver DEF RowStays, Owing
  <2>3. CASE act[a].op # "retrieve"
    <3>1. act' = [act EXCEPT ![a] = Decomposition(act[a].id, act[a].todo)]
      BY <1>3, <2>3 DEF Becomes
    <3>2. Others(a) /\ act'[a] = Decomposition(act[a].id, act[a].todo)
      BY <1>1, <2>1, <3>1, DecompositionType DEF Others, Types
    <3>3. ~crossed /\ row.id # 0 /\ act[a].id = row.id => CoveredBut(act[a].todo)
      BY <2>3 DEF SourceInv, Coverage, InHand, Found
    <3> QED
      BY <1>1, <2>1, <3>2, <3>3, StartsOver DEF RowStays, Owing
  <2> QED
    BY <2>2, <2>3
<1> QED
  BY <1>2, <1>3 DEF Errs

LEMMA GoesInv ==
  ASSUME SourceInv, NEW a \in Actors, NEW pc \in PcsOf[act[a].op],
         Goes(a, pc), RowStays, Fine \/ Fault, act[a].op # "decompose",
         pc \in {"page", "import", "error", "create", "reset", "enqueue", "check"},
         Owing(a) => failed' \/ pc \in Early, asked' \in 0..MaxRequests
  PROVE  SourceInv'
<1>1. Types /\ faults' \in 0..MaxFaults
  BY FaultType DEF SourceInv
<1>2. pc \in Pcs
  BY <1>1 DEF Pcs, Types, ActType
<1>3. /\ Others(a)
      /\ act'[a].op = act[a].op /\ act'[a].pc = pc
      /\ act'[a].id = act[a].id /\ act'[a].page = act[a].page
      /\ act'[a].todo = act[a].todo /\ act'[a].bad = act[a].bad
  BY <1>1, <1>2, GoesTo
<1>4. Sane(act[a])'
  <2>1. Sane(act[a]) /\ act[a].op \in Ops
    BY <1>1 DEF Types, ActType
  <2>2. act[a].op = "upload" => pc = "check"
    BY <2>1 DEF PcsOf
  <2> QED
    BY <1>3, <2>1, <2>2 DEF Sane, RowStays
<1>5. act'[a].id \in 0..made
  BY <1>1, <1>3 DEF Types, TypeOK
<1>6. InHand(a)' /\ ~InCore(a)' /\ act'[a].pc # "offsets"
  BY <1>3 DEF InHand, Reading, At, InCore, Core
<1>7. Owing(a) => (Fetching(a)' /\ Rewrites(a)') \/ failed'
  <2> SUFFICES ASSUME Owing(a), pc \in Early PROVE Fetching(a)' /\ Rewrites(a)'
    OBVIOUS
  <2>1. act[a].op = "retrieve"
    <3>1. act[a].op \in Ops
      BY <1>1 DEF Types, ActType
    <3> QED
      BY <3>1 DEF Ops, PcsOf, Early
  <2> QED
    BY <1>3, <2>1 DEF Fetching, Rewrites, Early
<1> QED
  BY <1>1, <1>3, <1>4, <1>5, <1>6, <1>7, RowAlone DEF RowStays, Owing

LEMMA ChainInv ==
  ASSUME SourceInv, NEW a \in Actors, Chain(a), asked' \in 0..MaxRequests
  PROVE  SourceInv'
<1>1. /\ act[a].pc = "check" /\ RowStays /\ Types
      /\ Sane(act[a]) /\ act[a] \in ActType /\ act[a].id \in 0..made
      /\ act[a].id \in Nat /\ made \in Nat
  BY DEF Chain, RowsAlone, RowStays, SourceInv, Types, TypeOK, ActType
<1>2. ~Owing(a) /\ act[a].op \in {"retrieve", "upload"}
  BY <1>1 DEF Owing, Fetching, Rewrites, Early, Core, Ending, Sane, PcsOf, Ops,
         ActType
<1>3. CASE Ends(a) /\ (Fine \/ Fault)
  BY <1>1, <1>2, <1>3, EndsInv
<1>4. CASE Becomes(a, Decomposition(act[a].id, AllChunks)) /\ Fine
  <2>1. AllChunks \in SUBSET AllChunks /\ CoveredBut(AllChunks)
    BY <1>1, CoveredAll
  <2>2. Decomposition(act[a].id, AllChunks) \in ActType
    BY <1>1, <2>1, DecompositionType
  <2>3. Others(a) /\ act'[a] = Decomposition(act[a].id, AllChunks)
    BY <1>1, <1>4, <2>2 DEF Becomes, Others, Types
  <2>4. faults' \in 0..MaxFaults
    BY <1>1, <1>4, FaultType
  <2> QED
    BY <1>1, <1>2, <1>4, <2>1, <2>3, <2>4, StartsOver DEF RowStays, Owing
<1>5. CASE Chains(a) /\ ~HasText(a) /\ Errs(a) /\ Fine
  <2>1. act[a].op = "retrieve"
    BY <1>2, <1>5 DEF HasText
  <2> QED
    BY <1>1, <1>2, <1>5, <2>1, ErrsInv
<1> QED
  BY <1>3, <1>4, <1>5 DEF Chain

LEMMA FetchInv ==
  ASSUME SourceInv, NEW a \in Actors, Fetch(a), asked' \in 0..MaxRequests
  PROVE  SourceInv'
<1>1. /\ RowStays /\ Types /\ Fine /\ act[a].op = "retrieve"
      /\ Sane(act[a]) /\ act[a] \in ActType /\ act[a].id \in 0..made
  BY DEF Fetch, RowsAlone, RowStays, SourceInv, Types, TypeOK
<1>2. ASSUME NEW pc \in {"import", "error"}, Goes(a, pc)
      PROVE  SourceInv'
  <2>1. pc \in PcsOf[act[a].op]
    BY <1>1 DEF PcsOf, Early
  <2> QED
    BY <1>1, <1>2, <2>1, GoesInv DEF Early
<1>3. ASSUME NEW e \in Texts,
             act' = [act EXCEPT ![a].pc = "create", ![a].page = e]
      PROVE  SourceInv'
  <2>1. "create" \in Pcs
    BY DEF Pcs, PcsOf, Ops, Early
  <2>2. /\ Others(a)
        /\ act'[a].op = act[a].op /\ act'[a].pc = "create"
        /\ act'[a].id = act[a].id
        /\ act'[a].todo = act[a].todo /\ act'[a].bad = act[a].bad
    BY <1>1, <1>3, <2>1 DEF Types, Others, ActType
  <2>3. /\ Sane(act[a])' /\ InHand(a)' /\ ~InCore(a)' /\ Fetching(a)'
        /\ Rewrites(a)' /\ act'[a].id \in 0..made
    BY <1>1, <2>2 DEF Sane, PcsOf, InHand, Reading, At, InCore, Core, Fetching,
           Rewrites, Early, RowStays
  <2>4. faults' \in 0..MaxFaults
    BY <1>1, FaultType
  <2> QED
    BY <1>1, <2>2, <2>3, <2>4, RowAlone DEF RowStays
<1> QED
  BY <1>2, <1>3 DEF Fetch, Goes, Texts

LEMMA RetrySourceInv ==
  ASSUME SourceInv, NEW a \in Actors, RetrySource(a), asked' \in 0..MaxRequests
  PROVE  SourceInv'
<1> DEFINE x == [Idle EXCEPT !.op = "retry", !.pc = "reset", !.id = row.id]
<1>1. /\ RowStays /\ Types /\ Fine /\ url = "web" /\ act[a] = Idle
      /\ row.id \in 0..made /\ row.id \in Nat /\ act' = [act EXCEPT ![a] = x]
  BY DEF RetrySource, Asks, Becomes, RowsAlone, RowStays, SourceInv, Types,
         TypeOK, RowType
<1>2. /\ x \in ActType /\ x.op = "retry" /\ x.pc = "reset" /\ x.id = row.id
      /\ x.bad = {} /\ x.todo = {}
  <2>1. "retry" \in Ops /\ "reset" \in Pcs
    BY DEF Ops, Pcs, PcsOf
  <2> QED
    BY <1>1, <2>1, IdleType DEF Idle, ActType
<1>3. Others(a) /\ act'[a] = x
  BY <1>1, <1>2 DEF Others, Types
<1> HIDE DEF x
<1>4. /\ Sane(act[a])' /\ InHand(a)' /\ ~InCore(a)' /\ act'[a].id \in 0..made
      /\ act'[a].pc # "offsets"
  BY <1>1, <1>2, <1>3 DEF Sane, PcsOf, InHand, Reading, At, InCore, RowStays
<1>5. faults' \in 0..MaxFaults /\ ~Fetching(a) /\ ~Rewrites(a)
  BY <1>1, FaultType, IsIdle
<1> QED
  BY <1>1, <1>3, <1>4, <1>5, RowAlone DEF RowStays

LEMMA EnqueueRetryInv ==
  ASSUME SourceInv, NEW a \in Actors, EnqueueRetry(a), asked' \in 0..MaxRequests
  PROVE  SourceInv'
<1>1. /\ RowStays /\ Types /\ Sane(act[a]) /\ act[a].op = "retry" /\ ~Owing(a)
  BY DEF EnqueueRetry, At, RowsAlone, RowStays, SourceInv, Types, Owing, Fetching,
         Rewrites, Sane, PcsOf
<1>2. CASE Becomes(a, Retrieval(FALSE)) /\ Fine
  <2>1. Others(a) /\ act'[a] = Retrieval(FALSE)
    BY <1>1, <1>2, RetrievalType DEF Becomes, Others, Types
  <2>2. url = "web" /\ faults' \in 0..MaxFaults
    BY <1>1, <1>2, FaultType DEF Sane
  <2> QED
    BY <1>1, <1>2, <2>1, <2>2, StartsOver DEF RowStays, Owing
<1>3. CASE Ends(a) /\ Fault
  BY <1>1, <1>3, EndsInv
<1> QED
  BY <1>2, <1>3 DEF EnqueueRetry

LEMMA ReadInv ==
  ASSUME SourceInv, NEW a \in Actors, Read(a), asked' \in 0..MaxRequests
  PROVE  SourceInv'
<1>1. /\ RowStays /\ Types /\ Sane(act[a]) /\ act[a].op = "decompose" /\ Fine
      /\ act[a].pc = "read" /\ ~Owing(a)
  BY DEF Read, At, RowsAlone, RowStays, SourceInv, Types, Owing, Fetching,
         Rewrites, Sane, PcsOf
<1>2. CASE Ends(a)
  BY <1>1, <1>2, EndsInv
<1>3. CASE Errs(a)
  BY <1>1, <1>3, ErrsInv
<1>5. CASE Found(a) /\ Goes(a, "waive")
  <2>1. "waive" \in Pcs /\ "waive" \in PcsOf["decompose"]
    BY DEF Pcs, PcsOf, Ops
  <2>2. /\ Others(a)
        /\ act'[a].op = "decompose" /\ act'[a].pc = "waive"
        /\ act'[a].id = act[a].id
        /\ act'[a].todo = act[a].todo /\ act'[a].bad = act[a].bad
    BY <1>1, <1>5, <2>1, GoesTo
  <2>3. /\ Sane(act[a])' /\ ~InCore(a)' /\ act'[a].pc # "offsets"
    BY <1>1, <2>1, <2>2 DEF Sane, InCore
  <2>4. act'[a].id \in 0..made /\ faults' \in 0..MaxFaults
    BY <1>1, <2>2, FaultType DEF Types, TypeOK
  <2>5. ~crossed => InHand(a)'
    BY <1>1, <2>2 DEF InHand, Reading, At, Found, CoveredBut, SourceInv,
           Coverage, RowStays
  <2> QED
    BY <1>1, <2>2, <2>3, <2>4, <2>5, RowAlone DEF RowStays, Owing
<1>4. CASE /\ Found(a)
           /\ act' = [act EXCEPT ![a].pc = "extract", ![a].text = row.text]
  <2>1. "extract" \in Pcs /\ row.text \in Texts
    BY <1>1 DEF Pcs, PcsOf, Ops, Types, RowType
  <2>2. /\ Others(a)
        /\ act'[a].op = "decompose" /\ act'[a].pc = "extract"
        /\ act'[a].id = act[a].id /\ act'[a].text = row.text
        /\ act'[a].todo = act[a].todo /\ act'[a].bad = act[a].bad
    <3> DEFINE z == act[a]
               u == [z EXCEPT !.pc = "extract"]
               v == [u EXCEPT !.text = row.text]
    <3>1. act \in [Actors -> ActType] /\ z \in ActType
      BY <1>1 DEF Types
    <3>2. /\ u \in ActType /\ u.pc = "extract" /\ u.op = z.op /\ u.id = z.id
          /\ u.todo = z.todo /\ u.bad = z.bad
      BY <2>1, <3>1 DEF ActType
    <3>3. /\ v \in ActType /\ v.pc = "extract" /\ v.op = z.op /\ v.id = z.id
          /\ v.text = row.text /\ v.todo = z.todo /\ v.bad = z.bad
      BY <2>1, <3>2 DEF ActType
    <3>4. act' = [act EXCEPT ![a] = v]
      BY <1>4, <3>1
    <3> QED
      BY <1>1, <3>1, <3>3, <3>4 DEF Others
  <2>3. /\ Sane(act[a])' /\ ~InCore(a)' /\ act'[a].pc # "offsets"
    <3>1. "extract" \in PcsOf["decompose"]
      BY DEF PcsOf
    <3>2. ~InCore(a)' /\ act'[a].pc # "offsets"
      BY <2>2 DEF InCore
    <3>3. act[a].bad \subseteq act[a].todo
      BY <1>1 DEF Sane
    <3> QED
      BY <2>2, <3>1, <3>2, <3>3 DEF Sane
  <2>4. act'[a].id \in 0..made /\ faults' \in 0..MaxFaults
    BY <1>1, <2>2, FaultType DEF Types, TypeOK
  <2>5. ~crossed => InHand(a)'
    BY <1>1, <1>4, <2>2 DEF InHand, Reading, At, Found, CoveredBut, SourceInv,
           Coverage, RowStays
  <2> QED
    BY <1>1, <2>2, <2>3, <2>4, <2>5, RowAlone DEF RowStays, Owing
<1> QED
  BY <1>2, <1>3, <1>4, <1>5 DEF Read

LEMMA DiesInv ==
  ASSUME SourceInv, NEW a \in Actors, Dies(a), asked' \in 0..MaxRequests
  PROVE  SourceInv'
<1>1. /\ RowStays /\ Types /\ act[a].pc # "idle"
      /\ Sane(act[a]) /\ act[a] \in ActType
      /\ act[a].id \in 0..made /\ act[a].id \in Nat
      /\ act[a].process \in BOOLEAN /\ act[a].todo \in SUBSET AllChunks
  BY DEF Dies, RowsAlone, RowStays, SourceInv, Types, TypeOK, ActType
<1>2. faults' \in 0..MaxFaults
  <2>1. faults \in 0..MaxFaults /\ MaxFaults \in Nat
    BY BoundsAssumption DEF SourceInv, Types, TypeOK
  <2> QED
    BY <2>1 DEF Dies
<1>3. CASE /\ act[a].op = "retrieve" /\ Becomes(a, Retrieval(act[a].process))
           /\ UNCHANGED failed
  <2>1. act' = [act EXCEPT ![a] = Retrieval(act[a].process)] /\ UNCHANGED failed
    BY <1>3 DEF Becomes
  <2>2. Others(a) /\ act'[a] = Retrieval(act[a].process) /\ url = "web"
    BY <1>1, <1>3, <2>1, RetrievalType DEF Others, Types, Sane
  <2>3. act'[a].op = "retrieve"
    BY <1>1, <2>2, RetrievalType
  <2> QED
    BY <1>1, <1>2, <2>1, <2>2, <2>3, StartsOver DEF RowStays
<1>4. CASE /\ act[a].op = "decompose" /\ UNCHANGED failed
           /\ Becomes(a, Decomposition(act[a].id, act[a].todo))
  <2>1. /\ act' = [act EXCEPT ![a] = Decomposition(act[a].id, act[a].todo)]
        /\ UNCHANGED failed
    BY <1>4 DEF Becomes
  <2>2. Others(a) /\ act'[a] = Decomposition(act[a].id, act[a].todo)
    BY <1>1, <2>1, DecompositionType DEF Others, Types
  <2>3. ~crossed /\ row.id # 0 /\ act[a].id = row.id => CoveredBut(act[a].todo)
    BY <1>4 DEF SourceInv, Coverage, InHand, Found
  <2>4. ~Fetching(a) /\ ~Rewrites(a)
    BY <1>1, <1>4 DEF Fetching, Rewrites, Sane, PcsOf
  <2> QED
    BY <1>1, <1>2, <2>1, <2>2, <2>3, <2>4, StartsOver DEF RowStays
<1>5. CASE Ends(a) /\ failed' = TRUE
  <2>1. Others(a) /\ act'[a] = Idle
    BY <1>1, <1>5, EndsIn
  <2>2. Fault
    BY <1>5 DEF Dies, Fault
  <2> QED
    BY <1>1, <1>2, <1>5, <2>1, <2>2, StartsOver DEF RowStays
<1> QED
  BY <1>3, <1>4, <1>5 DEF Dies

LEMMA ParsedTo ==
  ASSUME Types, NEW a \in Actors, Parsed(a), act[a].op \in {"retrieve", "upload"},
         UNCHANGED url
  PROVE  /\ Others(a) /\ Sane(act[a])' /\ InHand(a)' /\ ~InCore(a)'
         /\ act'[a].op = act[a].op /\ act'[a].id = act[a].id
         /\ act'[a].pc = "check" /\ act'[a].pc # "offsets"
<1>1. "check" \in Pcs /\ 0 \in Texts /\ "check" \in PcsOf[act[a].op]
  BY DEF Pcs, PcsOf, Ops, Texts
<1>2. act[a] \in ActType /\ Sane(act[a])
  BY DEF Types
<1>3. /\ Others(a)
      /\ act'[a].op = act[a].op /\ act'[a].pc = "check"
      /\ act'[a].id = act[a].id
      /\ act'[a].todo = act[a].todo /\ act'[a].bad = act[a].bad
  BY <1>1, <1>2 DEF Parsed, Types, Others, ActType
<1> QED
  BY <1>1, <1>2, <1>3 DEF Sane, InHand, Reading, At, InCore, Core

LEMMA MissInv ==
  ASSUME SourceInv, NEW a \in Actors, Misses(a), act[a].pc \notin Early,
         UNCHANGED <<url, made, extracted, lost, waived, overlapped, crossed>>,
         \/ Ends(a)
         \/ Errs(a) /\ act[a].op \in {"retrieve", "decompose"}
         \/ Parsed(a) /\ act[a].op \in {"retrieve", "upload"}
         \/ Goes(a, "page") /\ act[a].op = "retrieve",
         asked' \in 0..MaxRequests
  PROVE  SourceInv'
<1>1. RowStays /\ (Fine \/ Fault)
  BY DEF Misses, RowStays
<1>2. Owing(a) => Found(a)
  BY DEF Owing, Fetching, Rewrites
<1>3. Owing(a) => failed'
  BY <1>2 DEF Misses, Fault
<1>4. SourceInv => Types
  BY DEF SourceInv
<1>5. "page" \in PcsOf["retrieve"]
  BY DEF PcsOf, Early
<1>6. CASE Parsed(a) /\ act[a].op \in {"retrieve", "upload"}
  <2>1. /\ Others(a) /\ Sane(act[a])' /\ InHand(a)' /\ ~InCore(a)'
        /\ act'[a].id = act[a].id /\ act'[a].pc # "offsets"
    BY <1>1, <1>4, <1>6, ParsedTo DEF RowStays
  <2>2. act'[a].id \in 0..made /\ faults' \in 0..MaxFaults
    BY <1>1, <1>4, <2>1, FaultType DEF Types, TypeOK
  <2> QED
    BY <1>1, <1>3, <2>1, <2>2, RowAlone DEF RowStays, Owing
<1>7. CASE Goes(a, "page") /\ act[a].op = "retrieve"
  BY <1>1, <1>3, <1>5, <1>7, GoesInv
<1> QED
  BY <1>1, <1>3, <1>6, <1>7, EndsInv, ErrsInv

-----------------------------------------------------------------------------
(* Steps that update the row                                               *)

LEMMA UpdateTypes ==
  ASSUME Types, NEW a \in Actors, Others(a), Sane(act[a])', UNCHANGED <<url, made>>,
         row' \in RowType, Updates(a, row'), row'.id = row.id,
         row'.status # "none", act'[a].id \in {0, act[a].id},
         url = "upload" => row'.text \in {0, 1},
         UNCHANGED <<extracted, lost, overlapped>>, crossed' \in BOOLEAN,
         asked' \in 0..MaxRequests
  PROVE  Types'
<1>1. /\ faults' \in 0..MaxFaults /\ failed' \in BOOLEAN /\ row.id # 0
  BY FaultType DEF Updates, Found
<1>2. /\ made \in Nat /\ made <= MaxRows /\ row.id \in 0..made
      /\ act[a].id \in 0..made /\ overlapped \in BOOLEAN
      /\ extracted \cup lost \subseteq Editions \X AllChunks
  BY DEF Types, TypeOK
<1> QED
  BY <1>1, <1>2, TypeStep

LEMMA OthersStay ==
  ASSUME NEW a \in Actors, Others(a), row'.id = row.id
  PROVE  \A o \in Actors \ {a} : /\ Fetching(o) <=> Fetching(o)'
                                 /\ Rewrites(o) <=> Rewrites(o)'
                                 /\ InCore(o)' <=> InCore(o)
                                 /\ Found(o)' <=> Found(o)
BY DEF Others, Fetching, Rewrites, InCore, Found

(* The text and what is known of it stay.                                  *)
LEMMA CoverageStays ==
  ASSUME SourceInv, NEW a \in Actors, Others(a), row'.id = row.id,
         row'.text = row.text, row'.failures = row.failures,
         row'.status = "processed" => row.status = "processed",
         UNCHANGED <<extracted, lost, waived, crossed>>, ~crossed => InHand(a)'
  PROVE  Coverage'
<1>1. \A o \in Actors \ {a} : InHand(o) => InHand(o)'
  BY DEF Others, InHand, Reading, Found, At, CoveredBut
<1>2. Recorded => Recorded'
  BY DEF Recorded, CoveredBut
<1> QED
  BY <1>1, <1>2 DEF SourceInv, Coverage

LEMMA StatusInv ==
  ASSUME SourceInv, NEW a \in Actors,
         NEW s \in {"pending", "fetching", "failed", "fetched"},
         Updates(a, [row EXCEPT !.status = s]),
         UNCHANGED <<url, made, extracted, lost, waived, overlapped, crossed>>,
         NEW pc \in {"enqueue", "fetched", "failed", "unparse", "parse"},
         Goes(a, pc), asked' \in 0..MaxRequests,
         \/ act[a].op = "retry" /\ pc = "enqueue" /\ s = "pending"
         \/ act[a].op = "retrieve" /\ pc = "fetched" /\ s = "fetching"
              /\ act[a].pc = "mark"
         \/ act[a].op = "retrieve" /\ pc = "failed" /\ s = "fetching"
         \/ act[a].op = "retrieve" /\ pc = "unparse" /\ s # "fetching"
         \/ act[a].op = "retrieve" /\ pc = "parse" /\ s # "fetching"
              /\ act[a].pc = "fetched"
  PROVE  SourceInv'
<1>1. /\ Types /\ Found(a) /\ Fine /\ act[a] \in ActType /\ Sane(act[a])
      /\ row \in RowType /\ row' = [row EXCEPT !.status = s]
  BY DEF SourceInv, Types, Updates
<1>2. /\ row' \in RowType /\ row'.status = s /\ row'.id = row.id
      /\ row'.text = row.text /\ row'.offsets = row.offsets
      /\ row'.failures = row.failures
  BY <1>1 DEF RowType, Statuses
<1>3. pc \in Pcs /\ pc \in PcsOf[act[a].op]
  BY DEF Pcs, PcsOf, Ops, Core, Ending
<1>4. /\ Others(a)
      /\ act'[a].op = act[a].op /\ act'[a].pc = pc
      /\ act'[a].id = act[a].id /\ act'[a].page = act[a].page
      /\ act'[a].todo = act[a].todo /\ act'[a].bad = act[a].bad
  BY <1>1, <1>3, GoesTo
<1>5. Sane(act[a])' /\ InHand(a)' /\ Found(a)' /\ act'[a].pc # "offsets"
  BY <1>1, <1>2, <1>3, <1>4 DEF Sane, InHand, Reading, At, Found
<1>6. Types'
  <2>1. url = "upload" => row'.text \in {0, 1}
    BY <1>1, <1>2 DEF Types
  <2>2. Updates(a, row') /\ crossed' \in BOOLEAN
    BY <1>1 DEF Updates, Types
  <2> QED
    BY <1>1, <1>2, <1>4, <1>5, <2>1, <2>2, UpdateTypes
<1>7. Coverage'
  BY <1>2, <1>4, <1>5, CoverageStays
<1>8. Outcome'
  <2>1. s = "fetching" => Fetching(a)'
    BY <1>4, <1>5 DEF Fetching
  <2> QED
    BY <1>2, <2>1 DEF Outcome
<1>9. Sentences'
  <2> SUFFICES ASSUME ~overlapped PROVE Sentences'
    BY DEF Sentences
  <2>1. /\ \A o, p \in Actors : InCore(o) /\ InCore(p) => o = p
        /\ \A o \in Actors : act[o].pc = "offsets" /\ Found(o) /\ row.text # 0
                                => act[o].page = row.text
        /\ ~failed /\ HasSentences(row.text)
             => row.offsets = row.text \/ \E o \in Actors : Rewrites(o)
    BY DEF SourceInv, Sentences
  <2>2. InCore(a)' => InCore(a)
    BY <1>4 DEF InCore, Core
  <2>3. \A o \in Actors : InCore(o)' => InCore(o)
    BY <1>2, <1>4, <2>2, OthersStay DEF InCore, Core
  <2>4. Rewrites(a) => Rewrites(a)'
    BY <1>1, <1>4, <1>5 DEF Rewrites, Core, Ending, Sane, PcsOf
  <2>5. ASSUME NEW o \in Actors, Rewrites(o)
        PROVE  Rewrites(o)'
    <3>1. CASE o = a
      BY <2>4, <2>5, <3>1 DEF Rewrites, Core, Ending, Early, Found
    <3> QED
      BY <1>2, <1>4, <2>5, <3>1, OthersStay
  <2>6. \A o \in Actors : act'[o].pc = "offsets" /\ Found(o)'
                            => act[o].pc = "offsets" /\ Found(o)
                                 /\ act'[o].page = act[o].page
    BY <1>2, <1>4, <1>5 DEF Others, Found
  <2>7. \A o, p \in Actors : InCore(o)' /\ InCore(p)' => o = p
    BY <2>1, <2>3
  <2>8. ~failed' /\ HasSentences(row'.text)
           => row'.offsets = row'.text \/ \E o \in Actors : Rewrites(o)'
    <3> SUFFICES ASSUME ~failed', HasSentences(row'.text), row'.offsets # row'.text
                 PROVE  \E o \in Actors : Rewrites(o)'
      OBVIOUS
    <3>1. PICK o \in Actors : Rewrites(o)
      BY <1>1, <1>2, <2>1 DEF Fine
    <3> QED
      BY <2>5, <3>1
  <2>9. \A o \in Actors : act'[o].pc = "offsets" /\ Found(o)' /\ row'.text # 0
                              => act'[o].page = row'.text
    BY <1>2, <2>1, <2>6
  <2> QED
    BY <2>7, <2>8, <2>9 DEF Sentences
<1> QED
  BY <1>6, <1>7, <1>8, <1>9 DEF SourceInv

LEMMA NotPersistedInv ==
  ASSUME SourceInv, NEW a \in Actors, Misses(a), NotPersisted(a),
         act[a].op = "retrieve", act[a].pc \notin Early,
         UNCHANGED <<url, made, extracted, lost, waived, overlapped, crossed>>,
         asked' \in 0..MaxRequests
  PROVE  SourceInv'
BY MissInv DEF NotPersisted

LEMMA MarksInv ==
  ASSUME SourceInv, NEW a \in Actors, asked' \in 0..MaxRequests,
         \/ ResetSourceForRetry(a) \/ MarkSourceFetching(a)
         \/ MarkSourceFailed(a) \/ MarkSourceFetched(a)
  PROVE  SourceInv'
<1>1. UNCHANGED <<url, made, extracted, lost, waived, overlapped, crossed>>
  BY DEF ResetSourceForRetry, MarkSourceFetching, MarkSourceFailed,
         MarkSourceFetched, RowsAlone
<1>2. CASE ResetSourceForRetry(a)
  <2>1. act[a].op = "retry" /\ act[a].pc \notin Early
    BY <1>2 DEF ResetSourceForRetry, At, Early
  <2>2. CASE Updates(a, [row EXCEPT !.status = "pending"]) /\ Goes(a, "enqueue")
    BY <1>1, <2>1, <2>2, StatusInv
  <2>3. CASE Misses(a) /\ Ends(a)
    BY <1>1, <2>1, <2>3, MissInv
  <2> QED
    BY <1>2, <2>2, <2>3 DEF ResetSourceForRetry
<1>3. CASE MarkSourceFetching(a)
  <2>1. /\ act[a].op = "retrieve" /\ act[a].pc \in {"mark", "unfetched"}
        /\ act[a].pc \notin Early
    BY <1>3 DEF MarkSourceFetching, Early
  <2>2. CASE /\ Updates(a, [row EXCEPT !.status = "fetching"])
             /\ Goes(a, IF act[a].pc = "mark" THEN "fetched" ELSE "failed")
    <3>1. CASE act[a].pc = "mark"
      <4>1. Goes(a, "fetched")
        BY <2>2, <3>1
      <4> QED
        BY <1>1, <2>1, <2>2, <3>1, <4>1, StatusInv
    <3>2. CASE act[a].pc # "mark"
      <4>1. Goes(a, "failed")
        BY <2>2, <3>2
      <4> QED
        BY <1>1, <2>1, <2>2, <4>1, StatusInv
    <3> QED
      BY <3>1, <3>2
  <2>3. CASE Misses(a) /\ NotPersisted(a)
    BY <1>1, <2>1, <2>3, NotPersistedInv
  <2> QED
    BY <1>3, <2>2, <2>3 DEF MarkSourceFetching
<1>4. CASE MarkSourceFailed(a)
  <2>1. act[a].op = "retrieve" /\ act[a].pc \notin Early
    BY <1>4 DEF MarkSourceFailed, At, Early
  <2>2. CASE Updates(a, FailedRow) /\ Goes(a, "unparse")
    BY <1>1, <2>1, <2>2, StatusInv DEF FailedRow
  <2>3. CASE Misses(a) /\ Ends(a)
    BY <1>1, <2>1, <2>3, MissInv
  <2> QED
    BY <1>4, <2>2, <2>3 DEF MarkSourceFailed
<1>5. CASE MarkSourceFetched(a)
  <2>1. /\ act[a].op = "retrieve" /\ act[a].pc \in {"fetched", "imported"}
        /\ act[a].pc \notin Early
    BY <1>5 DEF MarkSourceFetched, Early
  <2>2. CASE /\ Updates(a, [row EXCEPT !.status = "fetched"])
             /\ Goes(a, IF act[a].pc = "fetched" THEN "parse" ELSE "unparse")
    <3>1. CASE act[a].pc = "fetched"
      <4>1. Goes(a, "parse")
        BY <2>2, <3>1
      <4> QED
        BY <1>1, <2>1, <2>2, <3>1, <4>1, StatusInv
    <3>2. CASE act[a].pc # "fetched"
      <4>1. Goes(a, "unparse")
        BY <2>2, <3>2
      <4> QED
        BY <1>1, <2>1, <2>2, <4>1, StatusInv
    <3> QED
      BY <3>1, <3>2
  <2>3. CASE /\ Misses(a)
             /\ IF act[a].pc = "fetched" THEN NotPersisted(a) ELSE Goes(a, "page")
    BY <1>1, <2>1, <2>3, NotPersistedInv, MissInv
  <2> QED
    BY <1>5, <2>2, <2>3 DEF MarkSourceFetched
<1> QED
  BY <1>2, <1>3, <1>4, <1>5

(* The text is replaced by what the step has, or by nothing.               *)
LEMMA TextInv ==
  ASSUME SourceInv, NEW a \in Actors, NEW text \in Texts, SetsText(a, text),
         UNCHANGED <<url, made, extracted, lost, waived, overlapped>>, Others(a),
         act'[a].id \in {0, act[a].id}, Sane(act[a])', act'[a].op # "decompose",
         act[a].op # "decompose", act[a].pc \in {"parse", "unparse"},
         text # 0 => act[a].pc = "parse",
         IF HasSentences(text)
           THEN /\ act'[a].pc = "offsets" /\ act'[a].page = text
                /\ act'[a].op = act[a].op /\ act'[a].id = act[a].id
           ELSE act'[a].pc # "offsets" /\ ~InCore(a)',
         url = "upload" => text \in {0, 1},
         asked' \in 0..MaxRequests
  PROVE  SourceInv'
<1>1. /\ Types /\ Found(a) /\ Fine /\ Updates(a, [row EXCEPT !.text = text])
      /\ row' = [row EXCEPT !.text = text] /\ row \in RowType
      /\ crossed' = (crossed \/ Crossing(text))
  BY DEF SourceInv, Types, Updates, SetsText
<1>2. /\ row' \in RowType /\ row'.status = row.status /\ row'.id = row.id
      /\ row'.text = text /\ row'.offsets = row.offsets
      /\ row'.failures = row.failures
  BY <1>1 DEF RowType
<1>3. Types'
  <2>1. row.status # "none"
    BY <1>1 DEF Types, TypeOK, Found
  <2>2. Updates(a, row') /\ crossed' \in BOOLEAN
    BY <1>1 DEF Updates
  <2> QED
    BY <1>1, <1>2, <2>1, <2>2, UpdateTypes
<1>4. Coverage'
  <2> SUFFICES ASSUME ~crossed' PROVE Recorded' /\ \A o \in Actors : InHand(o)'
    BY DEF Coverage
  <2>1. ~crossed /\ ~Crossing(text)
    BY <1>1
  <2>2. Recorded /\ \A o \in Actors : InHand(o)
    BY <2>1 DEF SourceInv, Coverage
  <2>3. CASE text = row.text
    <3>1. Recorded'
      BY <1>2, <2>2, <2>3 DEF Recorded, CoveredBut
    <3>2. InHand(a)'
      BY DEF InHand, Reading, At
    <3>3. \A o \in Actors \ {a} : InHand(o)'
      BY <1>2, <2>2, <2>3 DEF Others, InHand, Reading, Found, At, CoveredBut
    <3> QED
      BY <3>1, <3>2, <3>3 DEF Others
  <2>4. CASE text # row.text
    <3>1. /\ row.failures = {} /\ row.status # "processed"
          /\ \A o \in Actors : act[o].op = "decompose"
                => act[o].pc = "read" /\ act[o].todo = AllChunks
      BY <2>1, <2>4 DEF Crossing
    <3>2. Recorded'
      BY <1>2, <3>1 DEF Recorded
    <3>3. CoveredBut(AllChunks)'
      <4>1. ASSUME text # 0 PROVE ChunksOf[text] \subseteq AllChunks
        <5>1. text \in Editions
          BY <4>1 DEF Texts
        <5> QED
          BY <5>1 DEF AllChunks
      <4> QED
        BY <1>2, <4>1 DEF CoveredBut
    <3>4. ASSUME NEW o \in Actors
          PROVE  InHand(o)'
      <4>1. act'[o].op = "decompose"
              => act'[o].pc = "read" /\ act'[o].todo = AllChunks
        BY <3>1 DEF Others
      <4> QED
        BY <3>3, <4>1 DEF InHand, Reading, At, CoveredBut
    <3> QED
      BY <3>2, <3>4
  <2> QED
    BY <2>3, <2>4
<1>5. Outcome'
  <2> SUFFICES ASSUME ~failed', row'.status = "fetching"
               PROVE  \E o \in Actors : Fetching(o)'
    BY DEF Outcome
  <2>1. PICK o \in Actors : Fetching(o)
    BY <1>1, <1>2 DEF SourceInv, Outcome, Fine
  <2>2. o # a
    BY <2>1 DEF Fetching, Early
  <2> QED
    BY <1>2, <2>1, <2>2, OthersStay
<1>6. Sentences'
  <2> SUFFICES ASSUME ~overlapped PROVE Sentences'
    BY DEF Sentences
  <2>1. \A o, p \in Actors : InCore(o) /\ InCore(p) => o = p
    BY DEF SourceInv, Sentences
  <2>2. InCore(a)' => InCore(a)
    BY DEF InCore, Core, HasSentences
  <2>3. \A o \in Actors : InCore(o)' => InCore(o)
    BY <1>2, <2>2, OthersStay DEF InCore, Core
  <2>4. \A o, p \in Actors : InCore(o)' /\ InCore(p)' => o = p
    BY <2>1, <2>3
  <2>5. ASSUME NEW o \in Actors, act'[o].pc = "offsets", text # 0
        PROVE  act'[o].page = text
    <3>1. CASE o = a
      BY <2>5, <3>1
    <3>2. CASE o # a
      <4>1. act'[o] = act[o] /\ act[o].pc = "offsets" /\ Sane(act[o]) /\ Sane(act[a])
            /\ act[o] \in ActType /\ act[a] \in ActType
        BY <1>1, <2>5, <3>2 DEF Others, Types
      <4>2. act[o].op \in {"retrieve", "upload"}
        BY <4>1 DEF Sane, PcsOf, ActType, Ops
      <4>3. CASE act[o].op = "retrieve"
        <5>1. InCore(o) /\ url = "web"
          BY <4>1, <4>3 DEF InCore, Core, Sane
        <5>2. act[a].op = "retrieve"
          BY <2>5, <4>1, <5>1 DEF Sane, PcsOf, ActType, Ops
        <5>3. InCore(a)
          BY <2>5, <5>2 DEF InCore, Core
        <5> QED
          BY <2>1, <3>2, <5>1, <5>3
      <4>4. CASE act[o].op = "upload"
        BY <2>5, <4>1, <4>4 DEF Sane
      <4> QED
        BY <4>2, <4>3, <4>4
    <3> QED
      BY <3>1, <3>2
  <2>6. HasSentences(text) => Rewrites(a)'
    BY <1>1, <1>2 DEF Rewrites, Found
  <2> QED
    BY <1>2, <2>4, <2>5, <2>6 DEF Sentences
<1> QED
  BY <1>3, <1>4, <1>5, <1>6 DEF SourceInv

LEMMA TextsInv ==
  ASSUME SourceInv, NEW a \in Actors, asked' \in 0..MaxRequests,
         ClearText(a) \/ Parse(a)
  PROVE  SourceInv'
<1>1. /\ Types /\ act[a] \in ActType /\ Sane(act[a])
      /\ UNCHANGED <<url, made, extracted, lost, waived, overlapped>>
  BY DEF SourceInv, Types, ClearText, Parse
<1>2. act[a].pc \in {"parse", "unparse"} /\ act[a].op \in {"retrieve", "upload"}
  BY <1>1 DEF ClearText, Parse, At, Sane, PcsOf, ActType, Ops
<1>3. act[a].pc \notin Early /\ 0 \in Texts /\ act[a].page \in Texts
  BY <1>1, <1>2 DEF Early, Texts, ActType
<1>4. ASSUME UNCHANGED crossed, Misses(a), Ends(a) \/ Parsed(a)
      PROVE  SourceInv'
  BY <1>1, <1>2, <1>3, <1>4, MissInv
<1>5. CASE ClearText(a)
  <2>1. CASE SetsText(a, 0) /\ Ends(a)
    <3>1. Others(a) /\ act'[a] = Idle
      BY <1>1, <2>1, EndsIn
    <3>2. act[a].op = "retrieve" /\ act[a].pc = "unparse"
      BY <1>5 DEF ClearText, At
    <3>3. url = "web"
      BY <1>1, <3>2 DEF Sane
    <3>4. /\ Sane(act[a])' /\ act'[a].id = 0 /\ act'[a].pc # "offsets"
          /\ act'[a].op = "idle" /\ ~InCore(a)' /\ ~HasSentences(0)
      BY <3>1, IdleType DEF Sane, InCore, HasSentences
    <3> QED
      BY <1>1, <1>2, <1>3, <2>1, <3>1, <3>3, <3>4, TextInv
  <2>2. CASE Misses(a) /\ UNCHANGED crossed /\ Ends(a)
    BY <1>4, <2>2
  <2> QED
    BY <1>5, <2>1, <2>2 DEF ClearText
<1>6. CASE Parse(a)
  <2>0. /\ act[a].pc = "parse" /\ (url = "upload" => act[a].page \in {0, 1})
        /\ act[a].op # "decompose"
    BY <1>1, <1>2, <1>6 DEF Parse, Sane
  <2>1. CASE SetsText(a, act[a].page) /\ HasSentences(act[a].page)
               /\ Goes(a, "offsets")
    <3>1. "offsets" \in Pcs /\ "offsets" \in PcsOf[act[a].op]
      BY <1>2 DEF Pcs, PcsOf, Ops, Core
    <3>2. /\ Others(a) /\ act'[a].op = act[a].op /\ act'[a].pc = "offsets"
          /\ act'[a].id = act[a].id /\ act'[a].page = act[a].page
          /\ act'[a].todo = act[a].todo /\ act'[a].bad = act[a].bad
      BY <1>1, <2>1, <3>1, GoesTo
    <3>3. Sane(act[a])'
      BY <1>1, <1>2, <2>0, <3>1, <3>2 DEF Sane
    <3> QED
      BY <1>1, <1>2, <1>3, <2>0, <2>1, <3>2, <3>3, TextInv
  <2>3. CASE SetsText(a, act[a].page) /\ ~HasSentences(act[a].page) /\ Parsed(a)
    <3>1. /\ Others(a) /\ Sane(act[a])' /\ act'[a].op = act[a].op
          /\ act'[a].id = act[a].id /\ act'[a].pc # "offsets" /\ ~InCore(a)'
      BY <1>1, <1>2, <2>3, ParsedTo
    <3> QED
      BY <1>1, <1>2, <1>3, <2>0, <2>3, <3>1, TextInv
  <2>2. CASE Misses(a) /\ UNCHANGED crossed /\ Parsed(a)
    BY <1>4, <2>2
  <2> QED
    BY <1>6, <2>1, <2>2, <2>3 DEF Parse
<1> QED
  BY <1>5, <1>6

LEMMA OffsetsInv ==
  ASSUME SourceInv, NEW a \in Actors, asked' \in 0..MaxRequests,
         SetSentenceOffsets(a)
  PROVE  SourceInv'
<1>1. /\ Types /\ act[a] \in ActType /\ Sane(act[a]) /\ row \in RowType
      /\ UNCHANGED <<url, made, extracted, lost, waived, overlapped, crossed>>
      /\ act[a].pc = "offsets"
      /\ Parsed(a)
  BY DEF SourceInv, Types, SetSentenceOffsets, RowsAlone
<1>2. act[a].op \in {"retrieve", "upload"}
  BY <1>1 DEF Sane, PcsOf, ActType, Ops
<1>3. act[a].pc \notin Early
  BY <1>1 DEF Early
<1>4. /\ Others(a)
      /\ act'[a].op = act[a].op /\ act'[a].pc = "check"
      /\ act'[a].id = act[a].id
  BY <1>1, <1>2, ParsedTo
<1>5. /\ Sane(act[a])' /\ InHand(a)' /\ ~InCore(a)'
  BY <1>1, <1>2, ParsedTo
<1>6. act'[a].id \in 0..made /\ ~Fetching(a)
  BY <1>1, <1>4 DEF Types, TypeOK, Fetching, Early
<1>7. CASE Misses(a)
  BY <1>1, <1>2, <1>3, <1>7, MissInv
<1>8. CASE Updates(a, [row EXCEPT !.offsets = Offsets(a)])
  <2>1. /\ row' = [row EXCEPT !.offsets = act[a].page] /\ Found(a) /\ Fine
        /\ act[a].page \in Texts
    BY <1>1, <1>8 DEF Updates, Offsets, ActType
  <2>2. /\ row' \in RowType /\ row'.status = row.status /\ row'.id = row.id
        /\ row'.text = row.text /\ row'.offsets = act[a].page
        /\ row'.failures = row.failures
    BY <1>1, <2>1 DEF RowType
  <2>3. Types'
    <3>1. row.status # "none" /\ (url = "upload" => row'.text \in {0, 1})
      BY <1>1, <2>1, <2>2 DEF Types, TypeOK, Found
    <3>2. Updates(a, row') /\ crossed' \in BOOLEAN
      BY <1>1, <2>1 DEF Updates, Types
    <3> QED
      BY <1>1, <1>4, <1>5, <2>2, <3>1, <3>2, UpdateTypes
  <2>4. Coverage'
    BY <1>1, <1>4, <1>5, <2>2, CoverageStays
  <2>5. Outcome'
    <3> SUFFICES ASSUME ~failed', row'.status = "fetching"
                 PROVE  \E o \in Actors : Fetching(o)'
      BY DEF Outcome
    <3>1. PICK o \in Actors : Fetching(o)
      BY <2>1, <2>2 DEF SourceInv, Outcome, Fine
    <3> QED
      BY <1>4, <1>6, <2>2, <3>1, OthersStay DEF Fetching
  <2>6. Sentences'
    <3> SUFFICES ASSUME ~overlapped PROVE Sentences'
      BY <1>1 DEF Sentences
    <3>1. /\ \A o, p \in Actors : InCore(o) /\ InCore(p) => o = p
          /\ \A o \in Actors : act[o].pc = "offsets" /\ Found(o) /\ row.text # 0
                                  => act[o].page = row.text
      BY DEF SourceInv, Sentences
    <3>2. \A o \in Actors : InCore(o)' => InCore(o)
      BY <1>4, <1>5, <2>2, OthersStay DEF InCore, Core
    <3>3. \A o, p \in Actors : InCore(o)' /\ InCore(p)' => o = p
      BY <3>1, <3>2
    <3>4. \A o \in Actors : act'[o].pc = "offsets" /\ Found(o)' /\ row'.text # 0
                                => act'[o].page = row'.text
      BY <1>4, <2>2, <3>1 DEF Others, Found
    <3>5. HasSentences(row'.text) => row'.offsets = row'.text
      BY <1>1, <2>1, <2>2, <3>1 DEF HasSentences
    <3> QED
      BY <3>3, <3>4, <3>5 DEF Sentences
  <2> QED
    BY <2>3, <2>4, <2>5, <2>6 DEF SourceInv
<1> QED
  BY <1>7, <1>8 DEF SetSentenceOffsets

-----------------------------------------------------------------------------
(* A decomposition leaves the fetches alone.                               *)
LEMMA FetchesStay ==
  ASSUME SourceInv, NEW a \in Actors, Others(a), row'.id = row.id,
         row'.text = row.text, row'.offsets = row.offsets,
         row'.status = "fetching" => row.status = "fetching",
         failed => failed', UNCHANGED overlapped,
         act[a].op = "decompose", act'[a].op # "retrieve",
         act'[a].pc # "offsets"
  PROVE  Outcome' /\ Sentences'
<1>1. /\ ~Fetching(a) /\ ~Rewrites(a) /\ ~InCore(a)' /\ act[a].pc # "offsets"
  BY DEF Fetching, Rewrites, InCore, SourceInv, Types, Sane, PcsOf
<1>2. Outcome'
  <2> SUFFICES ASSUME ~failed', row'.status = "fetching"
               PROVE  \E o \in Actors : Fetching(o)'
    BY DEF Outcome
  <2>1. PICK o \in Actors : Fetching(o)
    BY DEF SourceInv, Outcome
  <2>2. o # a
    BY <1>1, <2>1 DEF Fetching, Found
  <2> QED
    BY <2>1, <2>2, OthersStay
<1>3. Sentences'
  <2> SUFFICES ASSUME ~overlapped PROVE Sentences'
    BY DEF Sentences
  <2>1. /\ \A o, p \in Actors : InCore(o) /\ InCore(p) => o = p
        /\ \A o \in Actors : act[o].pc = "offsets" /\ Found(o) /\ row.text # 0
                                => act[o].page = row.text
        /\ ~failed /\ HasSentences(row.text)
             => row.offsets = row.text \/ \E o \in Actors : Rewrites(o)
    BY DEF SourceInv, Sentences
  <2>2. \A o \in Actors : InCore(o)' => InCore(o)
    BY <1>1, OthersStay DEF InCore, Core
  <2>3. \A o, p \in Actors : InCore(o)' /\ InCore(p)' => o = p
    BY <2>1, <2>2
  <2>4. \A o \in Actors : act'[o].pc = "offsets" /\ Found(o)' /\ row'.text # 0
                              => act'[o].page = row'.text
    BY <2>1 DEF Others, Found
  <2>5. ~failed' /\ HasSentences(row'.text)
           => row'.offsets = row'.text \/ \E o \in Actors : Rewrites(o)'
    <3> SUFFICES ASSUME ~failed', HasSentences(row'.text), row'.offsets # row'.text
                 PROVE  \E o \in Actors : Rewrites(o)'
      OBVIOUS
    <3>1. PICK o \in Actors : Rewrites(o)
      BY <2>1
    <3>2. o # a
      BY <1>1, <3>1 DEF Rewrites, Found
    <3> QED
      BY <3>1, <3>2, OthersStay
  <2> QED
    BY <2>3, <2>4, <2>5 DEF Sentences
<1> QED
  BY <1>2, <1>3

LEMMA ExtractInv ==
  ASSUME SourceInv, NEW a \in Actors, Extract(a), asked' \in 0..MaxRequests
  PROVE  SourceInv'
<1>1. /\ Types /\ act[a] \in ActType /\ Sane(act[a])
      /\ UNCHANGED <<url, row, made, waived, overlapped, crossed>>
      /\ act[a].op = "decompose" /\ act[a].pc = "extract"
  BY DEF SourceInv, Types, Extract, At
<1> DEFINE text == act[a].text
           Good(bad, missed) == {text} \X (Chunks(a) \ (bad \cup missed))
<1>2. PICK bad \in SUBSET Chunks(a), missed \in SUBSET Chunks(a) :
        /\ IF missed = {} THEN Fine ELSE Found(a) /\ Fault
        /\ act' = [act EXCEPT ![a].pc = "record", ![a].bad = bad]
        /\ extracted' = IF Found(a) THEN extracted \cup Good(bad, missed)
                                    ELSE extracted
        /\ lost' = (lost \ Good(bad, missed)) \cup ({text} \X missed)
  BY DEF Extract
<1>3. /\ text \in Texts /\ Chunks(a) \subseteq AllChunks
      /\ Chunks(a) \subseteq act[a].todo /\ act[a].todo \subseteq AllChunks
      /\ Chunks(a) = act[a].todo \cap ChunksIn(text)
  BY <1>1 DEF ActType, Chunks
<1>4. "record" \in Pcs /\ "record" \in PcsOf["decompose"] /\ bad \in SUBSET AllChunks
  BY <1>3 DEF Pcs, PcsOf, Ops
<1>5. /\ Others(a)
      /\ act'[a].op = "decompose" /\ act'[a].pc = "record"
      /\ act'[a].id = act[a].id /\ act'[a].text = text
      /\ act'[a].todo = act[a].todo /\ act'[a].bad = bad
  BY <1>1, <1>2, <1>4 DEF Types, Others, ActType
<1>6. Sane(act[a])'
  BY <1>1, <1>3, <1>4, <1>5 DEF Sane
<1>7. /\ faults' \in 0..MaxFaults /\ failed' \in BOOLEAN /\ (failed => failed')
  BY <1>1, <1>2, FaultType
<1>8. Types'
  <2>1. /\ extracted \cup lost \subseteq Editions \X AllChunks
        /\ made \in Nat /\ made <= MaxRows /\ row.id \in 0..made
        /\ act[a].id \in 0..made /\ row \in RowType
        /\ (row.id = 0) = (row.status = "none") /\ (row.id = 0 => row = NoRow)
        /\ url = "upload" => row.text \in {0, 1}
        /\ overlapped \in BOOLEAN /\ crossed \in BOOLEAN
    BY <1>1 DEF Types, TypeOK
  <2>2. extracted' \cup lost' \subseteq Editions \X AllChunks
    <3>1. CASE text = 0
      <4>1. Chunks(a) = {}
        BY <1>3, <3>1 DEF ChunksIn
      <4>2. extracted' \cup lost' \subseteq extracted \cup lost
        BY <1>2, <4>1
      <4> QED
        BY <2>1, <4>2
    <3>2. CASE text # 0
      <4>1. text \in Editions
        BY <1>3, <3>2 DEF Texts
      <4> QED
        BY <1>2, <1>3, <2>1, <4>1
    <3> QED
      BY <3>1, <3>2
  <2> QED
    BY <1>1, <1>5, <1>6, <1>7, <2>1, <2>2, TypeStep
<1>9. Coverage'
  <2> SUFFICES ASSUME ~crossed PROVE Recorded' /\ \A o \in Actors : InHand(o)'
    BY <1>1 DEF Coverage
  <2>1. Recorded /\ \A o \in Actors : InHand(o)
    BY DEF SourceInv, Coverage
  <2>2. row.text = IF Found(a) THEN text ELSE 0
    BY <1>1, <2>1 DEF InHand, Reading
  <2>3. Found(a) => extracted \cup lost \subseteq extracted' \cup lost'
    BY <1>2
  <2>4. ASSUME NEW S, CoveredBut(S) PROVE CoveredBut(S)'
    BY <1>1, <2>2, <2>3, <2>4 DEF CoveredBut
  <2>5. Recorded'
    BY <1>1, <2>1, <2>4 DEF Recorded, CoveredBut
  <2>6. \A o \in Actors \ {a} : InHand(o)'
    BY <1>1, <1>5, <2>1, <2>4 DEF Others, InHand, Reading, Found, At, CoveredBut
  <2>7. InHand(a)'
    <3>1. Found(a)' <=> Found(a)
      BY <1>1, <1>5 DEF Found
    <3>2. row'.text = IF Found(a)' THEN act'[a].text ELSE 0
      BY <1>1, <1>5, <2>2, <3>1
    <3>3. Found(a) => CoveredBut(act[a].todo) /\ CoveredBut(act[a].todo)'
      BY <1>1, <1>5, <2>1, <2>4 DEF InHand, CoveredBut
    <3>4. Found(a) => CoveredBut(bad)'
      <4> SUFFICES ASSUME Found(a), row.text # 0, NEW c \in ChunksOf[text] \ bad
                   PROVE  <<text, c>> \in extracted' \cup lost'
        BY <1>1, <2>2 DEF CoveredBut
      <4>3. c \in ChunksIn(text)
        BY <2>2 DEF ChunksIn
      <4>1. CASE c \in act[a].todo
        BY <1>2, <1>3, <4>1, <4>3
      <4>2. CASE c \notin act[a].todo
        <5>1. <<text, c>> \in extracted \cup lost
          BY <1>3, <2>2, <3>3, <4>2 DEF CoveredBut
        <5> QED
          BY <2>3, <5>1
      <4> QED
        BY <4>1, <4>2
    <3> QED
      BY <1>5, <3>1, <3>2, <3>3, <3>4 DEF InHand, Reading, At, CoveredBut
  <2> QED
    BY <2>5, <2>6, <2>7
<1>10. Outcome' /\ Sentences'
  BY <1>1, <1>5, <1>7, FetchesStay
<1> QED
  BY <1>8, <1>9, <1>10 DEF SourceInv

LEMMA Over ==
  ASSUME Types, NEW a \in Actors, Ends(a) \/ Errs(a), act[a].op = "decompose",
         UNCHANGED url
  PROVE  /\ Others(a) /\ Sane(act[a])' /\ act'[a].id \in {0, act[a].id}
         /\ act'[a].op # "retrieve" /\ act'[a].pc # "offsets"
         /\ act'[a].op = "decompose"
              => act'[a].pc = "read" /\ act'[a].todo = act[a].todo
<1>1. CASE Ends(a)
  <2>1. Others(a) /\ act'[a] = Idle
    BY <1>1, EndsIn
  <2> QED
    BY <2>1, IdleType DEF Sane
<1>2. CASE Becomes(a, Decomposition(act[a].id, act[a].todo))
  <2>1. /\ act[a].id \in Nat /\ act[a].todo \in SUBSET AllChunks
    BY DEF Types, ActType
  <2>2. Others(a) /\ act'[a] = Decomposition(act[a].id, act[a].todo)
    BY <1>2, <2>1, DecompositionType DEF Becomes, Others, Types
  <2>3. "read" \in PcsOf["decompose"]
    BY DEF PcsOf
  <2> QED
    BY <2>1, <2>2, <2>3, DecompositionType DEF Sane
<1> QED
  BY <1>1, <1>2 DEF Errs

LEMMA RecordInv ==
  ASSUME SourceInv, NEW a \in Actors, asked' \in 0..MaxRequests,
         \/ MarkSourceProcessed(a) \/ UpdateSourceChunkFailures(a)
         \/ ClearSourceChunkFailures(a) \/ WaiveExtraction(a)
  PROVE  SourceInv'
<1>1. /\ Types /\ act[a] \in ActType /\ Sane(act[a]) /\ row \in RowType
      /\ UNCHANGED <<url, made, extracted, lost, overlapped, crossed>>
      /\ act[a].op = "decompose" /\ act[a].pc \in {"record", "clear", "waive"}
      /\ act[a].pc \notin Early
  BY DEF SourceInv, Types, MarkSourceProcessed, UpdateSourceChunkFailures,
         ClearSourceChunkFailures, WaiveExtraction, At, RowsAlone, Early
<1>2. ASSUME Misses(a), Ends(a) \/ Errs(a), UNCHANGED waived
      PROVE  SourceInv'
  BY <1>1, <1>2, MissInv
(* What was read is the text that is there.                                *)
<1>3. ASSUME ~crossed, Found(a), act[a].pc = "record"
      PROVE  row.text = act[a].text /\ CoveredBut(act[a].bad)
  BY <1>1, <1>3 DEF SourceInv, Coverage, InHand, Reading, At, Sane
<1>4. ASSUME NEW new \in RowType, Updates(a, new),
             new.id = row.id, new.text = row.text, new.offsets = row.offsets,
             new.status \in {row.status, "processed"},
             Others(a), Sane(act[a])', act'[a].id \in {0, act[a].id},
             act'[a].op # "retrieve", act'[a].pc # "offsets",
             ~crossed => Recorded' /\ InHand(a)'
      PROVE  SourceInv'
  <2>1. row' = new /\ Found(a) /\ Fine
    BY <1>4 DEF Updates
  <2>2. Types'
    <3>1. row.status # "none" /\ (url = "upload" => row'.text \in {0, 1})
      BY <1>1, <1>4, <2>1 DEF Types, TypeOK, Found
    <3>2. Updates(a, row') /\ crossed' \in BOOLEAN
      BY <1>1, <1>4, <2>1 DEF Types
    <3> QED
      BY <1>1, <1>4, <2>1, <3>1, <3>2, UpdateTypes
  <2>3. Coverage'
    <3> SUFFICES ASSUME ~crossed PROVE \A o \in Actors \ {a} : InHand(o)'
      BY <1>1, <1>4 DEF Coverage
    <3>1. \A o \in Actors : InHand(o)
      BY DEF SourceInv, Coverage
    <3> QED
      BY <1>1, <1>4, <2>1, <3>1 DEF Others, InHand, Reading, Found, At, CoveredBut
  <2>4. Outcome' /\ Sentences'
    BY <1>1, <1>4, <2>1, FetchesStay DEF Fine
  <2> QED
    BY <2>2, <2>3, <2>4 DEF SourceInv
<1>5. CASE MarkSourceProcessed(a)
  <2>1. CASE /\ Updates(a, [row EXCEPT !.status = "processed"])
             /\ Goes(a, "clear") /\ waived' = FALSE
    <3> DEFINE new == [row EXCEPT !.status = "processed"]
    <3>1. /\ new \in RowType /\ new.id = row.id /\ new.text = row.text
          /\ new.offsets = row.offsets /\ new.failures = row.failures
          /\ new.status = "processed"
      BY <1>1 DEF RowType, Statuses
    <3>2. "clear" \in Pcs /\ "clear" \in PcsOf["decompose"]
      BY DEF Pcs, PcsOf, Ops
    <3>3. /\ Others(a)
          /\ act'[a].op = act[a].op /\ act'[a].pc = "clear"
          /\ act'[a].id = act[a].id /\ act'[a].text = act[a].text
          /\ act'[a].todo = act[a].todo /\ act'[a].bad = act[a].bad
      BY <1>1, <2>1, <3>2, GoesTo
    <3>4. Sane(act[a])'
      BY <1>1, <3>2, <3>3 DEF Sane
    <3>5. row' = new /\ Found(a) /\ act[a].bad = {} /\ act[a].pc = "record"
      BY <1>5, <2>1 DEF Updates, MarkSourceProcessed, WholeText, At
    <3>6. ASSUME ~crossed PROVE Recorded' /\ InHand(a)'
      <4>1. row.text = act[a].text /\ CoveredBut({})
        BY <1>3, <3>5, <3>6
      <4>2. Recorded /\ InHand(a)
        BY <3>6 DEF SourceInv, Coverage
      <4>3. Recorded'
        BY <1>1, <3>1, <3>5, <4>1, <4>2 DEF Recorded, CoveredBut
      <4>4. InHand(a)'
        BY <1>1, <3>1, <3>3, <3>5, <4>1, <4>2 DEF InHand, Reading, At, Found,
             CoveredBut
      <4> QED
        BY <4>3, <4>4
    <3> HIDE DEF new
    <3>7. Updates(a, new)
      BY <2>1 DEF new
    <3> QED
      BY <1>1, <1>4, <3>1, <3>3, <3>4, <3>6, <3>7
  <2>2. CASE Misses(a) /\ Errs(a) /\ UNCHANGED waived
    BY <1>2, <2>2
  <2> QED
    BY <1>5, <2>1, <2>2 DEF MarkSourceProcessed
<1>6. ASSUME NEW F \in SUBSET AllChunks,
             Updates(a, [row EXCEPT !.failures = F]), Ends(a) \/ Errs(a),
             F # {} => act[a].pc = "record" /\ F = act[a].bad,
             UNCHANGED waived
      PROVE  SourceInv'
  <2> DEFINE new == [row EXCEPT !.failures = F]
  <2>1. /\ new \in RowType /\ new.id = row.id /\ new.text = row.text
        /\ new.offsets = row.offsets /\ new.failures = F
        /\ new.status = row.status
    BY <1>1 DEF RowType
  <2>2. row' = new /\ Found(a) /\ Updates(a, new)
    BY <1>6 DEF Updates
  <2> HIDE DEF new
  <2>3. /\ Others(a) /\ Sane(act[a])' /\ act'[a].id \in {0, act[a].id}
        /\ act'[a].op # "retrieve" /\ act'[a].pc # "offsets"
        /\ act'[a].op = "decompose"
             => act'[a].pc = "read" /\ act'[a].todo = act[a].todo
    BY <1>1, <1>6, Over
  <2>4. ASSUME ~crossed PROVE Recorded' /\ InHand(a)'
    <3>1. Recorded /\ InHand(a)
      BY <2>4 DEF SourceInv, Coverage
    <3>2. F # {} => CoveredBut(F)
      BY <1>3, <1>6, <2>2, <2>4
    <3>3. Recorded'
      BY <1>1, <1>6, <2>1, <2>2, <3>1, <3>2 DEF Recorded, CoveredBut
    <3>4. InHand(a)'
      BY <1>1, <2>1, <2>2, <2>3, <3>1 DEF InHand, Reading, At, CoveredBut
    <3> QED
      BY <3>3, <3>4
  <2> QED
    BY <1>4, <2>1, <2>2, <2>3, <2>4
<1>7. CASE UpdateSourceChunkFailures(a)
  <2>1. act[a].pc = "record" /\ (Ends(a) \/ Errs(a)) /\ UNCHANGED waived
    BY <1>7 DEF UpdateSourceChunkFailures, At, RowsAlone
  <2>2. act[a].bad \in SUBSET AllChunks
    BY <1>1 DEF ActType
  <2> QED
    BY <1>2, <1>6, <1>7, <2>1, <2>2 DEF UpdateSourceChunkFailures
<1>8. CASE ClearSourceChunkFailures(a)
  <2>1. {} \in SUBSET AllChunks /\ Ends(a) /\ UNCHANGED waived
    BY <1>8 DEF ClearSourceChunkFailures, RowsAlone
  <2> QED
    BY <1>2, <1>6, <1>8, <2>1 DEF ClearSourceChunkFailures
<1>9. CASE WaiveExtraction(a)
  <2>1. Ends(a) /\ act[a].pc = "waive"
    BY <1>9 DEF WaiveExtraction, At
  <2>2. CASE Updates(a, [row EXCEPT !.status = "processed"]) /\ waived' = TRUE
    <3> DEFINE new == [row EXCEPT !.status = "processed"]
    <3>1. /\ new \in RowType /\ new.id = row.id /\ new.text = row.text
          /\ new.offsets = row.offsets /\ new.failures = row.failures
          /\ new.status = "processed"
      BY <1>1 DEF RowType, Statuses
    <3>2. row' = new /\ Updates(a, new)
      BY <2>2 DEF Updates
    <3> HIDE DEF new
    <3>3. /\ Others(a) /\ Sane(act[a])' /\ act'[a].id \in {0, act[a].id}
          /\ act'[a].op # "retrieve" /\ act'[a].pc # "offsets"
          /\ act'[a].op = "decompose"
               => act'[a].pc = "read" /\ act'[a].todo = act[a].todo
      BY <1>1, <2>1, Over
    <3>4. ASSUME ~crossed PROVE Recorded' /\ InHand(a)'
      <4>1. Recorded /\ InHand(a)
        BY <3>4 DEF SourceInv, Coverage
      <4>2. Recorded'
        BY <1>1, <2>2, <3>1, <3>2, <4>1 DEF Recorded, CoveredBut
      <4>3. InHand(a)'
        BY <1>1, <2>1, <3>1, <3>2, <3>3, <4>1, IdleType, EndsIn
           DEF InHand, Reading, At
      <4> QED
        BY <4>2, <4>3
    <3> QED
      BY <1>1, <1>4, <3>1, <3>2, <3>3, <3>4
  <2>3. CASE Misses(a) /\ UNCHANGED waived
    BY <1>2, <2>1, <2>3
  <2> QED
    BY <1>9, <2>2, <2>3 DEF WaiveExtraction
<1> QED
  BY <1>5, <1>7, <1>8, <1>9

-----------------------------------------------------------------------------
(* Steps that make or delete the row                                       *)

LEMMA NewRowType ==
  ASSUME Types, NEW s \in {"pending", "fetched", "fetching"}
  PROVE  /\ NewRow(s) \in RowType /\ NewRow(s).id = made + 1
         /\ NewRow(s).status = s /\ NewRow(s).text = 0
         /\ NewRow(s).failures = {}
<1> DEFINE x == [NoRow EXCEPT !.id = made + 1]
           y == [x EXCEPT !.status = s]
<1>1. made + 1 \in Nat
  BY DEF Types
<1>2. /\ x \in RowType /\ x.id = made + 1 /\ x.text = 0 /\ x.failures = {}
  BY <1>1 DEF NoRow, RowType, Statuses, Texts
<1>3. /\ y \in RowType /\ y.id = made + 1 /\ y.text = 0 /\ y.failures = {}
      /\ y.status = s
  BY <1>2 DEF RowType, Statuses
<1>4. NewRow(s) = y
  BY DEF NewRow
<1> QED
  BY <1>3, <1>4

LEMMA RowReplaced ==
  ASSUME SourceInv, NEW a \in Actors, Others(a), Sane(act[a])',
         act'[a].op # "decompose", act'[a].id \in 0..made',
         \/ row' = NoRow /\ made' = made
         \/ /\ made' = made + 1 /\ made < MaxRows
            /\ \E s \in {"pending", "fetched", "fetching"} :
                  row' = NewRow(s) /\ (s = "fetching" => Fetching(a)'),
         UNCHANGED <<url, crossed, faults, failed>>,
         extracted' \subseteq extracted, lost' \subseteq lost,
         UNCHANGED overlapped \/ overlapped' = TRUE,
         InCore(a)' /\ ~overlapped'
           => \A o \in Actors \ {a} : ~InCore(o),
         asked' \in 0..MaxRequests
  PROVE  SourceInv'
<1>1. /\ Types /\ made \in Nat /\ faults \in 0..MaxFaults /\ MaxRows \in Nat
      /\ extracted \cup lost \subseteq Editions \X AllChunks
      /\ failed \in BOOLEAN /\ crossed \in BOOLEAN /\ overlapped \in BOOLEAN
      /\ made <= MaxRows
  BY BoundsAssumption DEF SourceInv, Types, TypeOK
<1>2. /\ row' \in RowType /\ row'.text = 0 /\ row'.failures = {}
      /\ row'.id \in {0, made + 1} /\ row'.id \in 0..made'
      /\ row'.status \in {"none", "pending", "fetched", "fetching"}
      /\ (row'.id = 0) = (row'.status = "none")
      /\ (row'.id = 0 => row' = NoRow)
      /\ (row'.status = "fetching" => Fetching(a)')
  <2>1. CASE row' = NoRow /\ made' = made
    BY <1>1, <2>1 DEF NoRow, RowType, Statuses, Texts
  <2>2. ASSUME NEW s \in {"pending", "fetched", "fetching"}, row' = NewRow(s),
               s = "fetching" => Fetching(a)', made' = made + 1
        PROVE  /\ row' \in RowType /\ row'.text = 0 /\ row'.failures = {}
               /\ row'.id = made + 1 /\ row'.status = s
    BY <1>1, <2>2, NewRowType
  <2> QED
    BY <1>1, <2>1, <2>2
<1>3. Types'
  <2>1. overlapped' \in BOOLEAN
    BY <1>1
  <2>2. made' \in {made, made + 1}
    OBVIOUS
  <2>3. made' <= MaxRows
    BY <1>1
  <2> QED
    BY <1>1, <1>2, <2>1, <2>2, <2>3, TypeStep
<1>4. Coverage'
  <2>1. \A o \in Actors \ {a} : ~Found(o)'
    BY <1>1, <1>2 DEF Types, TypeOK, Others, Found
  <2>2. \A o \in Actors : InHand(o)'
    BY <1>2, <2>1 DEF InHand, Reading, At, Found
  <2>3. Recorded'
    BY <1>2 DEF Recorded
  <2> QED
    BY <2>2, <2>3 DEF Coverage
<1>5. Outcome'
  BY <1>2 DEF Outcome
<1>6. Sentences'
  <2> SUFFICES ASSUME ~overlapped' PROVE Sentences'
    BY DEF Sentences
  <2>1. \A o, p \in Actors : InCore(o) /\ InCore(p) => o = p
    BY DEF SourceInv, Sentences
  <2>2. \A o \in Actors \ {a} : InCore(o)' <=> InCore(o)
    BY DEF Others, InCore
  <2>3. \A o, p \in Actors : InCore(o)' /\ InCore(p)' => o = p
    <3>1. CASE InCore(a)'
      BY <2>2, <3>1 DEF InCore, Core
    <3>2. CASE ~InCore(a)'
      BY <2>1, <2>2, <3>2 DEF InCore, Core
    <3> QED
      BY <3>1, <3>2
  <2> QED
    BY <1>2, <2>3 DEF Sentences, HasSentences
<1> QED
  BY <1>3, <1>4, <1>5, <1>6 DEF SourceInv

LEMMA RowsInv ==
  ASSUME SourceInv, NEW a \in Actors, asked' \in 0..MaxRequests,
         CreateSource(a) \/ UploadSource(a) \/ DeleteSource(a)
  PROVE  SourceInv'
<1>1. /\ Types /\ act[a] = Idle /\ made \in Nat /\ act \in [Actors -> ActType]
      /\ UNCHANGED <<url, crossed, faults, failed, overlapped>>
  BY DEF CreateSource, UploadSource, DeleteSource, Asks, Fine, SourceInv, Types
<1>2. CASE CreateSource(a) \/ DeleteSource(a)
  <2>1. act' = act
    BY <1>2 DEF CreateSource, DeleteSource
  <2>2. Others(a) /\ act'[a] = Idle
    BY <1>1, <2>1 DEF Others
  <2>3. /\ Sane(act[a])' /\ act'[a].op # "decompose" /\ ~InCore(a)'
        /\ act'[a].id = 0 /\ ~Fetching(a)'
    BY <2>2, IdleType DEF Sane, InCore, Fetching
  <2>4. CASE CreateSource(a)
    <3>1. /\ row' = NewRow("pending") /\ made' = made + 1 /\ made < MaxRows
          /\ extracted' = extracted /\ lost' = lost
      BY <2>4 DEF CreateSource
    <3>2. act'[a].id \in 0..made'
      BY <1>1, <2>3, <3>1
    <3> QED
      BY <1>1, <2>2, <2>3, <3>1, <3>2, RowReplaced
  <2>5. CASE DeleteSource(a)
    <3>1. row' = NoRow /\ made' = made /\ extracted' = {} /\ lost' = {}
      BY <2>5 DEF DeleteSource
    <3>2. act'[a].id \in 0..made'
      BY <1>1, <2>3, <3>1
    <3> QED
      BY <1>1, <2>2, <2>3, <3>1, <3>2, RowReplaced
  <2> QED
    BY <1>2, <2>4, <2>5
<1>3. CASE UploadSource(a)
  <2> DEFINE x == [Idle EXCEPT !.op = "upload", !.pc = "parse", !.id = made + 1,
                               !.page = 1]
  <2>1. /\ url = "upload" /\ made < MaxRows /\ act' = [act EXCEPT ![a] = x]
        /\ row' = NewRow("fetched") /\ made' = made + 1
        /\ extracted' = extracted /\ lost' = lost
    BY <1>3 DEF UploadSource, Asks, Becomes
  <2>2. "upload" \in Ops /\ "parse" \in Pcs /\ 1 \in Texts /\ made + 1 \in Nat
        /\ "parse" \in PcsOf["upload"]
    BY <1>1, BoundsAssumption DEF Ops, Pcs, PcsOf, Core, Texts, Editions
  <2>3. /\ x \in ActType /\ x.op = "upload" /\ x.pc = "parse" /\ x.id = made + 1
        /\ x.page = 1 /\ x.bad = {} /\ x.todo = {}
    BY <2>2, IdleType DEF Idle, ActType
  <2> HIDE DEF x
  <2>4. Others(a) /\ act'[a] = x
    BY <1>1, <2>1, <2>3 DEF Others
  <2>5. /\ Sane(act[a])' /\ act'[a].op # "decompose" /\ ~InCore(a)'
    BY <1>1, <2>1, <2>2, <2>3, <2>4 DEF Sane, InCore
  <2>6. act'[a].id \in 0..made'
    BY <1>1, <2>1, <2>3, <2>4
  <2> QED
    BY <1>1, <2>1, <2>4, <2>5, <2>6, RowReplaced
<1> QED
  BY <1>2, <1>3

LEMMA CreateOrLookupInv ==
  ASSUME SourceInv, NEW a \in Actors, asked' \in 0..MaxRequests,
         CreateOrLookup(a)
  PROVE  SourceInv'
<1>1. /\ Types /\ act[a] \in ActType /\ Sane(act[a]) /\ made \in Nat
      /\ act[a].op = "retrieve" /\ act[a].pc \in {"import", "error", "create"}
      /\ UNCHANGED <<url, extracted, lost, waived, crossed>>
      /\ overlapped' = (overlapped \/ \E o \in Actors \ {a} : Persists(o))
      /\ overlapped \in BOOLEAN /\ row.id \in 0..made /\ row.id \in Nat
  BY DEF SourceInv, Types, TypeOK, RowType, CreateOrLookup
<1>2. UNCHANGED overlapped \/ overlapped' = TRUE
  BY <1>1
<1>3. ~overlapped' => \A o \in Actors \ {a} : ~InCore(o)
  BY <1>1 DEF Persists, InCore, Core
<1>4. CASE /\ Fault /\ UNCHANGED <<row, made>>
           /\ IF act[a].pc = "import" THEN Goes(a, "page") ELSE NotPersisted(a)
  <2>1. RowStays /\ failed'
    BY <1>1, <1>2, <1>4 DEF RowStays, Fault
  <2>2. CASE Goes(a, "page")
    <3>1. "page" \in PcsOf[act[a].op]
      BY <1>1 DEF PcsOf, Early
    <3> QED
      BY <1>1, <1>4, <2>1, <2>2, <3>1, GoesInv
  <2>3. CASE Ends(a)
    BY <1>4, <2>1, <2>3, EndsInv
  <2>4. CASE Errs(a)
    BY <1>1, <1>4, <2>1, <2>4, ErrsInv
  <2> QED
    BY <1>4, <2>2, <2>3, <2>4 DEF NotPersisted
<1>5. CASE /\ row.id # 0 \/ made < MaxRows
           /\ row' = IF row.id = 0 THEN NewRow("fetching") ELSE row
           /\ made' = IF row.id = 0 THEN made + 1 ELSE made
           /\ act' = [act EXCEPT ![a].pc = After(@), ![a].id = row'.id]
           /\ Fine
  <2> DEFINE pc == After(act[a].pc)
  <2>1. pc \in {"imported", "unfetched", "mark"} /\ pc \in PcsOf["retrieve"]
        /\ pc \in Pcs
    BY <1>1 DEF After, PcsOf, Core, Ending, Pcs, Ops
  <2> HIDE DEF pc
  <2>2. row'.id \in Nat
    BY <1>1, <1>5, NewRowType
  <2>3. act' = [act EXCEPT ![a] = [act[a] EXCEPT !.pc = pc, !.id = row'.id]]
    BY <1>5 DEF pc
  <2>4. /\ Others(a)
        /\ act'[a].op = "retrieve" /\ act'[a].pc = pc /\ act'[a].id = row'.id
        /\ act'[a].todo = act[a].todo /\ act'[a].bad = act[a].bad
    BY <1>1, <2>1, <2>2, <2>3 DEF Types, Others, ActType
  <2>5. /\ Sane(act[a])' /\ InHand(a)' /\ act'[a].pc # "offsets"
    BY <1>1, <2>1, <2>4 DEF Sane, InHand, Reading, At
  <2>6. row'.id # 0 => Fetching(a)' /\ Rewrites(a)'
    BY <2>1, <2>4 DEF Fetching, Rewrites, Found, Core, Ending
  <2>7. CASE row.id = 0
    <3>1. row' = NewRow("fetching") /\ made' = made + 1 /\ made < MaxRows
      BY <1>5, <2>7
    <3>2. row'.id = made + 1
      BY <1>1, <3>1, NewRowType
    <3>3. act'[a].id \in 0..made' /\ Fetching(a)'
      BY <1>1, <2>4, <2>6, <3>1, <3>2
    <3> QED
      BY <1>1, <1>2, <1>3, <1>5, <2>4, <2>5, <3>1, <3>3, RowReplaced DEF Fine
  <2>8. CASE row.id # 0
    <3>1. UNCHANGED <<row, made>> /\ act'[a].id \in 0..made
      BY <1>1, <1>5, <2>4, <2>8
    <3>2. Fetching(a)' /\ Rewrites(a)'
      BY <2>6, <2>8, <3>1
    <3>3. faults' \in 0..MaxFaults
      BY <1>1, <1>5, FaultType
    <3> QED
      BY <1>1, <1>2, <1>3, <1>5, <2>4, <2>5, <3>1, <3>2, <3>3, RowAlone
  <2> QED
    BY <2>7, <2>8
<1> QED
  BY <1>4, <1>5 DEF CreateOrLookup

-----------------------------------------------------------------------------
LEMMA InitInv == Init => SourceInv
<1> SUFFICES ASSUME Init PROVE SourceInv
  OBVIOUS
<1>1. \A a \in Actors : act[a] = Idle
  BY DEF Init
<1>2. Types
  <2>1. NoRow \in RowType /\ NoRow.id = 0 /\ NoRow.status = "none"
        /\ NoRow.text = 0
    BY DEF NoRow, RowType, Statuses, Texts
  <2>2. TypeOK
    <3>1. \A a \in Actors : /\ act[a].bad \subseteq act[a].todo
                            /\ act[a].todo \subseteq AllChunks
                            /\ act[a].id \in 0..made /\ act[a].page \in Texts
      BY <1>1, IdleType DEF Init, Sane, ActType
    <3> QED
      BY <2>1, <3>1, BoundsAssumption DEF Init, TypeOK, RowType
  <2> QED
    BY <1>1, <2>1, <2>2, IdleType DEF Init, Types, Sane
<1>3. Coverage /\ Outcome /\ Sentences
  <2>1. row.status = "none" /\ row.text = 0 /\ row.failures = {}
    BY DEF Init, NoRow
  <2>2. \A a \in Actors : InHand(a) /\ ~InCore(a)
    BY <1>1, IdleType DEF InHand, Reading, At, InCore
  <2> QED
    BY <2>1, <2>2 DEF Coverage, Recorded, Outcome, Sentences, HasSentences
<1> QED
  BY <1>2, <1>3 DEF SourceInv

LEMMA NextInv == SourceInv /\ [Next]_vars => SourceInv'
<1> SUFFICES ASSUME SourceInv, [Next]_vars PROVE SourceInv'
  OBVIOUS
<1>1. CASE UNCHANGED vars
  <2> USE <1>1 DEF vars
  <2>1. Types'
    BY DEF SourceInv, Types, TypeOK, Sane
  <2>2. Coverage'
    BY DEF SourceInv, Coverage, Recorded, InHand, Reading, Found, At, CoveredBut
  <2>3. Outcome'
    BY DEF SourceInv, Outcome, Fetching, Found
  <2>4. Sentences'
    BY DEF SourceInv, Sentences, InCore, Rewrites, Found
  <2> QED
    BY <2>1, <2>2, <2>3, <2>4 DEF SourceInv
<1>2. asked \in 0..MaxRequests /\ MaxRequests \in Nat
  BY BoundsAssumption DEF SourceInv, Types, TypeOK
<1>3. ASSUME NEW a \in Actors, asked < MaxRequests, asked' = asked + 1, Requests(a)
      PROVE  SourceInv'
  <2>1. asked' \in 0..MaxRequests
    BY <1>2, <1>3
  <2> QED
    BY <1>3, <2>1, RequestInv, RowsInv, RetrySourceInv DEF Requests
<1>4. ASSUME NEW a \in Actors, Runs(a) \/ Dies(a), UNCHANGED asked
      PROVE  SourceInv'
  <2>1. asked' \in 0..MaxRequests
    BY <1>2, <1>4
  <2> QED
    BY <1>4, <2>1, MarksInv, EnqueueRetryInv, FetchInv, CreateOrLookupInv, TextsInv,
       OffsetsInv, ChainInv, ReadInv, ExtractInv, RecordInv, DiesInv DEF Runs
<1> QED
  BY <1>1, <1>3, <1>4 DEF Next

LEMMA SourceInvariant == Spec => []SourceInv
BY InitInv, NextInv, PTL DEF Spec

(* Every variable keeps its type: a row exists exactly when it has a       *)
(* status, and what a decomposition has seen fail is of what it was to do. *)
THEOREM SourceTypes == Spec => []TypeOK
<1>1. SourceInv => TypeOK
  BY DEF SourceInv, Types
<1> QED
  BY <1>1, SourceInvariant, PTL

(* However many jobs run side by side on a source, whole or partial, and   *)
(* whichever of them die: a source counts as processed only when every     *)
(* chunk of its text has been, unless the text was replaced under them or  *)
(* the last of them had no fact extractor (source_decomposition.go,        *)
(* MarkSourceProcessed).                                                   *)
THEOREM ProcessedIsWhole == Spec => []ProcessedWholly
<1>1. SourceInv => ProcessedWholly
  <2> SUFFICES ASSUME SourceInv, row.status = "processed", ~waived, ~crossed
               PROVE  {row.text} \X ChunksIn(row.text) \subseteq extracted \cup lost
    BY DEF ProcessedWholly
  <2>1. CoveredBut({})
    BY DEF SourceInv, Coverage, Recorded
  <2> QED
    BY <2>1 DEF CoveredBut, ChunksIn
<1> QED
  BY <1>1, SourceInvariant, PTL

(* When no job is left, no statement having failed, the fetch of every     *)
(* source has an outcome, whichever workers died (retrieve_source.go).     *)
THEOREM EveryFetchEnds == Spec => []FetchEnds
<1>1. SourceInv => FetchEnds
  BY DEF SourceInv, Outcome, Fetching, FetchEnds, Quiet
<1> QED
  BY <1>1, SourceInvariant, PTL

(* And the offsets of its sentences are those of its text, unless two jobs *)
(* were persisting what they fetched at a time (retrieve_source.go,        *)
(* persistParsedContent).                                                  *)
THEOREM OffsetsMatch == Spec => []SentencesMatch
<1>1. SourceInv => SentencesMatch
  <2> SUFFICES ASSUME SourceInv, Quiet, ~failed, ~overlapped,
                      HasSentences(row.text)
               PROVE  row.offsets = row.text
    BY DEF SentencesMatch
  <2>1. \A a \in Actors : act[a].op = "idle" /\ act[a].pc # "offsets"
    BY DEF SourceInv, Types, Sane, PcsOf, Quiet
  <2> QED
    BY <2>1 DEF SourceInv, Sentences, Rewrites
<1> QED
  BY <1>1, SourceInvariant, PTL
=============================================================================
