--------------------------- MODULE RoleStoreProofs ---------------------------
(* Theorems about RoleStore, for any users, groups and requests, and any   *)
(* number of faults.                                                       *)
EXTENDS RoleStore, TLAPS

Ops == {"idle", "add", "remove", "grant", "revoke", "assign", "unassign",
        "delgroup", "deluser", "enforce"}

Writing == {"store", "remember", "save"}
HasLink == {"lock"} \cup Writing

(* What a request is about, as far as its steps refer to it.               *)
RequestType == [op : Ops, pc : Pcs, user : Users \cup {Nobody},
                group : Groups \cup {Nobody}, links : SUBSET Links,
                link : Links \cup {<<Nobody, Nobody>>}]

Whom(r) ==
  /\ r.op = "idle" => r.pc = "idle"
  /\ r.op \in {"add", "remove"} => r.user \in Users /\ r.group \in Groups
  /\ r.op \in {"grant", "revoke"} => r.group \in Groups
  /\ r.op \in {"assign", "unassign"} => r.user \in Users
  /\ r.pc = "row" => r.op \in {"add", "remove"}
  /\ r.pc = "link" => r.op \in {"add", "remove", "grant", "revoke",
                                "assign", "unassign"}
  /\ r.pc \in HasLink => r.link \in Links

(* While a request waits for the lock or has it for writing, no other      *)
(* does: those that come later stay at their own step.                     *)
OneWriter ==
  /\ \A t \in Requests : lock[t] = "waits" => req[t].pc = "lock"
  /\ \A t, o \in Requests :
        lock[t] \in {"waits", "writes"} /\ lock[o] \in {"waits", "writes"}
           => t = o

(* The table is ahead of memory between the adapter's statement and the    *)
(* change of the model, by the one link, and never else.                   *)
Ahead ==
  /\ (\A t \in Requests : req[t].pc # "remember") => table = memory
  /\ \A t \in Requests : req[t].pc = "remember" => table = With(t, memory)

RoleInv ==
  /\ TypeOK
  /\ req \in [Requests -> RequestType]
  /\ lock \in [Requests -> {"none", "reads", "waits", "writes"}]
  /\ failed \in BOOLEAN /\ overlapped \in BOOLEAN
  /\ \A t \in Requests : Whom(req[t])
  /\ OneWriter
  /\ Ahead

-----------------------------------------------------------------------------
(* One request moves, and the others stay where they are.                  *)
LEMMA IdleType == Idle \in RequestType /\ Whom(Idle)
BY DEF Idle, RequestType, Whom, Ops, Pcs, HasLink, Writing

LEMMA IdleWrites == Idle.pc \notin Writing /\ Idle.pc = "idle" /\ Whom(Idle)
BY IdleType DEF Idle, Writing

LEMMA GoesTo ==
  ASSUME RoleInv, NEW t \in Requests, NEW pc \in Pcs, Goes(t, pc)
  PROVE  /\ req' \in [Requests -> RequestType]
         /\ req'[t].pc = pc
         /\ req'[t].op = req[t].op /\ req'[t].link = req[t].link
         /\ req'[t].user = req[t].user /\ req'[t].group = req[t].group
         /\ req'[t].links = req[t].links
         /\ \A o \in Requests \ {t} : req'[o] = req[o]
BY DEF RoleInv, Goes, RequestType

LEMMA EndsIn ==
  ASSUME RoleInv, NEW t \in Requests, Ends(t)
  PROVE  /\ req' \in [Requests -> RequestType]
         /\ req'[t] = Idle
         /\ \A o \in Requests \ {t} : req'[o] = req[o]
BY IdleType DEF RoleInv, Ends

LEMMA FaultType ==
  ASSUME RoleInv, Fault \/ NoFault \/ faults' = faults
  PROVE  faults' \in 0..MaxFaults
BY BoundsAssumption DEF RoleInv, TypeOK, Fault, NoFault

-----------------------------------------------------------------------------
(* Steps that leave the links alone                                        *)

(* What is left to show of a step of t that touches neither the links nor  *)
(* the lock.                                                               *)
LEMMA LinksAlone ==
  ASSUME RoleInv, NEW t \in Requests,
         UNCHANGED <<table, memory, lock>>,
         req' \in [Requests -> RequestType],
         \A o \in Requests \ {t} : req'[o] = req[o],
         req[t].pc \notin HasLink, req'[t].pc \notin Writing, Whom(req'[t]),
         users' \subseteq Users, groups' \subseteq Groups,
         members' \subseteq users' \X groups',
         faults' \in 0..MaxFaults,
         failed' \in BOOLEAN, overlapped' \in BOOLEAN
  PROVE  RoleInv'
<1> USE DEF RoleInv, HasLink
<1>1. TypeOK'
  <2>1. \A o \in Requests : /\ req'[o].pc \in Pcs
                            /\ req'[o].links \subseteq Links
    BY DEF RequestType
  <2>2. \A o \in Requests :
           (lock'[o] = "writes") = (req'[o].pc \in {"store", "remember", "save"})
    BY DEF TypeOK, Writing
  <2> QED
    BY <2>1, <2>2 DEF TypeOK
<1>2. \A o \in Requests : Whom(req'[o])
  OBVIOUS
<1>3. OneWriter'
  BY DEF OneWriter
<1>4. Ahead'
  <2>1. \A o \in Requests :
           (req'[o].pc = "remember") = (req[o].pc = "remember")
    BY DEF HasLink, Writing
  <2>2. \A o \in Requests : req[o].pc = "remember" => req'[o] = req[o]
    BY DEF HasLink, Writing
  <2> QED
    BY <2>1, <2>2 DEF Ahead, With, Adds
<1> QED
  BY <1>1, <1>2, <1>3, <1>4

(* A request as Begin makes it.                                            *)
Begun(op, pc, u, g) ==
  [Idle EXCEPT !.op = op, !.pc = pc, !.user = u, !.group = g]

LEMMA New ==
  ASSUME NEW op \in Ops, NEW pc \in Pcs, NEW u \in Users \cup {Nobody},
         NEW g \in Groups \cup {Nobody}
  PROVE  /\ Begun(op, pc, u, g) \in RequestType
         /\ Begun(op, pc, u, g).op = op /\ Begun(op, pc, u, g).pc = pc
         /\ Begun(op, pc, u, g).user = u /\ Begun(op, pc, u, g).group = g
<1> DEFINE a == [Idle EXCEPT !.op = op]
           b == [a EXCEPT !.pc = pc]
           c == [b EXCEPT !.user = u]
           d == [c EXCEPT !.group = g]
<1>1. a \in RequestType /\ a.op = op
  BY IdleType DEF RequestType
<1>2. b \in RequestType /\ b.op = op /\ b.pc = pc
  BY <1>1 DEF RequestType
<1>3. c \in RequestType /\ c.op = op /\ c.pc = pc /\ c.user = u
  BY <1>2 DEF RequestType
<1>4. /\ d \in RequestType
      /\ d.op = op /\ d.pc = pc /\ d.user = u /\ d.group = g
  BY <1>3 DEF RequestType
<1>5. Begun(op, pc, u, g) = d
  BY DEF Begun
<1> HIDE DEF d
<1> QED
  BY <1>4, <1>5

LEMMA BeginInv ==
  ASSUME RoleInv, NEW t \in Requests,
         NEW op \in Ops \ {"idle"}, NEW u \in Users \cup {Nobody},
         NEW g \in Groups \cup {Nobody},
         NEW pc \in {"row", "link", "members", "links", "outer"},
         op \in {"add", "remove"} => u \in Users /\ g \in Groups,
         op \in {"grant", "revoke"} => g \in Groups,
         op \in {"assign", "unassign"} => u \in Users,
         pc = "row" => op \in {"add", "remove"},
         pc = "link" => op \in {"grant", "revoke", "assign", "unassign"},
         Begin(t, op, u, g, pc)
  PROVE  RoleInv'
<1> DEFINE new == Begun(op, pc, u, g)
<1>1. /\ new \in RequestType /\ new.pc = pc
      /\ new.op = op /\ new.user = u /\ new.group = g
  <2>1. pc \in Pcs /\ op \in Ops
    BY DEF Pcs
  <2> QED
    BY <2>1, New
<1>2. Whom(new)
  <2> HIDE DEF new
  <2> QED
    BY <1>1 DEF Whom, HasLink, Writing
<1>3. req' = [req EXCEPT ![t] = new]
  BY DEF Begin, Begun
<1> HIDE DEF new
<1>4. /\ req' \in [Requests -> RequestType] /\ req'[t] = new
      /\ \A o \in Requests \ {t} : req'[o] = req[o]
  BY <1>1, <1>3 DEF RoleInv
<1>5. req[t].pc \notin HasLink
  <2>1. req[t].op = "idle"
    BY DEF Begin
  <2> QED
    BY <2>1 DEF RoleInv, Whom, HasLink, Writing
<1>6. req'[t].pc \notin Writing
  BY <1>1, <1>4 DEF Writing
<1>7. overlapped' \in BOOLEAN
  BY DEF Begin, RoleInv
<1> QED
  BY <1>2, <1>4, <1>5, <1>6, <1>7, LinksAlone
     DEF Begin, rows, RoleInv, TypeOK

LEMMA StartsInv ==
  ASSUME RoleInv, NEW t \in Requests, Starts(t)
  PROVE  RoleInv'
<1>1. ASSUME NEW u \in Users, NEW g \in Groups,
             AddMember(t, u, g) \/ RemoveMember(t, u, g)
      PROVE  RoleInv'
  BY <1>1, BeginInv DEF AddMember, RemoveMember, Ops
<1>2. ASSUME NEW g \in Groups,
             GrantRole(t, g) \/ RevokeRole(t, g) \/ DeleteGroup(t, g)
      PROVE  RoleInv'
  BY <1>2, BeginInv DEF GrantRole, RevokeRole, DeleteGroup, Ops
<1>3. ASSUME NEW u \in Users,
             \/ AssignRole(t, u) \/ RemoveRole(t, u)
             \/ DeleteUser(t, u) \/ Enforce(t, u)
      PROVE  RoleInv'
  BY <1>3, BeginInv DEF AssignRole, RemoveRole, DeleteUser, Enforce, Ops
<1> QED
  BY <1>1, <1>2, <1>3 DEF Starts

LEMMA LinkOfType ==
  ASSUME RoleInv, NEW t \in Requests, req[t].pc = "link"
  PROVE  LinkOf(t) \in Links
BY DEF RoleInv, Whom, LinkOf, Links, Memberships

LEMMA WriteRowInv ==
  ASSUME RoleInv, NEW t \in Requests, WriteRow(t)
  PROVE  RoleInv'
<1> DEFINE m == <<req[t].user, req[t].group>>
<1>1. req[t].op \in {"add", "remove"} /\ req[t].pc = "row"
  BY DEF WriteRow, RoleInv, Whom
<1>2. /\ users' = users /\ groups' = groups /\ overlapped' = overlapped
      /\ UNCHANGED <<table, memory, lock>>
  BY DEF WriteRow
<1>3. faults' \in 0..MaxFaults /\ failed' \in BOOLEAN
  BY FaultType DEF WriteRow, Fault, NoFault, RoleInv
<1>4. members' \subseteq users' \X groups'
  <2>1. CASE req[t].op = "remove"
    BY <1>2, <2>1 DEF WriteRow, RoleInv, TypeOK
  <2>2. CASE req[t].op # "remove"
    BY <1>2, <2>2 DEF WriteRow, RoleInv, TypeOK
  <2> QED
    BY <2>1, <2>2
<1>5. CASE Goes(t, "link")
  <2>1. /\ req' \in [Requests -> RequestType] /\ req'[t].pc = "link"
        /\ req'[t].op = req[t].op /\ req'[t].user = req[t].user
        /\ req'[t].group = req[t].group
        /\ \A o \in Requests \ {t} : req'[o] = req[o]
    BY <1>5, GoesTo DEF Pcs
  <2>2. Whom(req'[t])
    BY <1>1, <2>1 DEF Whom, RoleInv, HasLink, Writing
  <2> QED
    BY <1>1, <1>2, <1>3, <1>4, <2>1, <2>2, LinksAlone
       DEF RoleInv, TypeOK, HasLink, Writing
<1>6. CASE Ends(t)
  <2>1. /\ req' \in [Requests -> RequestType] /\ req'[t] = Idle
        /\ \A o \in Requests \ {t} : req'[o] = req[o]
    BY <1>6, EndsIn
  <2> QED
    BY <1>1, <1>2, <1>3, <1>4, <2>1, LinksAlone, IdleWrites
       DEF RoleInv, TypeOK, HasLink, Writing
<1> QED
  BY <1>5, <1>6 DEF WriteRow

LEMMA PlanInv ==
  ASSUME RoleInv, NEW t \in Requests,
         PlanLink(t) \/ ListMembers(t) \/ ListLinks(t)
  PROVE  RoleInv'
<1>1. PICK pc \in {"links", "next"}, links \in SUBSET Links :
         req' = [req EXCEPT ![t].pc = pc, ![t].links = links]
  <2>1. CASE PlanLink(t)
    BY <2>1, LinkOfType DEF PlanLink
  <2>2. CASE ListMembers(t)
    <3>1. MembersOf(t) \in SUBSET Links
      BY DEF MembersOf, RoleInv, TypeOK, Links, Memberships
    <3> QED
      BY <2>2, <3>1 DEF ListMembers
  <2>3. CASE ListLinks(t)
    <3> DEFINE found ==
          {l \in memory : IF req[t].op = "delgroup" THEN l[1] = req[t].group
                          ELSE l[1] = req[t].user /\ l[2] \in Groups}
    <3>1. req[t].links \cup found \in SUBSET Links
      BY DEF RoleInv, TypeOK
    <3>2. req' = [req EXCEPT ![t].pc = "next",
                             ![t].links = req[t].links \cup found]
      BY <2>3 DEF ListLinks, RoleInv, RequestType
    <3> QED
      BY <3>1, <3>2
  <2> QED
    BY <2>1, <2>2, <2>3
<1>2. /\ req' \in [Requests -> RequestType] /\ req'[t].pc = pc
      /\ req'[t].op = req[t].op
      /\ req'[t].user = req[t].user /\ req'[t].group = req[t].group
      /\ \A o \in Requests \ {t} : req'[o] = req[o]
  <2> DEFINE a == [req[t] EXCEPT !.pc = pc]
             b == [a EXCEPT !.links = links]
  <2>1. a \in RequestType /\ a.pc = pc /\ a.op = req[t].op
        /\ a.user = req[t].user /\ a.group = req[t].group
    BY DEF RoleInv, RequestType, Pcs
  <2>2. b \in RequestType /\ b.pc = pc /\ b.op = req[t].op
        /\ b.user = req[t].user /\ b.group = req[t].group
    BY <2>1 DEF RequestType
  <2>3. req' = [req EXCEPT ![t] = b]
    BY <1>1 DEF RoleInv
  <2> HIDE DEF b
  <2> QED
    BY <2>2, <2>3 DEF RoleInv
<1>3. Whom(req'[t])
  <2>1. Whom(req[t]) /\ req[t].op # "idle"
    BY DEF PlanLink, ListMembers, ListLinks, RoleInv, Whom
  <2> QED
    BY <1>2, <2>1 DEF Whom, HasLink, Writing
<1>4. UNCHANGED <<rows, table, memory, lock, failed, overlapped, faults>>
      /\ req[t].pc \notin HasLink
  BY DEF PlanLink, ListMembers, ListLinks, HasLink, Writing
<1> QED
  BY <1>2, <1>3, <1>4, LinksAlone DEF rows, RoleInv, TypeOK, Writing

LEMMA NextLinkInv ==
  ASSUME RoleInv, NEW t \in Requests, NEW l \in Links, NextLink(t, l)
  PROVE  RoleInv'
<1> DEFINE a == [req[t] EXCEPT !.pc = "lock"]
           b == [a EXCEPT !.link = l]
           c == [b EXCEPT !.links = req[t].links \ {l}]
<1>1. /\ a \in RequestType /\ a.pc = "lock" /\ a.op = req[t].op
      /\ a.user = req[t].user /\ a.group = req[t].group
  BY DEF RoleInv, RequestType, Pcs
<1>2. /\ b \in RequestType /\ b.pc = "lock" /\ b.op = req[t].op
      /\ b.user = req[t].user /\ b.group = req[t].group /\ b.link = l
  BY <1>1 DEF RequestType
<1>3. /\ c \in RequestType /\ c.pc = "lock" /\ c.op = req[t].op
      /\ c.user = req[t].user /\ c.group = req[t].group /\ c.link = l
  <2>1. req[t].links \ {l} \in SUBSET Links
    BY DEF RoleInv, RequestType
  <2> QED
    BY <1>2, <2>1 DEF RequestType
<1>4. req' = [req EXCEPT ![t] = c]
  BY DEF NextLink, RoleInv
<1> HIDE DEF c
<1>5. /\ req' \in [Requests -> RequestType] /\ req'[t] = c
      /\ \A o \in Requests \ {t} : req'[o] = req[o]
  BY <1>3, <1>4 DEF RoleInv
<1>6. Whom(c)
  <2>1. Whom(req[t]) /\ req[t].op # "idle"
    BY DEF NextLink, RoleInv, Whom
  <2> QED
    BY <1>3, <2>1 DEF Whom, HasLink, Writing
<1>7. UNCHANGED <<rows, table, memory, lock, failed, overlapped, faults>>
      /\ req[t].pc \notin HasLink
  BY DEF NextLink, HasLink, Writing
<1> QED
  BY <1>3, <1>5, <1>6, <1>7, LinksAlone DEF rows, RoleInv, TypeOK, Writing

LEMMA FinishInv ==
  ASSUME RoleInv, NEW t \in Requests, Finish(t)
  PROVE  RoleInv'
<1>1. /\ req' \in [Requests -> RequestType] /\ req'[t] = Idle
      /\ \A o \in Requests \ {t} : req'[o] = req[o]
  BY EndsIn DEF Finish
<1>2. /\ UNCHANGED <<table, memory, lock, overlapped>>
      /\ req[t].pc \notin HasLink
  BY DEF Finish, HasLink, Writing
<1>3. faults' \in 0..MaxFaults /\ failed' \in BOOLEAN
  BY FaultType DEF Finish, Fault, NoFault, RoleInv
<1>4. /\ users' \subseteq Users /\ groups' \subseteq Groups
      /\ members' \subseteq users' \X groups'
  BY DEF Finish, Cascaded, rows, RoleInv, TypeOK
<1> QED
  BY <1>1, <1>2, <1>3, <1>4, LinksAlone, IdleWrites DEF RoleInv

-----------------------------------------------------------------------------
(* Steps of the lock                                                       *)

(* What is left to show of a step by which t comes to the lock, reads      *)
(* behind it or waits for it.                                              *)
LEMMA NotWriting ==
  ASSUME RoleInv, NEW t \in Requests, NEW s \in {"none", "reads", "waits"},
         lock' = [lock EXCEPT ![t] = s],
         s = "waits" => Readable /\ req'[t].pc = "lock",
         UNCHANGED <<rows, table, memory, failed, overlapped, faults>>,
         req' \in [Requests -> RequestType],
         \A o \in Requests \ {t} : req'[o] = req[o],
         req[t].pc \notin Writing, req'[t].pc \notin Writing, Whom(req'[t])
  PROVE  RoleInv'
<1> USE DEF RoleInv
<1>1. /\ lock' \in [Requests -> {"none", "reads", "waits", "writes"}]
      /\ lock'[t] = s /\ \A o \in Requests \ {t} : lock'[o] = lock[o]
  OBVIOUS
<1>2. TypeOK'
  <2>1. \A o \in Requests : /\ req'[o].pc \in Pcs
                            /\ req'[o].links \subseteq Links
    BY DEF RequestType
  <2>2. \A o \in Requests :
           (lock'[o] = "writes") = (req'[o].pc \in {"store", "remember", "save"})
    BY <1>1 DEF TypeOK, Writing
  <2> QED
    BY <2>1, <2>2 DEF TypeOK, rows
<1>3. OneWriter'
  BY <1>1 DEF OneWriter, Readable
<1>4. Ahead'
  <2>1. \A o \in Requests :
           (req'[o].pc = "remember") = (req[o].pc = "remember")
    BY DEF Writing
  <2>2. \A o \in Requests : req[o].pc = "remember" => req'[o] = req[o]
    BY DEF Writing
  <2> QED
    BY <2>1, <2>2 DEF Ahead, With, Adds
<1>5. \A o \in Requests : Whom(req'[o])
  OBVIOUS
<1> QED
  BY <1>1, <1>2, <1>3, <1>4, <1>5

LEMMA ReaderInv ==
  ASSUME RoleInv, NEW t \in Requests,
         Wait(t) \/ EnterOuter(t) \/ EnterInner(t) \/ Decide(t)
  PROVE  RoleInv'
<1>1. CASE Wait(t)
  BY <1>1, NotWriting DEF Wait, Writing, RoleInv
<1>2. CASE EnterOuter(t)
  <2>1. /\ req' \in [Requests -> RequestType] /\ req'[t].pc = "inner"
        /\ req'[t].op = req[t].op /\ req'[t].user = req[t].user
        /\ req'[t].group = req[t].group
        /\ \A o \in Requests \ {t} : req'[o] = req[o]
    BY <1>2, GoesTo DEF EnterOuter, Pcs
  <2>2. Whom(req'[t])
    BY <1>2, <2>1 DEF EnterOuter, RoleInv, Whom, HasLink, Writing
  <2> QED
    BY <1>2, <2>1, <2>2, NotWriting DEF EnterOuter, RLock, Writing
<1>3. CASE EnterInner(t)
  <2>1. /\ req' \in [Requests -> RequestType] /\ req'[t].pc = "decide"
        /\ req'[t].op = req[t].op /\ req'[t].user = req[t].user
        /\ req'[t].group = req[t].group
        /\ \A o \in Requests \ {t} : req'[o] = req[o]
    BY <1>3, GoesTo DEF EnterInner, Pcs
  <2>2. Whom(req'[t])
    BY <1>3, <2>1 DEF EnterInner, RoleInv, Whom, HasLink, Writing
  <2> QED
    BY <1>3, <2>1, <2>2, LinksAlone
       DEF EnterInner, HasLink, Writing, rows, RoleInv, TypeOK
<1>4. CASE Decide(t)
  BY <1>4, EndsIn, IdleWrites, NotWriting DEF Decide, RUnlock, Writing
<1> QED
  BY <1>1, <1>2, <1>3, <1>4

(* The one that writes is at the link, and nobody else is.                 *)
LEMMA Writer ==
  ASSUME RoleInv, NEW t \in Requests, lock[t] \in {"waits", "writes"}
  PROVE  \A o \in Requests \ {t} : req[o].pc \notin Writing
BY DEF RoleInv, OneWriter, TypeOK, Writing

(* What is left to show of a step of the writer: where it goes, and what   *)
(* it leaves in the table and in memory.                                   *)
LEMMA WriterMoves ==
  ASSUME RoleInv, NEW t \in Requests, lock[t] \in {"waits", "writes"},
         NEW s \in {"none", "writes"}, lock' = [lock EXCEPT ![t] = s],
         UNCHANGED <<rows, overlapped>>,
         table' \subseteq Links, memory' \subseteq Links,
         faults' \in 0..MaxFaults, failed' \in BOOLEAN,
         req' \in [Requests -> RequestType],
         \A o \in Requests \ {t} : req'[o] = req[o],
         s = "writes" <=> req'[t].pc \in Writing, Whom(req'[t]),
         req'[t].pc = "remember" => table' = With(t, memory)',
         req'[t].pc # "remember" => table' = memory'
  PROVE  RoleInv'
<1> USE DEF RoleInv
<1>1. /\ lock' \in [Requests -> {"none", "reads", "waits", "writes"}]
      /\ lock'[t] = s /\ \A o \in Requests \ {t} : lock'[o] = lock[o]
  OBVIOUS
<1>2. TypeOK'
  <2>1. \A o \in Requests : /\ req'[o].pc \in Pcs
                            /\ req'[o].links \subseteq Links
    BY DEF RequestType
  <2>2. \A o \in Requests :
           (lock'[o] = "writes") = (req'[o].pc \in {"store", "remember", "save"})
    BY <1>1 DEF TypeOK, Writing
  <2> QED
    BY <2>1, <2>2 DEF TypeOK, rows
<1>3. OneWriter'
  BY <1>1 DEF OneWriter
<1>4. Ahead'
  <2>1. \A o \in Requests \ {t} : req'[o].pc # "remember"
    BY Writer DEF Writing
  <2> QED
    BY <2>1 DEF Ahead
<1>5. \A o \in Requests : Whom(req'[o])
  OBVIOUS
<1> QED
  BY <1>1, <1>2, <1>3, <1>4, <1>5

LEMMA AtLink ==
  ASSUME RoleInv, NEW t \in Requests, req[t].pc \in HasLink,
         NEW S \in SUBSET Links
  PROVE  req[t].link \in Links /\ With(t, S) \in SUBSET Links
BY DEF RoleInv, Whom, With

LEMMA InSync ==
  ASSUME RoleInv, NEW t \in Requests, lock[t] \in {"waits", "writes"},
         req[t].pc # "remember"
  PROVE  table = memory
BY Writer DEF RoleInv, Ahead, Writing

LEMMA FailInv ==
  ASSUME RoleInv, NEW t \in Requests, req[t].pc \in {"store", "save"}, Fail(t),
         UNCHANGED <<rows, table, memory, overlapped>>
  PROVE  RoleInv'
<1>1. /\ req' \in [Requests -> RequestType] /\ req'[t] = Idle
      /\ \A o \in Requests \ {t} : req'[o] = req[o]
  BY EndsIn DEF Fail
<1>2. faults' \in 0..MaxFaults /\ failed' \in BOOLEAN
  BY FaultType DEF Fail, Fault
<1>3. lock[t] = "writes" /\ table = memory
  BY InSync DEF RoleInv, TypeOK
<1>4. table' = memory' /\ req'[t].pc # "remember"
  BY <1>1, <1>3, IdleWrites
<1>5. /\ lock' = [lock EXCEPT ![t] = "none"]
      /\ table' \subseteq Links /\ memory' \subseteq Links
  BY DEF Fail, Unlock, RoleInv, TypeOK
<1>6. req'[t].pc \notin Writing /\ Whom(req'[t])
  BY <1>1, IdleWrites
<1> QED
  BY <1>1, <1>2, <1>3, <1>4, <1>5, <1>6, WriterMoves

LEMMA WriterInv ==
  ASSUME RoleInv, NEW t \in Requests,
         Lock(t) \/ Store(t) \/ Remember(t) \/ Save(t)
  PROVE  RoleInv'
<1>1. table \subseteq Links /\ memory \subseteq Links
      /\ faults \in 0..MaxFaults /\ failed \in BOOLEAN
  BY DEF RoleInv, TypeOK
<1>2. ASSUME NEW pc \in {"store", "remember", "save", "next"}, Goes(t, pc),
             req[t].pc \in HasLink
      PROVE  /\ req' \in [Requests -> RequestType] /\ req'[t].pc = pc
             /\ Whom(req'[t])
             /\ \A o \in Requests \ {t} : req'[o] = req[o]
             /\ Adds(t)' = Adds(t) /\ req'[t].link = req[t].link
  <2>1. pc \in Pcs
    BY DEF Pcs
  <2>2. /\ req' \in [Requests -> RequestType]
        /\ req'[t].pc = pc
        /\ req'[t].op = req[t].op /\ req'[t].link = req[t].link
        /\ req'[t].user = req[t].user /\ req'[t].group = req[t].group
        /\ \A o \in Requests \ {t} : req'[o] = req[o]
    BY <1>2, <2>1, GoesTo
  <2>3. Whom(req[t]) /\ req[t].op # "idle" /\ req[t].link \in Links
    BY <1>2 DEF RoleInv, Whom, HasLink, Writing
  <2>4. Whom(req'[t])
    BY <2>2, <2>3 DEF Whom, HasLink, Writing
  <2> QED
    BY <2>2, <2>4 DEF Adds
<1>3. CASE Lock(t)
  <2>1. /\ lock[t] = "waits" /\ lock' = [lock EXCEPT ![t] = "writes"]
        /\ UNCHANGED <<rows, table, memory, failed, overlapped, faults>>
    BY <1>3 DEF Lock
  <2>2. req[t].pc = "lock" /\ table = memory
    BY <2>1, InSync DEF RoleInv, OneWriter
  <2>3. PICK pc \in {"store", "save"} : Goes(t, pc)
    BY <1>3 DEF Lock
  <2>4. /\ req' \in [Requests -> RequestType] /\ req'[t].pc = pc
        /\ Whom(req'[t]) /\ \A o \in Requests \ {t} : req'[o] = req[o]
    BY <1>2, <2>2, <2>3 DEF HasLink
  <2> QED
    BY <1>1, <2>1, <2>2, <2>4, WriterMoves DEF Writing
<1>4. CASE Store(t)
  <2>1. /\ req[t].pc = "store" /\ lock[t] = "writes" /\ table = memory
        /\ UNCHANGED <<rows, memory, overlapped>>
    BY <1>4, InSync DEF Store, RoleInv, TypeOK
  <2>2. CASE NoFault /\ table' = Stored(t) /\ Goes(t, "remember")
             /\ UNCHANGED lock
    <3>1. /\ req' \in [Requests -> RequestType] /\ req'[t].pc = "remember"
          /\ Whom(req'[t]) /\ \A o \in Requests \ {t} : req'[o] = req[o]
          /\ Adds(t)' = Adds(t) /\ req'[t].link = req[t].link
      BY <1>2, <2>1, <2>2 DEF HasLink, Writing
    <3>2. table' = With(t, memory) /\ table' \subseteq Links
      BY <1>1, <2>1, <2>2, AtLink DEF Stored, HasLink, Writing
    <3>3. With(t, memory)' = With(t, memory)
      BY <2>1, <3>1 DEF With
    <3>4. faults' \in 0..MaxFaults /\ failed' \in BOOLEAN
      BY <1>1, <2>2 DEF NoFault
    <3>5. lock' = [lock EXCEPT ![t] = "writes"]
      BY <2>1, <2>2 DEF RoleInv
    <3> QED
      BY <1>1, <2>1, <3>1, <3>2, <3>3, <3>4, <3>5, WriterMoves DEF Writing
  <2>3. CASE Fail(t) /\ UNCHANGED table
    BY <2>1, <2>3, FailInv
  <2> QED
    BY <1>4, <2>2, <2>3 DEF Store
<1>5. CASE Remember(t)
  <2>1. /\ req[t].pc = "remember" /\ lock[t] = "writes"
        /\ table = With(t, memory) /\ memory' = With(t, memory)
        /\ UNCHANGED <<rows, table, lock, failed, overlapped, faults>>
    BY <1>5 DEF Remember, RoleInv, TypeOK, Ahead
  <2>2. /\ req' \in [Requests -> RequestType] /\ req'[t].pc = "save"
        /\ Whom(req'[t]) /\ \A o \in Requests \ {t} : req'[o] = req[o]
    BY <1>2, <1>5, <2>1 DEF Remember, HasLink, Writing
  <2>3. memory' \subseteq Links
    BY <1>1, <2>1
  <2>4. lock' = [lock EXCEPT ![t] = "writes"]
    BY <2>1 DEF RoleInv
  <2> QED
    BY <1>1, <2>1, <2>2, <2>3, <2>4, WriterMoves DEF Writing
<1>6. CASE Save(t)
  <2>1. /\ req[t].pc = "save" /\ lock[t] = "writes" /\ table = memory
        /\ UNCHANGED <<rows, memory, overlapped>>
    BY <1>6, InSync DEF Save, RoleInv, TypeOK
  <2>2. CASE NoFault /\ table' = memory /\ Unlock(t) /\ Goes(t, "next")
    <3>1. /\ req' \in [Requests -> RequestType] /\ req'[t].pc = "next"
          /\ Whom(req'[t]) /\ \A o \in Requests \ {t} : req'[o] = req[o]
      BY <1>2, <2>1, <2>2 DEF HasLink, Writing
    <3>2. faults' \in 0..MaxFaults /\ failed' \in BOOLEAN
      BY <1>1, <2>2 DEF NoFault
    <3>3. /\ lock' = [lock EXCEPT ![t] = "none"]
          /\ req'[t].pc \notin Writing /\ req'[t].pc # "remember"
          /\ table' = memory' /\ table' \subseteq Links
          /\ memory' \subseteq Links
      BY <1>1, <2>1, <2>2, <3>1 DEF Unlock, Writing
    <3> QED
      BY <1>1, <2>1, <2>2, <3>1, <3>2, <3>3, WriterMoves
  <2>3. CASE Fail(t) /\ UNCHANGED table
    BY <2>1, <2>3, FailInv
  <2> QED
    BY <1>6, <2>2, <2>3 DEF Save
<1> QED
  BY <1>3, <1>4, <1>5, <1>6

LEMMA RestartInv ==
  ASSUME RoleInv, Restart
  PROVE  RoleInv'
<1>1. /\ req' = [t \in Requests |-> Idle] /\ lock' = [t \in Requests |-> "none"]
      /\ memory' = table /\ UNCHANGED <<rows, table, overlapped>>
  BY DEF Restart
<1>2. faults' \in 0..MaxFaults /\ failed' \in BOOLEAN
  BY FaultType DEF Restart, Fault
<1>3. req' \in [Requests -> RequestType] /\ \A t \in Requests : Whom(req'[t])
  BY <1>1, IdleType
<1>4. TypeOK'
  <2>1. Idle.pc = "idle" /\ Idle.links = {}
    BY DEF Idle
  <2> QED
    BY <1>1, <1>2, <2>1 DEF RoleInv, TypeOK, rows, Pcs
<1>5. OneWriter' /\ Ahead'
  BY <1>1, IdleWrites DEF OneWriter, Ahead
<1> QED
  BY <1>1, <1>2, <1>3, <1>4, <1>5 DEF RoleInv

-----------------------------------------------------------------------------
LEMMA InitInv == Init => RoleInv
<1> SUFFICES ASSUME Init PROVE RoleInv
  OBVIOUS
<1>1. Idle.pc = "idle" /\ Idle.links = {}
  BY DEF Idle
<1>2. TypeOK
  BY <1>1, BoundsAssumption DEF Init, TypeOK, Pcs
<1>3. OneWriter /\ Ahead
  BY <1>1 DEF Init, OneWriter, Ahead
<1> QED
  BY <1>2, <1>3, IdleType DEF Init, RoleInv

LEMMA NextInv == RoleInv /\ [Next]_vars => RoleInv'
<1> SUFFICES ASSUME RoleInv, [Next]_vars PROVE RoleInv'
  OBVIOUS
<1>1. CASE UNCHANGED vars
  BY <1>1 DEF vars, rows, RoleInv, TypeOK, OneWriter, Ahead, With, Adds
<1>2. ASSUME NEW t \in Requests, Runs(t)
      PROVE  RoleInv'
  BY <1>2, WriteRowInv, PlanInv, NextLinkInv, FinishInv, ReaderInv, WriterInv
     DEF Runs
<1> QED
  BY <1>1, <1>2, StartsInv, RestartInv DEF Next

LEMMA RoleInvariant == Spec => []RoleInv
BY InitInv, NextInv, PTL DEF Spec

(* Every variable keeps its type, and a request is between the adapter's   *)
(* statement and SavePolicy exactly while it has the lock for writing.     *)
THEOREM RoleTypes == Spec => []TypeOK
<1>1. RoleInv => TypeOK
  BY DEF RoleInv
<1> QED
  BY <1>1, RoleInvariant, PTL

(* Whenever nobody has the lock for writing, a restart would load what     *)
(* memory has, whichever statements failed: the table is ahead of memory   *)
(* by one link at most, and only inside of the lock.                       *)
THEOREM RestartLoadsMemory == Spec => []TableFollowsMemory
<1>1. RoleInv => TableFollowsMemory
  BY DEF RoleInv, TypeOK, Ahead, TableFollowsMemory
<1> QED
  BY <1>1, RoleInvariant, PTL
-----------------------------------------------------------------------------
(* The rows and the links, while nothing has failed or overlapped          *)

Busy(r) == r.op \notin {"idle", "enforce"}

(* The links a request may change.                                         *)
About(r, l) ==
  \/ r.op \in {"add", "remove"} /\ l = <<r.user, r.group>>
  \/ r.op \in {"grant", "revoke"} /\ l = <<r.group, Role>>
  \/ r.op \in {"assign", "unassign"} /\ l = <<r.user, Role>>
  \/ r.op = "delgroup" /\ (l[1] = r.group \/ l[2] = r.group)
  \/ r.op = "deluser" /\ l[1] = r.user /\ l[2] \in Groups

(* ... and those of them it has yet to change in memory.                   *)
Pending(r, l) ==
  \/ r.pc = "link" \/ l \in r.links
  \/ r.pc \in {"lock", "store", "remember"} /\ l = r.link

Stage(r) ==
  /\ r.op = "delgroup" => r.group \in Groups
  /\ r.op = "deluser" => r.user \in Users
  /\ r.pc \in {"outer", "inner", "decide"} => r.op = "enforce"
  /\ r.pc = "members" => r.op = "delgroup"
  /\ r.pc = "links" => r.op \in {"delgroup", "deluser"}
  /\ \A l \in r.links : About(r, l)
  /\ r.pc \in HasLink => About(r, r.link)

(* AddMember and RemoveMember write the row before the link.               *)
RowFirst(r) ==
  LET m == <<r.user, r.group>>
  IN  /\ r.op = "add" /\ r.pc # "row" =>
           m \in members /\ (Pending(r, m) \/ m \in memory)
      /\ r.op = "remove" /\ r.pc # "row" =>
           m \notin members /\ (Pending(r, m) \/ m \notin memory)

(* A deletion has listed every link of memory that it has to remove, and   *)
(* none comes while it is at them; a group that is granted a role is there.*)
Covered(r) ==
  /\ r.op = "grant" => r.group \in groups
  /\ r.op = "delgroup" /\ r.pc = "links" =>
       \A l \in memory : l[2] = r.group => l \in r.links
  /\ r.op \in {"delgroup", "deluser"} /\ r.pc \in {"next"} \cup HasLink =>
       \A l \in memory : About(r, l) => Pending(r, l)

Settled(r) == Stage(r) /\ RowFirst(r) /\ Covered(r)

(* No two requests are about one user or group.                            *)
Apart ==
  \A t, o \in Requests : t # o /\ Busy(req[t]) /\ Busy(req[o]) =>
     /\ req[t].user = req[o].user => req[t].user = Nobody
     /\ req[t].group = req[o].group => req[t].group = Nobody

(* The request whose row and link may differ: the one between the two, or  *)
(* the one that removes links whose rows go last.                          *)
Unlinks(r, m) ==
  r.op = "remove" /\ r.pc # "row" /\ m = <<r.user, r.group>>
Relinks(r, m) ==
  \/ r.op = "add" /\ r.pc # "row" /\ m = <<r.user, r.group>>
  \/ r.op \in {"delgroup", "deluser"} /\ About(r, m)

LinkHasRow ==
  \A m \in memory \cap Memberships :
     m \in members \/ \E t \in Requests : Unlinks(req[t], m)
RowHasLink ==
  \A m \in members : m \in memory \/ \E t \in Requests : Relinks(req[t], m)
GroupsLive == \A l \in memory : l[1] \in Groups => l[1] \in groups

Synced ==
  /\ Apart /\ LinkHasRow /\ RowHasLink /\ GroupsLive
  /\ \A t \in Requests : Settled(req[t])

SyncInv == RoleInv /\ (~failed /\ ~overlapped => Synced)

(* Two requests are about one link only when both delete.                  *)
LEMMA TwoAbout ==
  ASSUME RoleInv, Synced, NEW t \in Requests, NEW o \in Requests, t # o,
         NEW l \in Links, About(req[t], l), About(req[o], l)
  PROVE  /\ req[t].op \in {"delgroup", "deluser"}
         /\ req[o].op \in {"delgroup", "deluser"}
<1>1. Busy(req[t]) /\ Busy(req[o])
  BY DEF About, Busy
<1>2. /\ req[t].user = req[o].user => req[t].user = Nobody
      /\ req[t].group = req[o].group => req[t].group = Nobody
  BY <1>1 DEF Synced, Apart
<1>3. /\ Whom(req[t]) /\ Whom(req[o]) /\ Stage(req[t]) /\ Stage(req[o])
      /\ req[t] \in RequestType /\ req[o] \in RequestType
  BY DEF RoleInv, Synced, Settled
<1>4. PICK a \in Users \cup Groups, b \in Groups \cup {Role} :
        /\ l = <<a, b>> /\ l[1] = a /\ l[2] = b
        /\ b \in Groups => a \in Users
  BY KindsAssumption DEF Links, Memberships
<1> QED
  BY <1>2, <1>3, <1>4, KindsAssumption DEF About, Whom, Stage

(* What is left to show of a step of t that changes no row and no link.    *)
LEMMA Moves ==
  ASSUME Synced, NEW t \in Requests, UNCHANGED <<rows, memory>>,
         \A o \in Requests \ {t} : req'[o] = req[o],
         \/ /\ req'[t].op = req[t].op /\ req'[t].user = req[t].user
            /\ req'[t].group = req[t].group
            /\ req[t].pc # "row" /\ req'[t].pc # "row"
         \/ ~Busy(req[t]) /\ ~Busy(req'[t]),
         Settled(req[t])'
  PROVE  Synced'
<1> USE DEF rows
<1>1. Apart'
  BY DEF Synced, Apart, Busy
<1>2. LinkHasRow'
  <2>1. \A m \in memory, o \in Requests :
           Unlinks(req[o], m) => Unlinks(req'[o], m)
    BY DEF Unlinks, Busy
  <2> QED
    BY <2>1 DEF Synced, LinkHasRow, Unlinks
<1>3. RowHasLink'
  <2>1. \A m \in members, o \in Requests :
           Relinks(req[o], m) => Relinks(req'[o], m)
    BY DEF Relinks, About, Busy
  <2> QED
    BY <2>1 DEF Synced, RowHasLink, Relinks, About
<1>4. GroupsLive'
  BY DEF Synced, GroupsLive
<1>5. ASSUME NEW o \in Requests PROVE Settled(req[o])'
  <2>1. CASE o = t
    BY <2>1
  <2>2. CASE o # t
    <3>1. Settled(req[o]) /\ req'[o] = req[o]
      BY <2>2 DEF Synced
    <3> QED
      BY <3>1 DEF Settled, Stage, RowFirst, Covered, About, Pending
  <2> QED
    BY <2>1, <2>2
<1> QED
  BY <1>1, <1>2, <1>3, <1>4, <1>5 DEF Synced

(* A deletion has the links it is at in what it listed, and the steps from *)
(* one link to the next lose none.                                         *)
LEMMA SyncPlan ==
  ASSUME RoleInv, Synced, NEW t \in Requests,
         PlanLink(t) \/ ListMembers(t) \/ ListLinks(t)
  PROVE  Synced'
<1> DEFINE r == req[t]
           n == req'[t]
<1>1. r \in RequestType /\ Whom(r) /\ Settled(r)
  BY DEF RoleInv, Synced
<1>2. \A o \in Requests \ {t} : req'[o] = req[o]
  BY DEF PlanLink, ListMembers, ListLinks, RoleInv
<1>3. UNCHANGED <<rows, memory>>
  BY DEF PlanLink, ListMembers, ListLinks
<1>4. \A l \in memory : l \in Links
  BY DEF RoleInv, TypeOK
<1>5. CASE PlanLink(t)
  <2>1. /\ r.pc = "link" /\ n.pc = "next" /\ n.links = {LinkOf(t)}
        /\ n.op = r.op /\ n.user = r.user /\ n.group = r.group
    BY <1>5 DEF PlanLink, RoleInv, RequestType
  <2>2. r.op \in {"add", "remove", "grant", "revoke", "assign", "unassign"}
    BY <1>1, <2>1 DEF Whom
  <2>3. About(n, LinkOf(t))
    BY <2>1, <2>2 DEF LinkOf, About
  <2>4. Stage(req[t])'
    <3> HIDE DEF r, n
    <3> QED
      BY <2>1, <2>2, <2>3 DEF Stage, HasLink, Writing, n
  <2>5. RowFirst(req[t])'
    BY <1>1, <1>3, <2>1 DEF Settled, RowFirst, Pending, LinkOf, rows
  <2>6. Covered(req[t])'
    BY <1>1, <1>3, <2>1, <2>2 DEF Settled, Covered, rows
  <2> QED
    BY <1>2, <1>3, <2>1, <2>4, <2>5, <2>6, Moves DEF Settled
<1>6. CASE ListMembers(t)
  <2>1. /\ r.pc = "members" /\ n.pc = "links" /\ n.links = MembersOf(t)
        /\ n.op = r.op /\ n.user = r.user /\ n.group = r.group
    BY <1>6 DEF ListMembers, RoleInv, RequestType
  <2>2. r.op = "delgroup" /\ r.group \in Groups
    BY <1>1, <2>1 DEF Settled, Stage
  <2>3. Stage(req[t])'
    BY <2>1, <2>2 DEF Stage, HasLink, Writing, MembersOf, About
  <2>4. ASSUME NEW l \in memory, l[2] = r.group
        PROVE  l \in members
    <3>1. l \in Memberships
      BY <1>4, <2>2, <2>4, KindsAssumption DEF Links, Memberships
    <3>2. ASSUME NEW o \in Requests, Unlinks(req[o], l)
          PROVE  FALSE
      <4>1. About(req[o], l) /\ About(req[t], l) /\ o # t
        BY <2>2, <2>4, <3>2 DEF Unlinks, About
      <4>2. req[o].op = "remove"
        BY <3>2 DEF Unlinks
      <4> QED
        BY <1>4, <4>1, <4>2, TwoAbout
    <3> QED
      BY <3>1, <3>2 DEF Synced, LinkHasRow
  <2>5. RowFirst(req[t])' /\ Covered(req[t])'
    BY <1>3, <2>1, <2>2, <2>4
       DEF RowFirst, Covered, MembersOf, HasLink, Writing
  <2> QED
    BY <1>2, <1>3, <2>1, <2>3, <2>5, Moves DEF Settled
<1>7. CASE ListLinks(t)
  <2> DEFINE found ==
        {l \in memory : IF r.op = "delgroup" THEN l[1] = r.group
                        ELSE l[1] = r.user /\ l[2] \in Groups}
  <2>1. /\ r.pc = "links" /\ n.pc = "next" /\ n.links = r.links \cup found
        /\ n.op = r.op /\ n.user = r.user /\ n.group = r.group
    BY <1>7 DEF ListLinks, RoleInv, RequestType
  <2>2. /\ r.op \in {"delgroup", "deluser"}
        /\ r.op = "delgroup" => r.group \in Groups
        /\ r.op = "deluser" => r.user \in Users
        /\ \A l \in r.links : About(r, l)
    BY <1>1, <2>1 DEF Settled, Stage
  <2>3. \A l \in n.links : About(n, l)
    BY <2>1, <2>2 DEF About
  <2>4. Stage(req[t])'
    BY <2>1, <2>2, <2>3 DEF Stage, HasLink, Writing
  <2>5. ASSUME NEW l \in memory, About(n, l)
        PROVE  l \in n.links
    BY <1>1, <2>1, <2>2, <2>5 DEF About, Settled, Covered
  <2>6. RowFirst(req[t])' /\ Covered(req[t])'
    BY <1>3, <2>1, <2>2, <2>5 DEF RowFirst, Covered, Pending, HasLink, Writing
  <2> QED
    BY <1>2, <1>3, <2>1, <2>4, <2>6, Moves DEF Settled
<1> QED
  BY <1>5, <1>6, <1>7

LEMMA SyncNextLink ==
  ASSUME RoleInv, Synced, NEW t \in Requests, NEW l \in Links, NextLink(t, l)
  PROVE  Synced'
<1> DEFINE r == req[t]
           n == req'[t]
<1>1. r \in RequestType /\ Settled(r)
  BY DEF RoleInv, Synced
<1>2. /\ \A o \in Requests \ {t} : req'[o] = req[o]
      /\ UNCHANGED <<rows, memory>>
  BY DEF NextLink, RoleInv
<1>3. /\ r.pc = "next" /\ l \in r.links
      /\ n.pc = "lock" /\ n.link = l /\ n.links = r.links \ {l}
      /\ n.op = r.op /\ n.user = r.user /\ n.group = r.group
  <2> DEFINE a == [r EXCEPT !.pc = "lock"]
             b == [a EXCEPT !.link = l]
             c == [b EXCEPT !.links = r.links \ {l}]
  <2>1. n = c /\ r.pc = "next" /\ l \in r.links
    BY DEF NextLink, RoleInv
  <2>2. /\ a \in [op : Ops, pc : Pcs, user : Users \cup {Nobody},
                  group : Groups \cup {Nobody}, links : SUBSET Links,
                  link : Links \cup {<<Nobody, Nobody>>}]
        /\ a.pc = "lock" /\ a.op = r.op
        /\ a.user = r.user /\ a.group = r.group
    BY <1>1 DEF RequestType, Pcs
  <2>3. /\ b \in [op : Ops, pc : Pcs, user : Users \cup {Nobody},
                  group : Groups \cup {Nobody}, links : SUBSET Links,
                  link : Links \cup {<<Nobody, Nobody>>}]
        /\ b.pc = "lock" /\ b.op = r.op /\ b.link = l
        /\ b.user = r.user /\ b.group = r.group
    BY <2>2
  <2>4. /\ c.pc = "lock" /\ c.op = r.op /\ c.link = l
        /\ c.user = r.user /\ c.group = r.group /\ c.links = r.links \ {l}
    BY <2>3
  <2> HIDE DEF c, r
  <2> QED
    BY <2>1, <2>4
<1>4. \A k : Pending(r, k) => Pending(n, k)
  BY <1>3 DEF Pending
<1>5. \A k : About(n, k) = About(r, k)
  BY <1>3 DEF About
<1>6. Stage(req[t])'
  BY <1>1, <1>3, <1>5 DEF Settled, Stage
<1>7. RowFirst(req[t])'
  BY <1>1, <1>2, <1>3, <1>4 DEF Settled, RowFirst, rows
<1>8. Covered(req[t])'
  BY <1>1, <1>2, <1>3, <1>4, <1>5 DEF Settled, Covered, rows
<1> QED
  BY <1>2, <1>3, <1>6, <1>7, <1>8, Moves DEF Settled

LEMMA SyncBegin ==
  ASSUME RoleInv, ~overlapped => Synced, ~overlapped', NEW t \in Requests,
         NEW op \in Ops \ {"idle"}, NEW u \in Users \cup {Nobody},
         NEW g \in Groups \cup {Nobody},
         NEW pc \in {"row", "link", "members", "links", "outer"},
         op \in {"add", "remove"} => pc = "row",
         op = "grant" => g \in groups,
         op = "delgroup" => g \in Groups /\ pc = "members",
         op = "deluser" => u \in Users /\ pc = "links",
         pc = "members" => op = "delgroup",
         pc = "links" => op = "deluser",
         pc = "outer" => op = "enforce",
         Begin(t, op, u, g, pc)
  PROVE  Synced'
<1> DEFINE new == Begun(op, pc, u, g)
<1>1. pc \in Pcs /\ op \in Ops
  BY DEF Pcs
<1>2. /\ new \in RequestType /\ new.pc = pc /\ new.links = {}
      /\ new.op = op /\ new.user = u /\ new.group = g
  BY <1>1, New DEF Begun, Idle
<1>3. req' = [req EXCEPT ![t] = new]
  BY DEF Begin, Begun
<1> HIDE DEF new
<1>4. req'[t] = new /\ \A o \in Requests \ {t} : req'[o] = req[o]
  BY <1>3 DEF RoleInv
<1>5. /\ Synced /\ UNCHANGED <<rows, memory>> /\ req[t].op = "idle"
      /\ op # "enforce" => \A o \in Requests :
           Busy(req[o]) => /\ u # Nobody => req[o].user # u
                           /\ g # Nobody => req[o].group # g
  BY DEF Begin, Busy
<1>6. Settled(req[t])'
  <2>1. Stage(new)
    BY <1>2 DEF Stage, HasLink, Writing
  <2>2. RowFirst(req[t])'
    BY <1>2, <1>4 DEF RowFirst
  <2>3. Covered(req[t])'
    BY <1>2, <1>4, <1>5 DEF Covered, HasLink, Writing, rows
  <2> QED
    BY <1>4, <2>1, <2>2, <2>3 DEF Settled
<1>7. Apart'
  <2>1. ASSUME NEW o \in Requests \ {t}, Busy(new), Busy(req[o])
        PROVE  /\ u = req[o].user => u = Nobody
               /\ g = req[o].group => g = Nobody
    BY <1>2, <1>5, <2>1 DEF Busy
  <2>2. ASSUME NEW o \in Requests, NEW p \in Requests, o # p,
               Busy(req'[o]), Busy(req'[p])
        PROVE  /\ req'[o].user = req'[p].user => req'[o].user = Nobody
               /\ req'[o].group = req'[p].group => req'[o].group = Nobody
    <3>1. CASE o = t
      BY <1>2, <1>4, <2>1, <2>2, <3>1
    <3>2. CASE p = t
      BY <1>2, <1>4, <2>1, <2>2, <3>2
    <3>3. CASE o # t /\ p # t
      BY <1>4, <1>5, <2>2, <3>3 DEF Synced, Apart
    <3> QED
      BY <3>1, <3>2, <3>3
  <2> QED
    BY <2>2 DEF Apart
<1>8. LinkHasRow' /\ RowHasLink' /\ GroupsLive'
  <2>1. \A o \in Requests : \A m :
             /\ Unlinks(req[o], m) => Unlinks(req'[o], m)
             /\ Relinks(req[o], m) => Relinks(req'[o], m)
    BY <1>4, <1>5 DEF Unlinks, Relinks
  <2>2. LinkHasRow'
    BY <1>5, <2>1 DEF Synced, LinkHasRow, Unlinks, rows
  <2>3. RowHasLink'
    BY <1>5, <2>1 DEF Synced, RowHasLink, Relinks, About, rows
  <2> QED
    BY <1>5, <2>2, <2>3 DEF Synced, GroupsLive, rows
<1>9. ASSUME NEW o \in Requests \ {t} PROVE Settled(req[o])'
  <2>1. Settled(req[o]) /\ req'[o] = req[o]
    BY <1>4, <1>5 DEF Synced
  <2> QED
    BY <1>5, <2>1 DEF Settled, Stage, RowFirst, Covered, About, Pending, rows
<1> QED
  BY <1>6, <1>7, <1>8, <1>9 DEF Synced

LEMMA SyncStarts ==
  ASSUME RoleInv, ~overlapped => Synced, ~overlapped',
         NEW t \in Requests, Starts(t)
  PROVE  Synced'
<1>1. ASSUME NEW u \in Users, NEW g \in Groups,
             AddMember(t, u, g) \/ RemoveMember(t, u, g)
      PROVE  Synced'
  BY <1>1, SyncBegin DEF AddMember, RemoveMember, Ops
<1>2. ASSUME NEW g \in Groups,
             GrantRole(t, g) \/ RevokeRole(t, g) \/ DeleteGroup(t, g)
      PROVE  Synced'
  BY <1>2, SyncBegin DEF GrantRole, RevokeRole, DeleteGroup, Ops
<1>3. ASSUME NEW u \in Users,
             \/ AssignRole(t, u) \/ RemoveRole(t, u)
             \/ DeleteUser(t, u) \/ Enforce(t, u)
      PROVE  Synced'
  BY <1>3, SyncBegin DEF AssignRole, RemoveRole, DeleteUser, Enforce, Ops
<1> QED
  BY <1>1, <1>2, <1>3 DEF Starts

LEMMA SyncWriteRow ==
  ASSUME RoleInv, Synced, NEW t \in Requests, WriteRow(t), ~failed'
  PROVE  Synced'
<1> DEFINE r == req[t]
           m == <<r.user, r.group>>
<1>1. /\ r.op \in {"add", "remove"} /\ r.pc = "row" /\ m \in Links
      /\ Stage(r)
  BY DEF WriteRow, RoleInv, Whom, Links, Memberships, Synced, Settled
<1>2. /\ Goes(t, "link") /\ UNCHANGED <<users, groups, memory>>
      /\ r.op = "remove" => members' = members \ {m}
      /\ r.op = "add" => members' = members \cup {m}
  BY <1>1 DEF WriteRow, Fault
<1>3. /\ req'[t].pc = "link" /\ req'[t].op = r.op /\ req'[t].link = r.link
      /\ req'[t].user = r.user /\ req'[t].group = r.group
      /\ req'[t].links = r.links
      /\ \A o \in Requests \ {t} : req'[o] = req[o]
  BY <1>2, GoesTo DEF Pcs
<1> HIDE DEF r
<1>4. ASSUME NEW o \in Requests \ {t}, req[o].op \in {"add", "remove"}
      PROVE  <<req[o].user, req[o].group>> # m
  <2>1. About(req[t], m)
    BY <1>1 DEF About, r
  <2>2. About(req[o], <<req[o].user, req[o].group>>)
    BY <1>4 DEF About
  <2> QED
    BY <1>1, <1>4, <2>1, <2>2, TwoAbout DEF r
<1>5. Apart'
  BY <1>3 DEF Synced, Apart, Busy, r
<1>6. ASSUME NEW o \in Requests PROVE Settled(req[o])'
  <2>1. CASE o = t
    <3>1. Stage(req[t])'
      BY <1>1, <1>3 DEF Stage, About, HasLink, Writing
    <3>2. RowFirst(req[t])'
      BY <1>1, <1>2, <1>3 DEF RowFirst, Pending
    <3>3. Covered(req[t])'
      BY <1>1, <1>3 DEF Covered
    <3> QED
      BY <2>1, <3>1, <3>2, <3>3 DEF Settled
  <2>2. CASE o # t
    <3>1. Settled(req[o]) /\ req'[o] = req[o]
      BY <1>3, <2>2 DEF Synced
    <3>2. RowFirst(req[o])'
      BY <1>1, <1>2, <1>4, <2>2, <3>1 DEF Settled, RowFirst, Pending
    <3> QED
      BY <1>2, <3>1, <3>2 DEF Settled, Stage, Covered, About, Pending
  <2> QED
    BY <2>1, <2>2
<1>7. LinkHasRow'
  <2>1. ASSUME NEW k \in memory \cap Memberships, k \notin members'
        PROVE  \E o \in Requests : Unlinks(req'[o], k)
    <3>1. CASE k \in members
      <4>1. Unlinks(req'[t], k)
        BY <1>1, <1>2, <1>3, <2>1, <3>1 DEF Unlinks
      <4> QED
        BY <4>1
    <3>2. CASE k \notin members
      <4>1. PICK o \in Requests : Unlinks(req[o], k)
        BY <3>2 DEF Synced, LinkHasRow
      <4>2. o # t
        BY <1>1, <4>1 DEF Unlinks, r
      <4>3. Unlinks(req'[o], k)
        BY <1>3, <4>1, <4>2
      <4> QED
        BY <4>3
    <3> QED
      BY <3>1, <3>2
  <2> QED
    BY <1>2, <2>1 DEF LinkHasRow, Unlinks
<1>8. RowHasLink'
  <2>1. ASSUME NEW k \in members', k \notin memory
        PROVE  \E o \in Requests : Relinks(req'[o], k)
    <3>1. CASE k \notin members
      <4>1. Relinks(req'[t], k)
        BY <1>1, <1>2, <1>3, <2>1, <3>1 DEF Relinks
      <4> QED
        BY <4>1
    <3>2. CASE k \in members
      <4>1. PICK o \in Requests : Relinks(req[o], k)
        BY <2>1, <3>2 DEF Synced, RowHasLink
      <4>2. o # t
        BY <1>1, <4>1 DEF Relinks, r
      <4>3. Relinks(req'[o], k)
        BY <1>3, <4>1, <4>2
      <4> QED
        BY <4>3
    <3> QED
      BY <3>1, <3>2
  <2> QED
    BY <1>2, <2>1 DEF RowHasLink, Relinks, About
<1>9. GroupsLive'
  BY <1>2 DEF Synced, GroupsLive
<1> QED
  BY <1>5, <1>6, <1>7, <1>8, <1>9 DEF Synced

(* The row goes when no link of it is in memory any more.                  *)
LEMMA SyncFinish ==
  ASSUME RoleInv, Synced, NEW t \in Requests, Finish(t), ~failed, ~failed'
  PROVE  Synced'
<1> DEFINE r == req[t]
<1>1. /\ r.pc = "next" /\ r.links = {} /\ memory' = memory
      /\ users' = users \ {u \in {r.user} : r.op = "deluser"}
      /\ groups' = groups \ {g \in {r.group} : r.op = "delgroup"}
      /\ members' = members \cap (users' \X groups')
  BY DEF Finish, Cascaded, Fault
<1>2. req'[t] = Idle /\ \A o \in Requests \ {t} : req'[o] = req[o]
  BY EndsIn DEF Finish
<1>3. Idle.op = "idle" /\ Idle.pc = "idle" /\ Idle.links = {}
  BY DEF Idle
<1>4. /\ Settled(r) /\ r \in RequestType /\ Whom(r)
      /\ \A l : ~Pending(r, l)
  BY <1>1 DEF Synced, RoleInv, Pending
<1> HIDE DEF r
<1>5. members \subseteq users \X groups /\ memory \subseteq Links
      /\ users \subseteq Users /\ groups \subseteq Groups
  BY DEF RoleInv, TypeOK
<1>6. ASSUME NEW l \in memory, r.op \in {"delgroup", "deluser"}
      PROVE  ~About(r, l)
  BY <1>1, <1>4, <1>6 DEF Settled, Covered
<1>7. ASSUME NEW m \in members
      PROVE  m \in members' <=> ~(/\ r.op \in {"delgroup", "deluser"}
                                  /\ About(r, m))
  <2>1. PICK u \in Users, g \in Groups :
           m = <<u, g>> /\ u \in users /\ g \in groups
    BY <1>5
  <2>2. m \in members' <=> u \in users' /\ g \in groups'
    BY <1>1, <2>1
  <2>3. u \in users' <=> ~(r.op = "deluser" /\ u = r.user)
    BY <1>1, <2>1
  <2>4. g \in groups' <=> ~(r.op = "delgroup" /\ g = r.group)
    BY <1>1, <2>1
  <2>5. r.op = "delgroup" => r.group \in Groups
    BY <1>4 DEF Settled, Stage
  <2> QED
    BY <2>1, <2>2, <2>3, <2>4, <2>5, KindsAssumption DEF About
<1>8. Apart'
  BY <1>2, <1>3 DEF Synced, Apart, Busy
<1>9. ASSUME NEW o \in Requests PROVE Settled(req[o])'
  <2>1. CASE o = t
    BY <1>2, <1>3, <2>1
       DEF Settled, Stage, RowFirst, Covered, HasLink, Writing
  <2>2. CASE o # t
    <3>1. Settled(req[o]) /\ req'[o] = req[o] /\ Whom(req[o])
          /\ req[o] \in RequestType
      BY <1>2, <2>2 DEF Synced, RoleInv
    <3>2. r.op \in {"delgroup", "deluser"} /\ Busy(req[o]) =>
             /\ r.user = req[o].user => r.user = Nobody
             /\ r.group = req[o].group => r.group = Nobody
      BY <2>2 DEF Synced, Apart, Busy, r
    <3>3. ASSUME req[o].op = "add", req[o].pc # "row"
          PROVE  <<req[o].user, req[o].group>> \in members'
      <4> DEFINE m == <<req[o].user, req[o].group>>
      <4>1. m \in members /\ m \in Links
        BY <3>1, <3>3, <1>5 DEF Settled, RowFirst, Links, Memberships
      <4>2. About(req[o], m)
        BY <3>3 DEF About
      <4>3. ~(r.op \in {"delgroup", "deluser"} /\ About(r, m))
        BY <2>2, <3>3, <4>1, <4>2, TwoAbout DEF r
      <4> QED
        BY <1>7, <4>1, <4>3
    <3>4. RowFirst(req[o])'
      BY <1>1, <3>1, <3>3 DEF Settled, RowFirst, Pending
    <3>5. req[o].op = "grant" => req[o].group \in groups'
      BY <1>1, <3>1, <3>2, KindsAssumption
         DEF Settled, Covered, Whom, Busy
    <3>6. Covered(req[o])'
      BY <1>1, <3>1, <3>5 DEF Settled, Covered, About, Pending
    <3> QED
      BY <3>1, <3>4, <3>6 DEF Settled, Stage, About
  <2> QED
    BY <2>1, <2>2
<1>10. LinkHasRow'
  <2>1. ASSUME NEW k \in memory \cap Memberships, k \notin members'
        PROVE  \E o \in Requests : Unlinks(req'[o], k)
    <3>1. k \notin members
      BY <1>6, <1>7, <2>1
    <3>2. PICK o \in Requests : Unlinks(req[o], k)
      BY <3>1 DEF Synced, LinkHasRow
    <3>3. o # t
      BY <1>4, <2>1, <3>2 DEF Unlinks, Settled, RowFirst, r
    <3>4. Unlinks(req'[o], k)
      BY <1>2, <3>2, <3>3
    <3> QED
      BY <3>4
  <2> QED
    BY <1>1, <2>1 DEF LinkHasRow, Unlinks
<1>11. RowHasLink'
  <2>1. ASSUME NEW k \in members', k \notin memory
        PROVE  \E o \in Requests : Relinks(req'[o], k)
    <3>1. k \in members
      BY <1>1
    <3>2. PICK o \in Requests : Relinks(req[o], k)
      BY <2>1, <3>1 DEF Synced, RowHasLink
    <3>3. o # t
      BY <1>4, <1>7, <2>1, <3>1, <3>2 DEF Relinks, Settled, RowFirst, r
    <3>4. Relinks(req'[o], k)
      BY <1>2, <3>2, <3>3
    <3> QED
      BY <3>4
  <2> QED
    BY <1>1, <2>1 DEF RowHasLink, Relinks, About
<1>12. GroupsLive'
  <2>1. ASSUME NEW l \in memory, l[1] \in Groups
        PROVE  l[1] \in groups'
    <3>1. l[1] \in groups
      BY <2>1 DEF Synced, GroupsLive
    <3>2. ~(r.op = "delgroup" /\ l[1] = r.group)
      BY <1>6 DEF About
    <3> QED
      BY <1>1, <3>1, <3>2
  <2> QED
    BY <1>1, <2>1 DEF GroupsLive
<1> QED
  BY <1>8, <1>9, <1>10, <1>11, <1>12 DEF Synced

(* Under the lock the link at hand gets what its request is for.           *)
LEMMA SyncLock ==
  ASSUME RoleInv, Synced, NEW t \in Requests,
         Lock(t) \/ Store(t) \/ Save(t), ~failed'
  PROVE  Synced'
<1> DEFINE r == req[t]
           n == req'[t]
<1>1. r \in RequestType /\ Settled(r)
  BY DEF RoleInv, Synced
<1>2. PICK pc \in {"store", "remember", "save", "next"} :
        /\ Goes(t, pc) /\ UNCHANGED <<rows, memory>>
        /\ r.pc \in HasLink
        /\ pc = "next" => r.pc = "save"
        /\ pc = "remember" => r.pc = "store"
        /\ pc = "store" => r.pc = "lock"
        /\ pc = "save" => r.pc = "lock" /\ (r.link \in memory) = Adds(t)
  <2>1. Lock(t) => r.pc = "lock"
    BY DEF Lock, RoleInv, OneWriter
  <2> QED
    BY <2>1 DEF Lock, Store, Save, Fail, Fault, HasLink, Writing
<1>3. /\ n.pc = pc /\ n.op = r.op /\ n.link = r.link
      /\ n.user = r.user /\ n.group = r.group /\ n.links = r.links
      /\ \A o \in Requests \ {t} : req'[o] = req[o]
  <2>1. pc \in Pcs
    BY DEF Pcs
  <2> QED
    BY <1>2, <2>1, GoesTo
<1>4. \A l : About(n, l) = About(r, l)
  BY <1>3 DEF About
<1>5. ASSUME NEW l, Pending(r, l)
      PROVE  Pending(n, l) \/ (pc = "save" /\ l = r.link)
  BY <1>2, <1>3, <1>5 DEF Pending, HasLink, Writing
<1>6. Stage(req[t])'
  BY <1>1, <1>2, <1>3, <1>4 DEF Settled, Stage
<1>7. RowFirst(req[t])'
  BY <1>1, <1>2, <1>3, <1>5 DEF Settled, RowFirst, Adds, HasLink, Writing, rows
<1>8. Covered(req[t])'
  BY <1>1, <1>2, <1>3, <1>4, <1>5
     DEF Settled, Covered, Adds, HasLink, Writing, rows
<1> QED
  BY <1>2, <1>3, <1>6, <1>7, <1>8, Moves DEF Settled, HasLink, Writing

(* Memory gets the link, or loses it: the row is there already, or is gone *)
(* already, unless the request deletes what the link is of.                *)
LEMMA SyncRemember ==
  ASSUME RoleInv, Synced, NEW t \in Requests, Remember(t)
  PROVE  Synced'
<1> DEFINE r == req[t]
           k == r.link
<1>1. /\ r.pc = "remember" /\ UNCHANGED <<rows, table>>
      /\ memory' = IF Adds(t) THEN memory \cup {k} ELSE memory \ {k}
  BY DEF Remember, With
<1>2. /\ req'[t].pc = "save" /\ req'[t].op = r.op /\ req'[t].link = k
      /\ req'[t].user = r.user /\ req'[t].group = r.group
      /\ req'[t].links = r.links
      /\ \A o \in Requests \ {t} : req'[o] = req[o]
  BY GoesTo DEF Remember, Pcs
<1>3. /\ r \in RequestType /\ Whom(r) /\ Settled(r) /\ Stage(r)
      /\ RowFirst(r) /\ Covered(r)
  BY DEF RoleInv, Synced, Settled
<1>4. k \in Links /\ About(r, k)
  BY <1>1, <1>3 DEF Whom, Stage, HasLink, Writing
<1>5. Adds(t) <=> r.op \in {"add", "grant", "assign"}
  BY DEF Adds
<1> HIDE DEF r, k
<1>6. /\ k \in Memberships =>
           r.op \in {"add", "remove", "delgroup", "deluser"}
      /\ r.op \in {"add", "remove"} => k = <<r.user, r.group>>
      /\ r.op = "grant" => k = <<r.group, Role>> /\ r.group \in groups
  <2>1. ASSUME k \in Memberships
        PROVE  r.op \in {"add", "remove", "delgroup", "deluser"}
    <3>1. PICK u \in Users, g \in Groups : k = <<u, g>>
      BY <2>1 DEF Memberships
    <3> QED
      BY <1>4, <3>1, KindsAssumption DEF About
  <2> QED
    BY <1>3, <1>4, <2>1 DEF About, Covered
<1>7. Apart'
  BY <1>2 DEF Synced, Apart, Busy, r
<1>8. ASSUME NEW o \in Requests PROVE Settled(req[o])'
  <2>1. CASE o = t
    <3>1. Stage(req[t])'
      BY <1>1, <1>2, <1>3, <1>4 DEF Stage, About, HasLink, Writing
    <3>2. RowFirst(req[t])'
      BY <1>1, <1>2, <1>3, <1>5, <1>6 DEF RowFirst, Pending, rows
    <3>3. Covered(req[t])'
      <4>1. ASSUME r.op \in {"delgroup", "deluser"},
                   NEW l \in memory', About(r, l)
            PROVE  l \in r.links
        <5>1. l \in memory /\ l # k
          BY <1>1, <1>5, <4>1
        <5> QED
          BY <1>1, <1>3, <4>1, <5>1 DEF Covered, Pending, HasLink, Writing, k
      <4> QED
        BY <1>1, <1>2, <1>3, <4>1 DEF Covered, Pending, About, rows
    <3> QED
      BY <2>1, <3>1, <3>2, <3>3 DEF Settled
  <2>2. CASE o # t
    <3>1. /\ Settled(req[o]) /\ req'[o] = req[o] /\ Stage(req[o])
          /\ RowFirst(req[o]) /\ Covered(req[o])
      BY <1>2, <2>2 DEF Synced, Settled
    <3>2. About(req[o], k) => /\ req[o].op \in {"delgroup", "deluser"}
                              /\ r.op \in {"delgroup", "deluser"}
      BY <1>4, <2>2, TwoAbout DEF r
    <3>3. RowFirst(req[o])'
      <4> DEFINE m == <<req[o].user, req[o].group>>
      <4>1. ASSUME req[o].op \in {"add", "remove"}
            PROVE  m # k
        BY <3>2, <4>1 DEF About
      <4>2. req[o].op \in {"add", "remove"} => (m \in memory' <=> m \in memory)
        BY <1>1, <4>1
      <4> HIDE DEF m
      <4> QED
        BY <1>1, <3>1, <4>2 DEF RowFirst, Pending, rows, m
    <3>4. Covered(req[o])'
      <4>1. ASSUME NEW l \in memory', l \notin memory
            PROVE  ~About(req[o], l)
        BY <1>1, <1>5, <3>2, <4>1
      <4>2. ASSUME NEW l \in memory', l \notin memory,
                   req[o].op = "delgroup"
            PROVE  l[2] # req[o].group
        BY <4>1, <4>2 DEF About
      <4> QED
        BY <1>1, <3>1, <4>1, <4>2 DEF Covered, About, Pending, rows
    <3> QED
      BY <3>1, <3>3, <3>4 DEF Settled, Stage, About
  <2> QED
    BY <2>1, <2>2
<1>9. ASSUME NEW o \in Requests, NEW m
      PROVE  /\ Unlinks(req[o], m) => Unlinks(req'[o], m)
             /\ Relinks(req[o], m) => Relinks(req'[o], m)
  <2>1. CASE o = t
    BY <1>1, <1>2, <2>1 DEF Unlinks, Relinks, About, r
  <2>2. CASE o # t
    BY <1>2, <2>2
  <2> QED
    BY <2>1, <2>2
<1>10. LinkHasRow'
  <2>1. ASSUME NEW m \in memory' \cap Memberships, m \notin members
        PROVE  \E o \in Requests : Unlinks(req'[o], m)
    <3>1. CASE m \in memory
      BY <1>9, <2>1, <3>1 DEF Synced, LinkHasRow
    <3>2. CASE m \notin memory
      <4>1. m = k /\ Adds(t)
        BY <1>1, <2>1, <3>2
      <4>2. r.op = "add"
        BY <1>5, <1>6, <2>1, <4>1
      <4> QED
        BY <1>1, <1>3, <1>6, <2>1, <4>1, <4>2 DEF RowFirst
    <3> QED
      BY <3>1, <3>2
  <2> QED
    BY <1>1, <2>1 DEF LinkHasRow, Unlinks, rows
<1>11. RowHasLink'
  <2>1. ASSUME NEW m \in members, m \notin memory'
        PROVE  \E o \in Requests : Relinks(req'[o], m)
    <3>1. CASE m \notin memory
      BY <1>9, <2>1, <3>1 DEF Synced, RowHasLink
    <3>2. CASE m \in memory
      <4>1. m = k /\ ~Adds(t) /\ m \in Memberships
        BY <1>1, <2>1, <3>2 DEF RoleInv, TypeOK, Memberships
      <4>2. r.op \in {"delgroup", "deluser"}
        BY <1>1, <1>3, <1>5, <1>6, <2>1, <4>1 DEF RowFirst
      <4>3. Relinks(r, m)
        BY <1>4, <4>1, <4>2 DEF Relinks
      <4> QED
        BY <1>9, <4>3 DEF r
    <3> QED
      BY <3>1, <3>2
  <2> QED
    BY <1>1, <2>1 DEF RowHasLink, Relinks, About, rows
<1>12. GroupsLive'
  <2>1. ASSUME NEW l \in memory', l[1] \in Groups
        PROVE  l[1] \in groups
    <3>1. CASE l \in memory
      BY <2>1, <3>1 DEF Synced, GroupsLive
    <3>2. CASE l \notin memory
      <4>1. l = k /\ Adds(t)
        BY <1>1, <2>1, <3>2
      <4> QED
        BY <1>3, <1>4, <1>5, <1>6, <2>1, <4>1, KindsAssumption
           DEF About, Whom
    <3> QED
      BY <3>1, <3>2
  <2> QED
    BY <1>1, <2>1 DEF GroupsLive, rows
<1> QED
  BY <1>7, <1>8, <1>10, <1>11, <1>12 DEF Synced

(* Enforce calls change neither rows nor links.                            *)
LEMMA SyncEnforce ==
  ASSUME SyncInv, Synced, NEW t \in Requests,
         EnterOuter(t) \/ EnterInner(t) \/ Decide(t)
  PROVE  Synced'
<1>1. RoleInv /\ Settled(req[t]) /\ UNCHANGED <<rows, memory>>
  BY DEF Synced, SyncInv, EnterOuter, EnterInner, Decide
<1>2. CASE EnterOuter(t) \/ EnterInner(t)
  <2>1. PICK pc \in {"inner", "decide"} : Goes(t, pc) /\ req[t].pc # "row"
          /\ req[t].pc \in {"outer", "inner"}
    BY <1>2 DEF EnterOuter, EnterInner
  <2>2. pc \in Pcs
    BY DEF Pcs
  <2>3. /\ req'[t].pc = pc /\ req'[t].op = req[t].op
        /\ req'[t].user = req[t].user /\ req'[t].group = req[t].group
        /\ req'[t].links = req[t].links
        /\ \A o \in Requests \ {t} : req'[o] = req[o]
    BY <1>1, <2>1, <2>2, GoesTo
  <2>4. Stage(req[t])'
    BY <1>1, <2>1, <2>3 DEF Settled, Stage, About, HasLink, Writing
  <2>5. RowFirst(req[t])'
    BY <1>1, <2>1, <2>3 DEF Settled, RowFirst, Pending, rows
  <2>6. Covered(req[t])'
    BY <1>1, <2>3 DEF Settled, Covered, HasLink, Writing, rows
  <2> QED
    BY <1>1, <2>1, <2>3, <2>4, <2>5, <2>6, Moves DEF Settled
<1>3. CASE Decide(t)
  <2>1. req'[t] = Idle /\ \A o \in Requests \ {t} : req'[o] = req[o]
    BY <1>1, <1>3, EndsIn DEF Decide
  <2>2. Idle.op = "idle" /\ Idle.pc = "idle" /\ Idle.links = {}
    BY DEF Idle
  <2>3. ~Busy(req[t])
    BY <1>1, <1>3 DEF Decide, Settled, Stage, Busy
  <2>4. Settled(req[t])'
    BY <2>1, <2>2 DEF Settled, Stage, RowFirst, Covered, HasLink, Writing
  <2> QED
    BY <1>1, <2>1, <2>2, <2>3, <2>4, Moves DEF Busy
<1> QED
  BY <1>2, <1>3

LEMMA SyncSame ==
  ASSUME Synced, UNCHANGED <<rows, memory, req>>
  PROVE  Synced'
<1>1. Apart'
  BY DEF Synced, Apart, Busy
<1>2. \A t \in Requests : \A m :
        /\ Unlinks(req'[t], m) = Unlinks(req[t], m)
        /\ Relinks(req'[t], m) = Relinks(req[t], m)
  OBVIOUS
<1>3. LinkHasRow'
  BY <1>2 DEF Synced, LinkHasRow, Unlinks, rows
<1>4. RowHasLink'
  BY <1>2 DEF Synced, RowHasLink, Relinks, About, rows
<1>5. GroupsLive'
  BY DEF Synced, GroupsLive, rows
<1>6. ASSUME NEW t \in Requests PROVE Settled(req[t])'
  <2>1. Settled(req[t]) /\ req'[t] = req[t]
    BY DEF Synced
  <2> QED
    BY <2>1 DEF Settled, Stage, RowFirst, Covered, About, Pending, rows
<1> QED
  BY <1>1, <1>3, <1>4, <1>5, <1>6 DEF Synced

LEMMA SyncInit == Init => SyncInv
<1> SUFFICES ASSUME Init PROVE SyncInv
  OBVIOUS
<1>1. Idle.op = "idle" /\ Idle.pc = "idle" /\ Idle.links = {}
  BY DEF Idle
<1>2. \A t \in Requests : req[t] = Idle
  BY DEF Init
<1>3. \A t \in Requests : Settled(req[t])
  BY <1>1, <1>2 DEF Settled, Stage, RowFirst, Covered, HasLink, Writing
<1>4. Apart
  BY <1>1, <1>2 DEF Apart, Busy
<1>5. LinkHasRow /\ RowHasLink /\ GroupsLive
  BY DEF Init, LinkHasRow, RowHasLink, GroupsLive
<1> QED
  BY <1>3, <1>4, <1>5, InitInv DEF SyncInv, Synced

LEMMA SyncNext == SyncInv /\ [Next]_vars => SyncInv'
<1> SUFFICES ASSUME SyncInv, [Next]_vars, ~failed', ~overlapped'
             PROVE  Synced'
  BY NextInv DEF SyncInv
<1>1. RoleInv /\ (~failed /\ ~overlapped => Synced)
  BY DEF SyncInv
<1>2. CASE UNCHANGED vars
  BY <1>1, <1>2, SyncSame DEF vars
<1>3. ASSUME NEW t \in Requests, Starts(t)
      PROVE  Synced'
  <2>1. ~failed
    BY <1>3 DEF Starts, AddMember, RemoveMember, GrantRole, RevokeRole,
                AssignRole, RemoveRole, DeleteGroup, DeleteUser, Enforce, Begin
  <2> QED
    BY <1>1, <1>3, <2>1, SyncStarts
<1>4. ASSUME NEW t \in Requests, Runs(t)
      PROVE  Synced'
  <2>1. ~failed /\ ~overlapped
    BY <1>1, <1>4 DEF Runs, WriteRow, PlanLink, ListMembers, ListLinks, NextLink,
                Finish, Wait, Lock, Store, Remember, Save, EnterOuter,
                EnterInner, Decide, Fail, Fault, NoFault, RoleInv
  <2>2. Synced
    BY <1>1, <2>1
  <2>3. CASE Wait(t)
    BY <2>2, <2>3, SyncSame DEF Wait
  <2> QED
    BY <1>1, <1>4, <2>1, <2>2, <2>3, SyncWriteRow, SyncPlan, SyncNextLink,
       SyncFinish, SyncLock, SyncRemember, SyncEnforce DEF Runs
<1>5. ~Restart
  BY <1>1 DEF Restart, Fault
<1> QED
  BY <1>2, <1>3, <1>4, <1>5 DEF Next

(* The rows and the links are in sync whenever no request is under way,    *)
(* unless a request failed or two were about one user or group, for any    *)
(* number of users, groups and requests: group_manager.go writes the row   *)
(* of a membership before its link, and both deletions remove every link   *)
(* they listed before the row.                                             *)
THEOREM RowsAndLinksInSync == Spec => []LinksMatchMembers
<1>1. SyncInv => LinksMatchMembers
  <2> SUFFICES ASSUME SyncInv, Quiet, ~failed, ~overlapped
               PROVE  /\ memory \cap Memberships = members
                      /\ \A l \in memory : l[1] \in Groups => l[1] \in groups
    BY DEF LinksMatchMembers
  <2>1. Synced /\ RoleInv
    BY DEF SyncInv
  <2>2. \A t \in Requests : \A m : ~Unlinks(req[t], m) /\ ~Relinks(req[t], m)
    BY DEF Quiet, Unlinks, Relinks
  <2>3. members \subseteq Memberships
    BY <2>1 DEF RoleInv, TypeOK, Memberships
  <2> QED
    BY <2>1, <2>2, <2>3 DEF Synced, LinkHasRow, RowHasLink, GroupsLive
<1>2. Spec => []SyncInv
  BY SyncInit, SyncNext, PTL DEF Spec
<1> QED
  BY <1>1, <1>2, PTL

-----------------------------------------------------------------------------
(* What a process can hang in                                              *)

Inside == {"inner", "decide"}

(* A request has the lock for reading exactly inside of its first read.    *)
ReadsInside ==
  \A t \in Requests : (lock[t] = "reads") = (req[t].pc \in Inside)

HoldInv == RoleInv /\ ReadsInside

(* One request moves, and takes or leaves its part in the lock with it.    *)
LEMMA InsideMoves ==
  ASSUME ReadsInside, NEW t \in Requests,
         \A o \in Requests \ {t} : req'[o] = req[o] /\ lock'[o] = lock[o],
         (lock'[t] = "reads") = (req'[t].pc \in Inside)
  PROVE  ReadsInside'
BY DEF ReadsInside

LEMMA StartsOutside ==
  ASSUME HoldInv, NEW t \in Requests, Starts(t)
  PROVE  ReadsInside'
<1>1. ASSUME NEW op, NEW u, NEW g,
             NEW pc \in {"row", "link", "members", "links", "outer"},
             Begin(t, op, u, g, pc)
      PROVE  ReadsInside'
  <2> DEFINE new == [Idle EXCEPT !.op = op, !.pc = pc, !.user = u, !.group = g]
  <2>1. new.pc = pc
    BY DEF Idle
  <2>2. /\ req[t].op = "idle" /\ req' = [req EXCEPT ![t] = new]
        /\ lock' = lock
    BY <1>1 DEF Begin
  <2> HIDE DEF new
  <2>3. req'[t] = new /\ \A o \in Requests \ {t} : req'[o] = req[o]
    BY <2>2 DEF HoldInv, RoleInv
  <2>4. req[t].pc = "idle"
    BY <2>2 DEF HoldInv, RoleInv, Whom
  <2>5. (lock'[t] = "reads") = (req'[t].pc \in Inside)
    BY <2>1, <2>2, <2>3, <2>4 DEF HoldInv, ReadsInside, Inside
  <2> QED
    BY <2>2, <2>3, <2>5, InsideMoves DEF HoldInv
<1> QED
  BY <1>1 DEF Starts, AddMember, RemoveMember, GrantRole, RevokeRole,
              AssignRole, RemoveRole, DeleteGroup, DeleteUser, Enforce

LEMMA RunsInside ==
  ASSUME HoldInv, NEW t \in Requests, Runs(t)
  PROVE  ReadsInside'
<1>0. /\ RoleInv /\ ReadsInside /\ req \in [Requests -> RequestType]
      /\ lock \in [Requests -> {"none", "reads", "waits", "writes"}]
      /\ (lock[t] = "reads") = (req[t].pc \in Inside)
  BY DEF HoldInv, RoleInv, ReadsInside
<1>1. \A o \in Requests \ {t} : req'[o] = req[o] /\ lock'[o] = lock[o]
  BY <1>0 DEF Runs, WriteRow, PlanLink, ListMembers, ListLinks, NextLink,
       Finish, Wait, Lock, Store, Remember, Save, EnterOuter, EnterInner,
       Decide, Fail, RLock, RUnlock, Unlock, Goes, Ends
<1>2. CASE WriteRow(t)
  <2>1. req'[t].pc \in {"link", "idle"}
    BY <1>0, <1>2, EndsIn, IdleWrites, GoesTo DEF WriteRow, Pcs
  <2> QED
    BY <1>0, <1>1, <1>2, <2>1, InsideMoves DEF WriteRow, Inside
<1>3. CASE PlanLink(t) \/ ListMembers(t) \/ ListLinks(t)
  <2>1. req'[t].pc \in {"next", "links"} /\ lock' = lock
        /\ req[t].pc \notin Inside
    BY <1>0, <1>3 DEF PlanLink, ListMembers, ListLinks, RequestType, Inside
  <2> QED
    BY <1>0, <1>1, <2>1, InsideMoves DEF Inside
<1>4. CASE \E l \in Links : NextLink(t, l)
  <2>1. req'[t].pc = "lock" /\ lock' = lock /\ req[t].pc \notin Inside
    BY <1>0, <1>4 DEF NextLink, RequestType, Inside
  <2> QED
    BY <1>0, <1>1, <2>1, InsideMoves DEF Inside
<1>5. CASE Finish(t)
  <2>1. req'[t].pc = "idle" /\ lock' = lock /\ req[t].pc \notin Inside
    BY <1>0, <1>5, EndsIn, IdleWrites DEF Finish, Inside
  <2> QED
    BY <1>0, <1>1, <2>1, InsideMoves DEF Inside
<1>6. CASE Wait(t)
  <2>1. req' = req /\ lock'[t] = "waits" /\ req[t].pc \notin Inside
    BY <1>0, <1>6 DEF Wait, Inside
  <2> QED
    BY <1>0, <1>1, <2>1, InsideMoves DEF Inside
<1>7. CASE Lock(t)
  <2>1. lock'[t] = "writes"
    BY <1>0, <1>7 DEF Lock
  <2>2. PICK pc \in {"save", "store"} : Goes(t, pc)
    BY <1>7 DEF Lock
  <2>3. req'[t].pc \notin Inside
    BY <1>0, <2>2, GoesTo DEF Pcs, Inside
  <2> QED
    BY <1>0, <1>1, <2>1, <2>3, InsideMoves
<1>8. CASE Store(t) \/ Remember(t) \/ Save(t)
  <2>1. req[t].pc \in Writing
    BY <1>8 DEF Store, Remember, Save, Writing
  <2>2. lock[t] = "writes"
    BY <1>0, <2>1 DEF RoleInv, TypeOK, Writing
  <2>3. lock'[t] \in {"none", "writes"}
    BY <1>0, <1>8, <2>2 DEF Store, Remember, Save, Fail, Unlock
  <2>4. \/ \E pc \in {"remember", "save", "next"} : Goes(t, pc)
        \/ Ends(t)
    BY <1>8 DEF Store, Remember, Save, Fail
  <2>5. req'[t].pc \notin Inside
    BY <1>0, <2>4, EndsIn, IdleWrites, GoesTo DEF Pcs, Inside
  <2> QED
    BY <1>0, <1>1, <2>3, <2>5, InsideMoves
<1>9. CASE EnterOuter(t)
  <2>1. lock'[t] = "reads" /\ req'[t].pc \in Inside
    BY <1>0, <1>9, GoesTo DEF EnterOuter, RLock, Pcs, Inside
  <2> QED
    BY <1>0, <1>1, <2>1, InsideMoves
<1>10. CASE EnterInner(t)
  <2>1. lock' = lock /\ req[t].pc \in Inside /\ req'[t].pc \in Inside
    BY <1>0, <1>10, GoesTo DEF EnterInner, Pcs, Inside
  <2> QED
    BY <1>0, <1>1, <2>1, InsideMoves
<1>11. CASE Decide(t)
  <2>1. lock'[t] = "none" /\ req'[t].pc \notin Inside
    BY <1>0, <1>11, EndsIn, IdleWrites DEF Decide, RUnlock, Inside
  <2> QED
    BY <1>0, <1>1, <2>1, InsideMoves
<1> QED
  BY <1>2, <1>3, <1>4, <1>5, <1>6, <1>7, <1>8, <1>9, <1>10, <1>11 DEF Runs

LEMMA HoldInit == Init => HoldInv
<1> SUFFICES ASSUME Init PROVE ReadsInside
  BY InitInv DEF HoldInv
<1>1. Idle.pc = "idle"
  BY DEF Idle
<1> QED
  BY <1>1 DEF Init, ReadsInside, Inside

LEMMA HoldNext == HoldInv /\ [Next]_vars => HoldInv'
<1> SUFFICES ASSUME HoldInv, [Next]_vars PROVE ReadsInside'
  BY NextInv DEF HoldInv
<1>1. CASE UNCHANGED vars
  BY <1>1 DEF vars, HoldInv, ReadsInside
<1>2. CASE Restart
  <2>1. Idle.pc = "idle"
    BY DEF Idle
  <2> QED
    BY <1>2, <2>1 DEF Restart, ReadsInside, Inside
<1> QED
  BY <1>1, <1>2, StartsOutside, RunsInside DEF Next

LEMMA HoldInvariant == Spec => []HoldInv
BY HoldInit, HoldNext, PTL DEF Spec

(* The only way for all requests under way to be blocked is the second     *)
(* read lock of Enforce inside of the first, for any number of requests    *)
(* and whatever fails: every other path gives the lock back before it      *)
(* asks for it again or ends.                                              *)
THEOREM NestedReadAloneHangs == Spec => []HangsOnlyInside
<1>1. HoldInv => HangsOnlyInside
  <2> DEFINE busy == {t \in Requests : req[t].op # "idle"}
  <2> SUFFICES ASSUME HoldInv, NEW b \in busy, \A t \in busy : Blocked(t)
               PROVE  \E t, o \in busy : Trapped(t, o)
    BY DEF HangsOnlyInside
  <2>1. \A t \in Requests : req[t].pc # "idle" => t \in busy
    BY DEF HoldInv, RoleInv, Whom
  <2>2. \A t \in Requests : lock[t] # "none" => t \in busy
    <3> SUFFICES ASSUME NEW t \in Requests, lock[t] # "none"
                 PROVE  req[t].pc # "idle"
      BY <2>1
    <3>1. lock[t] \in {"reads", "waits", "writes"}
      BY DEF HoldInv, RoleInv
    <3> QED
      BY <3>1 DEF HoldInv, RoleInv, TypeOK, OneWriter, ReadsInside, Inside
  <2>3. \A t \in Requests : lock[t] # "writes"
    <3> SUFFICES ASSUME NEW t \in Requests, lock[t] = "writes"
                 PROVE  FALSE
      OBVIOUS
    <3>1. req[t].pc \in {"store", "remember", "save"}
      BY DEF HoldInv, RoleInv, TypeOK
    <3> QED
      BY <2>2, <3>1 DEF Blocked
  <2>4. PICK o \in Requests : lock[o] = "waits"
    BY <2>3 DEF Blocked, Readable
  <2>5. req[o].pc = "lock" /\ o \in busy
    BY <2>2, <2>4 DEF HoldInv, RoleInv, OneWriter
  <2>6. PICK t \in Requests : lock[t] = "reads"
    BY <2>4, <2>5 DEF Blocked
  <2>7. t \in busy /\ req[t].pc \in Inside
    BY <2>2, <2>6 DEF HoldInv, ReadsInside
  <2>8. req[t].pc = "inner"
    BY <2>6, <2>7 DEF Blocked, Inside
  <2> QED
    BY <2>4, <2>5, <2>7, <2>8 DEF Trapped
<1> QED
  BY <1>1, HoldInvariant, PTL

(* And whoever is caught there stays so until the process is started       *)
(* again: nothing in it gives up.                                          *)
THEOREM TrapLasts ==
  Spec => [][\A t, o \in Requests : Trapped(t, o) => Trapped(t, o)' \/ Restart]_vars
<1>1. ASSUME HoldInv, [Next]_vars, NEW t \in Requests, NEW o \in Requests,
             Trapped(t, o), ~Restart
      PROVE  Trapped(t, o)'
  <2>1. /\ req[t].pc = "inner" /\ lock[o] = "waits" /\ req[o].pc = "lock"
        /\ lock[t] = "reads" /\ req[t].op # "idle" /\ req[o].op # "idle"
        /\ ~Readable /\ t # o
    BY <1>1 DEF Trapped, HoldInv, RoleInv, OneWriter, ReadsInside, Inside,
                Readable, Whom
  <2>0. /\ req \in [Requests -> RequestType]
        /\ lock \in [Requests -> {"none", "reads", "waits", "writes"}]
    BY <1>1 DEF HoldInv, RoleInv
  <2>2. ASSUME NEW x \in Requests, Starts(x)
        PROVE  x \notin {t, o} /\ lock' = lock
               /\ \A y \in Requests \ {x} : req'[y] = req[y]
    BY <2>0, <2>1, <2>2
       DEF Starts, AddMember, RemoveMember, GrantRole, RevokeRole,
           AssignRole, RemoveRole, DeleteGroup, DeleteUser, Enforce, Begin
  <2>3. ASSUME NEW x \in Requests, Runs(x)
        PROVE  /\ x \notin {t, o}
               /\ \A y \in Requests \ {x} : req'[y] = req[y] /\ lock'[y] = lock[y]
    <3>1. x # t
      BY <2>1, <2>3 DEF Runs, WriteRow, PlanLink, ListMembers, ListLinks,
           NextLink, Finish, Wait, Lock, Store, Remember, Save, EnterOuter,
           EnterInner, Decide
    <3>2. x # o
      BY <2>1, <2>3 DEF Runs, WriteRow, PlanLink, ListMembers, ListLinks,
           NextLink, Finish, Wait, Lock, Store, Remember, Save, EnterOuter,
           EnterInner, Decide
    <3>3. \A y \in Requests \ {x} : req'[y] = req[y] /\ lock'[y] = lock[y]
      BY <2>0, <2>3 DEF Runs, WriteRow, PlanLink, ListMembers, ListLinks,
           NextLink, Finish, Wait, Lock, Store, Remember, Save, EnterOuter,
           EnterInner, Decide, Fail, RLock, RUnlock, Unlock, Goes, Ends
    <3> QED
      BY <3>1, <3>2, <3>3
  <2>4. CASE UNCHANGED vars
    BY <2>1, <2>4 DEF vars, Trapped
  <2> QED
    BY <1>1, <2>1, <2>2, <2>3, <2>4 DEF Next, Trapped
<1>2. HoldInv /\ [Next]_vars =>
         [\A t, o \in Requests : Trapped(t, o) => Trapped(t, o)' \/ Restart]_vars
  BY <1>1
<1> QED
  BY <1>2, HoldInvariant, PTL DEF Spec
=============================================================================
