----------------------------- MODULE RoleStore ------------------------------
(***************************************************************************)
(* The groups of users and their roles, as one process keeps them: the     *)
(* tables users, groups and group_members, the table casbin_rule, and the  *)
(* enforcer's copy of it in memory, behind one read-write lock.  A request *)
(* changes the tables and the links one after the other, without a         *)
(* transaction over both.                                                  *)
(*                                                                         *)
(* A link leads from a user to a group or to a role, or from a group to a  *)
(* role.  There is one role and one domain for it.  Users and groups that  *)
(* are deleted are not created again: their ids are not.                   *)
(***************************************************************************)
EXTENDS FiniteSets, Naturals

CONSTANTS
    Users, Groups, Role,
    Requests,    \* the goroutines that serve requests
    Nobody,
    MaxFaults    \* bound on failing statements and restarts

ASSUME KindsAssumption ==
    /\ Users \cap Groups = {} /\ Role \notin Users \cup Groups
    /\ Nobody \notin Users \cup Groups
ASSUME BoundsAssumption == MaxFaults \in Nat

Memberships == Users \X Groups
Links == Memberships \cup ((Users \cup Groups) \X {Role})

VARIABLES
    users, groups, members,    \* the rows of the tables
    table,       \* casbin_rule
    memory,      \* the model of the enforcer
    req,         \* what each request is at
    lock,        \* its part in the lock
    failed,      \* whether a request has failed or was cut off
    overlapped,  \* whether two were about one user or group at a time
    faults       \* how much of MaxFaults is used

rows == <<users, groups, members>>
vars == <<rows, table, memory, req, lock, failed, overlapped, faults>>

Fault == faults < MaxFaults /\ faults' = faults + 1 /\ failed' = TRUE
NoFault == UNCHANGED <<faults, failed>>

(* links: those to add or remove yet; link: the one at hand.               *)
Idle == [op |-> "idle", pc |-> "idle", user |-> Nobody, group |-> Nobody,
         links |-> {}, link |-> <<Nobody, Nobody>>]

Goes(t, pc) == req' = [req EXCEPT ![t].pc = pc]
Ends(t) == req' = [req EXCEPT ![t] = Idle]

-----------------------------------------------------------------------------
(* sync.RWMutex: a writer that waits keeps new readers out.                *)
Readable == \A t \in Requests : lock[t] \notin {"waits", "writes"}

RLock(t) == Readable /\ lock' = [lock EXCEPT ![t] = "reads"]
RUnlock(t) == lock' = [lock EXCEPT ![t] = "none"]
Unlock(t) == lock' = [lock EXCEPT ![t] = "none"]

-----------------------------------------------------------------------------
(* Requests                                                                *)

Begin(t, op, u, g, pc) ==
    /\ req[t].op = "idle"
    /\ req' = [req EXCEPT ![t] = [Idle EXCEPT !.op = op, !.pc = pc,
                                              !.user = u, !.group = g]]
    /\ overlapped' =
         (overlapped \/ (op # "enforce" /\ \E o \in Requests :
              /\ req[o].op \notin {"idle", "enforce"}
              /\ \/ u # Nobody /\ req[o].user = u
                 \/ g # Nobody /\ req[o].group = g))
    /\ UNCHANGED <<rows, table, memory, lock, failed, faults>>

(* AddMember and GrantRole look the group up; the others do not look.      *)
AddMember(t, u, g) == g \in groups /\ Begin(t, "add", u, g, "row")
RemoveMember(t, u, g) == Begin(t, "remove", u, g, "row")
GrantRole(t, g) == g \in groups /\ Begin(t, "grant", Nobody, g, "link")
RevokeRole(t, g) == Begin(t, "revoke", Nobody, g, "link")
AssignRole(t, u) == Begin(t, "assign", u, Nobody, "link")
RemoveRole(t, u) == Begin(t, "unassign", u, Nobody, "link")
DeleteGroup(t, g) == Begin(t, "delgroup", Nobody, g, "members")
DeleteUser(t, u) == Begin(t, "deluser", u, Nobody, "links")
Enforce(t, u) == Begin(t, "enforce", u, Nobody, "outer")

Adds(t) == req[t].op \in {"add", "grant", "assign"}

LinkOf(t) == IF req[t].op \in {"add", "remove"}
               THEN <<req[t].user, req[t].group>>
             ELSE IF req[t].op \in {"grant", "revoke"}
               THEN <<req[t].group, Role>>
             ELSE <<req[t].user, Role>>

(* The row of group_members; its keys refer to both tables.                *)
WriteRow(t) ==
    LET m == <<req[t].user, req[t].group>>
    IN  /\ req[t].pc = "row"
        /\ \/ /\ NoFault
              /\ IF req[t].op = "remove" THEN members' = members \ {m}
                 ELSE /\ m[1] \in users /\ m[2] \in groups
                      /\ members' = members \cup {m}
              /\ Goes(t, "link")
           \/ /\ \/ Fault
                 \/ /\ req[t].op = "add" /\ failed' = TRUE
                    /\ m[1] \notin users \/ m[2] \notin groups
                    /\ UNCHANGED faults
              /\ UNCHANGED members
              /\ Ends(t)
        /\ UNCHANGED <<users, groups, table, memory, lock, overlapped>>

(* The links that one request is about.                                    *)
PlanLink(t) ==
    /\ req[t].pc = "link"
    /\ req' = [req EXCEPT ![t].pc = "next", ![t].links = {LinkOf(t)}]
    /\ UNCHANGED <<rows, table, memory, lock, failed, overlapped, faults>>

(* mutant: the members are looked for after the group has gone.            *)
MembersGone(t) == {}
MembersOf(t) == {m \in members : m[2] = req[t].group}

(* DeleteGroup reads the members from the table and the roles from memory, *)
(* DeleteUser only the links of the domain that memberships have.          *)
ListMembers(t) ==
    /\ req[t].pc = "members"
    /\ req' = [req EXCEPT ![t].pc = "links", ![t].links = MembersOf(t)]
    /\ UNCHANGED <<rows, table, memory, lock, failed, overlapped, faults>>

ListLinks(t) ==
    /\ req[t].pc = "links" /\ Readable
    /\ req' = [req EXCEPT ![t].pc = "next", ![t].links = @ \cup
         {l \in memory : IF req[t].op = "delgroup" THEN l[1] = req[t].group
                         ELSE l[1] = req[t].user /\ l[2] \in Groups}]
    /\ UNCHANGED <<rows, table, memory, lock, failed, overlapped, faults>>

NextLink(t, l) ==
    /\ req[t].pc = "next" /\ l \in req[t].links
    /\ req' = [req EXCEPT ![t].pc = "lock", ![t].link = l,
                          ![t].links = @ \ {l}]
    /\ UNCHANGED <<rows, table, memory, lock, failed, overlapped, faults>>

(* mutant: the memberships stay.                                           *)
Kept == members
(* ON DELETE CASCADE                                                       *)
Cascaded == members \cap (users' \X groups')

(* The row goes last, and the memberships with it.                         *)
Finish(t) ==
    /\ req[t].pc = "next" /\ req[t].links = {}
    /\ \/ NoFault /\ users' = users \ {u \in {req[t].user} :
                                         req[t].op = "deluser"}
                  /\ groups' = groups \ {g \in {req[t].group} :
                                           req[t].op = "delgroup"}
                  /\ members' = Cascaded
       \/ req[t].op \in {"deluser", "delgroup"} /\ Fault /\ UNCHANGED rows
    /\ Ends(t)
    /\ UNCHANGED <<table, memory, lock, overlapped>>

-----------------------------------------------------------------------------
(* AddGroupingPolicy and RemoveGroupingPolicy                              *)

Wait(t) ==
    /\ req[t].pc = "lock" /\ lock[t] = "none" /\ Readable
    /\ lock' = [lock EXCEPT ![t] = "waits"]
    /\ UNCHANGED <<rows, table, memory, req, failed, overlapped, faults>>

Lock(t) ==
    /\ lock[t] = "waits" /\ \A o \in Requests : lock[o] # "reads"
    /\ lock' = [lock EXCEPT ![t] = "writes"]
    /\ Goes(t, IF (req[t].link \in memory) = Adds(t) THEN "save" ELSE "store")
    /\ UNCHANGED <<rows, table, memory, failed, overlapped, faults>>

With(t, links) == IF Adds(t) THEN links \cup {req[t].link}
                             ELSE links \ {req[t].link}

(* mutant: the error returns without the unlock.                           *)
FailLocked(t) == Fault /\ UNCHANGED lock /\ Ends(t)
(* An error ends the request, except that RemoveMember takes no notice.    *)
Fail(t) == Fault /\ Unlock(t) /\ Ends(t)

(* mutant: the adapter is left to SavePolicy.                              *)
NotStored(t) == table
(* The adapter's own statement for the link, before memory has it.         *)
Stored(t) == With(t, table)

Store(t) ==
    /\ req[t].pc = "store"
    /\ \/ NoFault /\ table' = Stored(t) /\ Goes(t, "remember")
          /\ UNCHANGED lock
       \/ Fail(t) /\ UNCHANGED table
    /\ UNCHANGED <<rows, memory, overlapped>>

Remember(t) ==
    /\ req[t].pc = "remember"
    /\ memory' = With(t, memory)
    /\ Goes(t, "save")
    /\ UNCHANGED <<rows, table, lock, failed, overlapped, faults>>

(* SavePolicy: the whole table is replaced in one transaction.             *)
Save(t) ==
    /\ req[t].pc = "save"
    /\ \/ NoFault /\ table' = memory /\ Unlock(t) /\ Goes(t, "next")
       \/ Fail(t) /\ UNCHANGED table
    /\ UNCHANGED <<rows, memory, overlapped>>

-----------------------------------------------------------------------------
(* Enforce, which reads the roles twice, once in EnforceSystemAdmin        *)

EnterOuter(t) ==
    /\ req[t].pc = "outer" /\ RLock(t)
    /\ Goes(t, "inner")
    /\ UNCHANGED <<rows, table, memory, failed, overlapped, faults>>

EnterInner(t) ==
    /\ req[t].pc = "inner" /\ Readable
    /\ Goes(t, "decide")
    /\ UNCHANGED <<rows, table, memory, lock, failed, overlapped, faults>>

Decide(t) ==
    /\ req[t].pc = "decide"
    /\ RUnlock(t) /\ Ends(t)
    /\ UNCHANGED <<rows, table, memory, failed, overlapped, faults>>

-----------------------------------------------------------------------------
(* The process is started again, and loads the table.                      *)
Restart ==
    /\ \E t \in Requests : req[t].op # "idle"
    /\ Fault
    /\ memory' = table
    /\ req' = [t \in Requests |-> Idle]
    /\ lock' = [t \in Requests |-> "none"]
    /\ UNCHANGED <<rows, table, overlapped>>

Init ==
    /\ users = Users /\ groups = Groups /\ members = {}
    /\ table = {} /\ memory = {}
    /\ req = [t \in Requests |-> Idle]
    /\ lock = [t \in Requests |-> "none"]
    /\ failed = FALSE /\ overlapped = FALSE /\ faults = 0

Starts(t) ==
    \/ \E u \in Users, g \in Groups : AddMember(t, u, g) \/ RemoveMember(t, u, g)
    \/ \E g \in Groups : GrantRole(t, g) \/ RevokeRole(t, g) \/ DeleteGroup(t, g)
    \/ \E u \in Users : \/ AssignRole(t, u) \/ RemoveRole(t, u)
                        \/ DeleteUser(t, u) \/ Enforce(t, u)

Runs(t) ==
    \/ WriteRow(t) \/ PlanLink(t) \/ ListMembers(t) \/ ListLinks(t)
    \/ (\E l \in Links : NextLink(t, l)) \/ Finish(t)
    \/ Wait(t) \/ Lock(t) \/ Store(t) \/ Remember(t) \/ Save(t)
    \/ EnterOuter(t) \/ EnterInner(t) \/ Decide(t)

Next == (\E t \in Requests : Starts(t) \/ Runs(t)) \/ Restart

Spec == Init /\ [][Next]_vars
(* Goroutines are scheduled, and the lock serves those that wait in turn.  *)
FairSpec == Spec /\ \A t \in Requests : SF_vars(Runs(t))

-----------------------------------------------------------------------------
(* Properties                                                              *)

Pcs == {"idle", "row", "link", "members", "links", "next", "lock", "store",
        "remember", "save", "outer", "inner", "decide"}

TypeOK ==
    /\ users \subseteq Users /\ groups \subseteq Groups
    /\ members \subseteq users \X groups
    /\ table \subseteq Links /\ memory \subseteq Links
    /\ \A t \in Requests : /\ req[t].pc \in Pcs
                           /\ req[t].links \subseteq Links
                           /\ (lock[t] = "writes") =
                                (req[t].pc \in {"store", "remember", "save"})
    /\ faults \in 0..MaxFaults

(* Whatever fails, and whenever the process is started again: while nobody *)
(* has the lock for writing, memory has what a restart would load.         *)
TableFollowsMemory ==
    (\A t \in Requests : lock[t] # "writes") => table = memory

Quiet == \A t \in Requests : req[t].op \in {"idle", "enforce"}

(* The links and the rows are in sync (group_manager.go:20-32): when no    *)
(* request is under way, a user is linked to a group exactly when a member *)
(* of it, and only groups that exist have links; unless a request failed,  *)
(* or two were about one user or group.                                    *)
LinksMatchMembers ==
    Quiet /\ ~failed /\ ~overlapped =>
        /\ memory \cap Memberships = members
        /\ \A l \in memory : l[1] \in Groups => l[1] \in groups

(* The user's roles are removed with the user (user_manager.go:117-121).   *)
RolesGoWithUser ==
    Quiet /\ ~failed /\ ~overlapped =>
        \A l \in memory : l[1] \in Users => l[1] \in users

(* A request that can not go on before the lock changes hands.             *)
Blocked(t) ==
    \/ req[t].pc \in {"links", "outer", "inner"} /\ ~Readable
    \/ req[t].pc = "lock" /\ lock[t] = "none" /\ ~Readable
    \/ lock[t] = "waits" /\ \E o \in Requests : lock[o] = "reads"

(* An enforce call is inside of EnforceSystemAdmin's first read, before    *)
(* the second one, while a change of roles waits for the readers to leave. *)
Trapped(t, o) == req[t].pc = "inner" /\ lock[o] = "waits"

(* The second read lock inside of the first is all that can hang a         *)
(* process: whenever every request under way is blocked, one of them is    *)
(* between the two while another waits to write.  No error, restart or end *)
(* of a request leaves the lock to nobody.                                 *)
HangsOnlyInside ==
    LET busy == {t \in Requests : req[t].op # "idle"}
    IN  busy # {} /\ (\A t \in busy : Blocked(t)) =>
            \E t, o \in busy : Trapped(t, o)

(* Every request is answered: an enforce call too is followed by its       *)
(* answer, whatever roles are being changed.                               *)
EnforceReturns ==
    \A t \in Requests : req[t].op = "enforce" ~> req[t].op = "idle"
=============================================================================
