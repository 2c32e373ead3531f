------------------------------ MODULE SliceLog ------------------------------
(***************************************************************************)
(* What the summaries of one concept promise to their readers, with no     *)
(* job, claim, clock or call in sight: a log of numbered slices, to which  *)
(* nobody writes but at its end.  The first slice may be open: it gains    *)
(* facts, and is complete before the next is added.  A fact, once in a     *)
(* slice, is in no other, and it leaves the slice only when that is the    *)
(* open one and is cut to the size of a complete slice.                    *)
(***************************************************************************)
EXTENDS Naturals, Sequences

CONSTANT Facts

VARIABLE slices      \* the slices: number, whether complete, facts

Taken == UNION {slices[r].covered : r \in DOMAIN slices}
Untaken == Facts \ Taken

(* Only the first slice is ever added before it is complete.               *)
Add(F, complete) ==
    /\ \A r \in DOMAIN slices : slices[r].complete
    /\ complete \/ slices = <<>>
    /\ slices' = Append(slices, [seq |-> Len(slices) + 1,
                                 complete |-> complete, covered |-> F])

Extend(r, F, complete) ==
    /\ ~slices[r].complete
    /\ slices' = [slices EXCEPT ![r].complete = complete,
                                ![r].covered = @ \cup F]

Cut(r, F) ==
    /\ ~slices[r].complete
    /\ slices' = [slices EXCEPT ![r].complete = TRUE, ![r].covered = F]

Init == slices = <<>>

Next ==
    \/ \E F \in (SUBSET Untaken) \ {{}}, complete \in BOOLEAN :
          \/ Add(F, complete)
          \/ \E r \in DOMAIN slices : Extend(r, F, complete)
    \/ \E r \in DOMAIN slices :
          \E F \in (SUBSET slices[r].covered) \ {{}} : Cut(r, F)

Spec == Init /\ [][Next]_slices
=============================================================================
