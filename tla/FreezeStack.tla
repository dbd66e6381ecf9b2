----------------------------- MODULE FreezeStack -----------------------------
(***************************************************************************)
(* What freezing children is meant to be, "to have the effect of a stack": *)
(* children come and go; one at a time is put on the stack, which never    *)
(* takes the last of them; the one on top is released first; one that goes *)
(* leaves the stack, wherever it is, and the others keep their order.      *)
(***************************************************************************)
CONSTANT Children

VARIABLES
    members,    \* the children there are
    frozen,     \* those on the stack
    above       \* <<c, d>>: both are on the stack, c above d

stackVars == <<members, frozen, above>>

Init == members \in SUBSET Children /\ frozen = {} /\ above = {}

Join(c) ==
    /\ members' = members \cup {c}
    /\ UNCHANGED <<frozen, above>>

Freeze(c) ==
    /\ c \in members \ frozen
    /\ \E d \in members \ frozen : d # c
    /\ frozen' = frozen \cup {c}
    /\ above' = above \cup ({c} \X frozen)
    /\ UNCHANGED members

Release(c) ==
    /\ c \in frozen
    /\ \A d \in frozen \ {c} : <<c, d>> \in above
    /\ frozen' = frozen \ {c}
    /\ above' = above \cap (frozen' \X frozen')
    /\ UNCHANGED members

Leave(cs) ==
    /\ members' = members \ cs
    /\ frozen' = frozen \ cs
    /\ above' = above \cap (frozen' \X frozen')

Next ==
    \/ \E c \in Children : Join(c) \/ Freeze(c) \/ Release(c)
    \/ \E cs \in SUBSET Children : Leave(cs)

Spec == Init /\ [][Next]_stackVars
=============================================================================
