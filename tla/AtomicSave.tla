----------------------------- MODULE AtomicSave -----------------------------
(***************************************************************************)
(* What config.save() promises its callers: the published value changes in *)
(* one step, to the value a caller asked for, or the request is dropped    *)
(* (the process died, or an exception reached the caller).                 *)
(***************************************************************************)
CONSTANTS Procs, Values, NoRequest

VARIABLES value, asked

vars == <<value, asked>>

Init == /\ value \in Values
        /\ asked = [p \in Procs |-> NoRequest]

Ask(p, v) == /\ asked[p] = NoRequest
             /\ asked' = [asked EXCEPT ![p] = v]
             /\ UNCHANGED value

TakeEffect(p) == /\ asked[p] # NoRequest
                 /\ value' = asked[p]
                 /\ asked' = [asked EXCEPT ![p] = NoRequest]

Drop(p) == /\ asked' = [asked EXCEPT ![p] = NoRequest]
           /\ UNCHANGED value

Next == \E p \in Procs : \/ \E v \in Values : Ask(p, v)
                         \/ TakeEffect(p)
                         \/ Drop(p)

Spec == Init /\ [][Next]_vars
=============================================================================
