--------------------------- MODULE FenceTimeline ---------------------------
(***************************************************************************)
(* What a context promises about its fences (struct virgl_context in       *)
(* src/virgl_context.h: submit_fence and fence_retire).  Fences of a ring  *)
(* are numbered in the order they were submitted and retire in that order, *)
(* each at most once.  A submission may be reported as failed, and         *)
(* destroying the context may drop what is pending.                        *)
(***************************************************************************)
EXTENDS Integers, Sequences

CONSTANT Rings

VARIABLES
    newest,    \* the number of the fence submitted last, per ring
    pending,   \* the fences submitted and not retired, per ring
    retired    \* the number of the fence retired last, per ring

vars == <<newest, pending, retired>>

TypeOK ==
    /\ newest \in [Rings -> Nat]
    /\ pending \in [Rings -> Seq(Nat)]
    /\ retired \in [Rings -> Nat]

Init ==
    /\ newest = [r \in Rings |-> 0]
    /\ pending = [r \in Rings |-> <<>>]
    /\ retired = [r \in Rings |-> 0]

Submit(r) ==
    /\ newest' = [newest EXCEPT ![r] = @ + 1]
    /\ pending' = [pending EXCEPT ![r] = Append(@, newest[r] + 1)]
    /\ UNCHANGED retired

\* A fence that has nothing to wait for retires within its submission.
SubmitSignaled(r) ==
    /\ pending[r] = <<>>
    /\ newest' = [newest EXCEPT ![r] = @ + 1]
    /\ retired' = [retired EXCEPT ![r] = newest[r] + 1]
    /\ UNCHANGED pending

Retire(r) ==
    \E k \in DOMAIN pending[r] :
        /\ retired' = [retired EXCEPT ![r] = pending[r][k]]
        /\ pending' = [pending EXCEPT ![r] = SubSeq(@, k + 1, Len(@))]
        /\ UNCHANGED newest

\* The submission of the newest fence fails after all.
Withdraw(r) ==
    /\ pending[r] # <<>>
    /\ pending[r][Len(pending[r])] = newest[r]
    /\ pending' = [pending EXCEPT ![r] = SubSeq(@, 1, Len(@) - 1)]
    /\ UNCHANGED <<newest, retired>>

Destroy ==
    /\ pending' = [r \in Rings |-> <<>>]
    /\ UNCHANGED <<newest, retired>>

Next ==
    \/ \E r \in Rings : Submit(r) \/ SubmitSignaled(r) \/ Retire(r) \/ Withdraw(r)
    \/ Destroy

Spec == Init /\ [][Next]_vars

\* Pending fences are in submission order and none of them was retired.
InOrder ==
    \A r \in Rings :
        /\ \A i, j \in DOMAIN pending[r] : i < j => pending[r][i] < pending[r][j]
        /\ \A i \in DOMAIN pending[r] :
               retired[r] < pending[r][i] /\ pending[r][i] <= newest[r]
        /\ retired[r] <= newest[r]

\* Fences of a ring retire in submission order.
RetiresInOrder == [][\A r \in Rings : retired'[r] >= retired[r]]_vars
=============================================================================
