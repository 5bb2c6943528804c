------------------------------ MODULE MCMembership ------------------------------
(* Who is a member, and of what workspace: the delegations a member shows, and  *)
(* the folder that carries the workspace and its keys to a device.  They share  *)
(* no state, so a behaviour is one of either.                                   *)
(* Three principals, commands at two depths, the resource of another workspace, *)
(* delegations that are over at second 1 or begin there.  Device 1 holds the    *)
(* seeds and creates in one folder twice; device 2 is invited.                  *)
EXTENDS Bootstrap, Delegation, TLC

CONSTANTS pa, pb, root, here, other, c1, c2, s1, s2

Names == {<<"workspace">>, <<"workspace", "read">>}
Times == {[nbf |-> 0, exp |-> 1], [nbf |-> 1, exp |-> Never]}
Seeds == [c \in {c1, c2} |-> {1}]
SlotSymmetry == Permutations({s1, s2})

VARIABLE part

MembershipInit == Init /\ DelegationInit /\ part \in {"delegation", "folder"}

MembershipNext ==
    \/ part = "delegation" /\ DelegationNext /\ UNCHANGED <<vars, part>>
    \/ part = "folder" /\ Next /\ UNCHANGED <<delegationVars, part>>

MembershipSpec == MembershipInit /\ [][MembershipNext]_<<vars, delegationVars, part>>
=============================================================================
