----------------------------- MODULE MCProposals -----------------------------
(***************************************************************************)
(* Instances of Proposals: account 1 is ruled by a key and by account 2,   *)
(* the genesis account by the delegates 1 and 2.                           *)
(***************************************************************************)
EXTENDS ProposalProperties

k1 == 11
k2 == 12

Auth(t, s) == [threshold |-> t, auths |-> s]
M(x, w) == [who |-> x, weight |-> w]
Sole(k) == Auth(1, <<M(k, 1)>>)
Both(o, a) == [owner |-> o, active |-> a]
Votes(v1, v2) == <<M(1, v1), M(2, v2)>>
SomeTallies == {Votes(1, 0)}

Joint == Both(Sole(k1), Auth(2, <<M(k1, 1), M(2, 1)>>))
SomeAuths ==
    {[a \in 0 .. 2 |-> IF a = 0 THEN GenesisAuthority(Votes(2, 3)) ELSE IF a = 1 THEN x ELSE y] :
        x \in {Joint}, y \in {Both(Sole(k2), Sole(k2)), Both(Sole(k2), Auth(1, <<M(k2, 1), M(1, 1)>>))}}
SomeBalances == [a \in 0 .. 2 |-> IF a = 1 THEN 0 ELSE 1]

Transfer(a, b) == [kind |-> "transfer", from |-> a, to |-> b, amount |-> 1]
Update(p, a, add, remove) == [kind |-> "proposal_update", payer |-> a, proposal |-> p, add |-> add, remove |-> remove]
Active(S) == [Nobody EXCEPT !.active = S]
Owner(S) == [Nobody EXCEPT !.owner = S]
ByKey(S) == [Nobody EXCEPT !.keys = S]
Delete(p, a, o) == [kind |-> "proposal_delete", payer |-> a, proposal |-> p, owner |-> o]
NewKey == [kind |-> "account_update", account |-> 1, active |-> Sole(k2)]
Proposal(ops, l, r) == [payer |-> 2, ops |-> ops, lifetime |-> l, review |-> r]

SomeProposals ==
    {Proposal(<<Transfer(1, 2)>>, 2, NoReview),
     Proposal(<<Transfer(0, 2)>>, 3, 2),
     Proposal(<<NewKey, Transfer(1, 2)>>, 2, NoReview),
     Proposal(<<Update(1, 2, Active({2}), Nobody)>>, 2, NoReview)}
SomeOperations ==
    {Transfer(2, 1), NewKey, Delete(1, 1, FALSE), Update(1, 2, ByKey({k1}), Nobody),
     Update(1, 2, Owner({1}), Nobody), Update(1, 2, Nobody, Active({2}))}
    \cup {Update(p, 2, Active({2}), Nobody) : p \in 1 .. 2}
=============================================================================
