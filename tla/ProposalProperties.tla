------------------------- MODULE ProposalProperties -------------------------
(***************************************************************************)
(* What proposals and transactions promise.                                *)
(***************************************************************************)
EXTENDS Proposals

\* The authority of an account as it is meant: the least set of accounts such
\* that one is in it that approved itself, or whose members in it and keys that
\* approved carry the weight that it asks for, at any depth and in any order.
Weight(authority, S) ==
    LET share == [i \in DOMAIN authority.auths |->
                    IF authority.auths[i].who \in S THEN authority.auths[i].weight ELSE 0]
    IN  MapThenSumSet(LAMBDA i : share[i], DOMAIN share)
Closed(auths, keys, class, S) ==
    \A a \in Accounts : Weight(auths[a][class], S \cup keys) >= auths[a][class].threshold => a \in S
Granted(auths, approvals, class) ==
    {a \in Accounts : \A S \in SUBSET Accounts :
       approvals[class] \subseteq S /\ Closed(auths, approvals.keys, class, S) => a \in S}

\* Whatever ran had every authority it requires: the approvals it had when it ran
\* grant them, under the authorities of that moment.  An approval that was
\* withdrawn, a key that was replaced or a delegate that was voted out does not
\* count, and check_authority's cache and depth limit grant nothing more.
OnlyApproved ==
    \A i \in DOMAIN db.ran :
        LET r == db.ran[i]
        IN  \A c \in Classes : r.proposal.required[c] \subseteq Granted(r.auths, r.proposal.available, c)

\* A proposal takes effect once: tried at every update, at its expiration and
\* inside other proposals, it is gone once it has succeeded.  It never runs after
\* its expiration, and one with a review period never before it.
RunsOnce ==
    /\ \A i, j \in DOMAIN db.ran : i # j => db.ran[i].proposal.id # db.ran[j].proposal.id
    /\ \A i \in DOMAIN db.ran :
         LET p == db.ran[i].proposal
         IN  /\ ~ Exists(db, p.id)
             /\ IF p.reviewed THEN db.ran[i].at = p.expiration ELSE db.ran[i].at <= p.expiration

\* The approvals that a proposal asks for are sufficient: none that is authorised
\* fails an authority check of its own operations (proposal_update_evaluator's
\* comment is "not yet 100% sure" of it).
ApprovalsSuffice == ~ refused

\* No transaction is accepted again after its record was removed.
NoReplay == [][(db'.transactions \ db.transactions) \cap db.accepted = {}]_vars

\* Every transaction and block ends, whatever proposals run inside one another.
Ends == (stack # <<>>) ~> (stack = <<>>)
=============================================================================
