---------------------------- MODULE ProposalProofs ----------------------------
(***************************************************************************)
(* Proofs about proposals, the records of transactions and authorities,    *)
(* for every set of accounts, operations and proposals, every bound, every *)
(* tree of authorities and every depth limit: whatever runs was approved,  *)
(* and what was approved does not fail for want of an authority.           *)
(***************************************************************************)
EXTENDS ProposalProperties, ProofLibrary

\* The records of the model, by their fields.
IsDb(d) == d = [auths |-> d.auths, balance |-> d.balance, proposals |-> d.proposals,
                next_id |-> d.next_id, transactions |-> d.transactions,
                accepted |-> d.accepted, ran |-> d.ran]
IsProposal(p) == p = [id |-> p.id, ops |-> p.ops, expiration |-> p.expiration,
                      reviewed |-> p.reviewed, review_period_time |-> p.review_period_time,
                      required |-> p.required, available |-> p.available]
IsFrame(f) == f = [kind |-> f.kind, id |-> f.id, todo |-> f.todo, saved |-> f.saved,
                   keys |-> f.keys, approved |-> f.approved]

\* Operations that speak of proposals older than id only.
Speaks(op) == op.kind \in {"proposal_update", "proposal_delete"}
Backward(ops, id) ==
    /\ IsSeq(ops)
    /\ \A i \in DOMAIN ops : WellFormed(ops[i]) /\ (Speaks(ops[i]) => ops[i].proposal < id)

\* When a proposal may run.
Timely(p, t) == IF p.reviewed THEN t = p.expiration ELSE t <= p.expiration

ProposalInv(d, p, t) ==
    /\ IsProposal(p) /\ p.id \in Nat /\ p.id < d.next_id
    /\ p.expiration \in Int /\ t <= p.expiration
    /\ Backward(p.ops, p.id)

RanInv(d, r) ==
    /\ r.proposal.id \in Nat /\ r.proposal.id < d.next_id
    /\ ~ Exists(d, r.proposal.id)
    /\ Timely(r.proposal, r.at)

\* Of the database and of every database that an exception may bring back.
DbInv(d, t) ==
    /\ IsDb(d) /\ d.next_id \in Nat /\ IsSeq(d.ran)
    /\ \A p \in d.proposals : ProposalInv(d, p, t)
    /\ \A p, q \in d.proposals : p.id = q.id => p = q
    /\ \A i \in DOMAIN d.ran : RanInv(d, d.ran[i])
    /\ \A i, j \in DOMAIN d.ran : i # j => d.ran[i].proposal.id # d.ran[j].proposal.id
    /\ \A x \in d.transactions \cup d.accepted : x.expiration \in Int
    /\ \A x \in d.accepted : x \in d.transactions \/ x.expiration <= t

\* Outside a block every proposal still has time.
Ahead(d, t) == \A p \in d.proposals : t < p.expiration

\* The frame f of a proposal that is being run, at time t with database d: the
\* proposal is there, in the database and in the one that an exception inside it
\* brings back.
RunningInv(d, f, t) ==
    /\ f.id \in Nat /\ Exists(f.saved, f.id) /\ Exists(d, f.id)
    /\ Timely(Find(f.saved, f.id), t)
    /\ Backward(f.todo, f.id)
    /\ f.saved.transactions = d.transactions /\ f.saved.accepted = d.accepted

FrameInv(d, f, t) ==
    /\ IsFrame(f) /\ IsSeq(f.todo) /\ DbInv(f.saved, t)
    /\ \A i \in DOMAIN f.todo : WellFormed(f.todo[i])
    /\ f.kind \in {"transaction", "block", "proposal"}
    /\ f.kind = "block" => f.todo = <<>>
    /\ f.kind = "transaction" => f.saved.transactions \subseteq d.transactions
    /\ f.kind = "proposal" => RunningInv(d, f, t)

\* What runs inside a proposal is older than it, and leaves it there.
Nested(f, g) == f.kind = "proposal" => g.id < f.id /\ Exists(g.saved, f.id)

\* The frames s, at time t with database d.
StackInv(d, s, t) ==
    /\ IsSeq(s)
    /\ \A k \in DOMAIN s : FrameInv(d, s[k], t) /\ (k = 1 <=> s[k].kind # "proposal")
    /\ \A k, j \in DOMAIN s : k < j => Nested(s[k], s[j])
    /\ (s = <<>> \/ s[1].kind = "transaction") =>
         Ahead(d, t) /\ \A k \in DOMAIN s : Ahead(s[k].saved, t)

\* The inductive invariant.
ProposalsInv == now \in Nat /\ DbInv(db, now) /\ StackInv(db, stack, now)

----------------------------------------------------------------------------
(* Databases.                                                              *)

\* Find returns the only proposal with an id.
LEMMA FindProposal ==
  ASSUME NEW d, DbInv(d, now), NEW id, Exists(d, id)
  PROVE  Find(d, id) \in d.proposals /\ Find(d, id).id = id
  BY DEF Exists, Find

\* Every proposal is the one found by its id.
LEMMA FindUnique ==
  ASSUME NEW d, DbInv(d, now), NEW p \in d.proposals
  PROVE  Exists(d, p.id) /\ Find(d, p.id) = p
  BY DEF Exists, Find, DbInv

\* A change of the proposals that adds no id keeps the invariant.
LEMMA FewerProposals ==
  ASSUME NEW d, DbInv(d, now), NEW P,
         \A p \in P : ProposalInv(d, p, now) /\ Exists(d, p.id),
         \A p, q \in P : p.id = q.id => p = q
  PROVE  DbInv([d EXCEPT !.proposals = P], now)
  <1> DEFINE e == [d EXCEPT !.proposals = P]
  <1>1. /\ e = [auths |-> d.auths, balance |-> d.balance, proposals |-> P,
                next_id |-> d.next_id, transactions |-> d.transactions,
                accepted |-> d.accepted, ran |-> d.ran]
        /\ e.next_id = d.next_id /\ e.ran = d.ran /\ e.proposals = P
        /\ e.transactions = d.transactions /\ e.accepted = d.accepted
    BY DEF DbInv, IsDb
  <1> HIDE DEF e
  <1>2. IsDb(e)
    BY <1>1 DEF IsDb
  <1>3. \A p \in e.proposals : ProposalInv(e, p, now)
    BY <1>1 DEF ProposalInv
  <1>4. \A id : Exists(e, id) => Exists(d, id)
    BY <1>1 DEF Exists
  <1>5. \A i \in DOMAIN e.ran : RanInv(e, e.ran[i])
    BY <1>1, <1>4 DEF RanInv, DbInv
  <1>6. QED
    BY <1>1, <1>2, <1>3, <1>5 DEF DbInv, e

\* Removing a proposal.
LEMMA RemovedInv ==
  ASSUME NEW d, DbInv(d, now), NEW id
  PROVE  /\ DbInv(Removed(d, id), now) /\ ~ Exists(Removed(d, id), id)
         /\ \A x : x # id /\ Exists(d, x) => Exists(Removed(d, id), x)
         /\ Ahead(d, now) => Ahead(Removed(d, id), now)
         /\ Removed(d, id).transactions = d.transactions /\ Removed(d, id).accepted = d.accepted
         /\ Removed(d, id).ran = d.ran /\ Removed(d, id).next_id = d.next_id
         /\ Removed(d, id).proposals = {p \in d.proposals : p.id # id}
  <1> DEFINE P == {p \in d.proposals : p.id # id}
  <1>1. \A p \in P : ProposalInv(d, p, now) /\ Exists(d, p.id)
    BY FindUnique DEF DbInv
  <1>2. \A p, q \in P : p.id = q.id => p = q
    BY DEF DbInv
  <1>3. Removed(d, id) = [d EXCEPT !.proposals = P]
    BY DEF Removed
  <1>4. DbInv(Removed(d, id), now)
    <2> HIDE DEF P
    <2> QED
      BY <1>1, <1>2, <1>3, FewerProposals
  <1>5. /\ Removed(d, id).proposals = P /\ Removed(d, id).transactions = d.transactions
        /\ Removed(d, id).accepted = d.accepted
        /\ Removed(d, id).ran = d.ran /\ Removed(d, id).next_id = d.next_id
    BY <1>3 DEF DbInv, IsDb
  <1>6. QED
    BY <1>4, <1>5 DEF Exists, Ahead

\* Updating the approvals of a proposal.
LEMMA UpdatedInv ==
  ASSUME NEW d, DbInv(d, now), NEW op, Exists(d, op.proposal)
  PROVE  /\ DbInv(Updated(d, op), now)
         /\ \A x : Exists(d, x) => Exists(Updated(d, op), x)
         /\ Ahead(d, now) => Ahead(Updated(d, op), now)
         /\ Updated(d, op).transactions = d.transactions /\ Updated(d, op).accepted = d.accepted
  <1> DEFINE p == Find(d, op.proposal)
             a == [c \in {"active", "owner", "keys"} |-> (p.available[c] \cup op.add[c]) \ op.remove[c]]
             q == [p EXCEPT !.available = a]
             P == {x \in d.proposals : x.id # q.id} \cup {q}
  <1>1. p \in d.proposals /\ p.id = op.proposal
    BY FindProposal
  <1>2. Updated(d, op) = [d EXCEPT !.proposals = P]
    BY DEF Updated, Replaced
  <1> HIDE DEF p, a
  <1>3. /\ IsProposal(q) /\ q.id = p.id /\ q.ops = p.ops /\ q.expiration = p.expiration
        /\ q.reviewed = p.reviewed
    BY <1>1 DEF DbInv, ProposalInv, IsProposal
  <1> HIDE DEF q
  <1>4. ProposalInv(d, q, now)
    BY <1>1, <1>3 DEF DbInv, ProposalInv
  <1>5. \A x \in P : ProposalInv(d, x, now) /\ Exists(d, x.id)
    BY <1>1, <1>3, <1>4 DEF DbInv, Exists
  <1>6. \A x, y \in P : x.id = y.id => x = y
    BY DEF DbInv
  <1>7. /\ Updated(d, op).proposals = P /\ Updated(d, op).transactions = d.transactions
        /\ Updated(d, op).accepted = d.accepted
    BY <1>2 DEF DbInv, IsDb
  <1>8. \A x : Exists(d, x) => Exists(Updated(d, op), x)
    BY <1>1, <1>3, <1>7 DEF Exists
  <1>9. Ahead(d, now) => Ahead(Updated(d, op), now)
    BY <1>1, <1>3, <1>7 DEF Ahead
  <1>10. DbInv(Updated(d, op), now)
    <2> HIDE DEF P
    <2> QED
      BY <1>2, <1>5, <1>6, FewerProposals
  <1>11. QED
    BY <1>7, <1>8, <1>9, <1>10

\* Creating a proposal, of operations that speak of older ones only.
LEMMA CreatedInv ==
  ASSUME NEW d, DbInv(d, now), now \in Nat, NEW c \in Proposable, CanCreate(d, c)
  PROVE  /\ DbInv(Created(d, c), now)
         /\ \A x : Exists(d, x) => Exists(Created(d, c), x)
         /\ Ahead(d, now) => Ahead(Created(d, c), now)
         /\ Created(d, c).transactions = d.transactions /\ Created(d, c).accepted = d.accepted
  <1> DEFINE own == RequiredOf(c.ops, "owner")
             act == RequiredOf(c.ops, "active")
             p == [id |-> d.next_id, ops |-> c.ops, expiration |-> now + c.lifetime,
                   reviewed |-> c.review # NoReview,
                   review_period_time |-> now + c.lifetime - c.review,
                   required |-> [active |-> act \ own, owner |-> own],
                   available |-> Nobody]
             e == Created(d, c)
  <1>1. e = [d EXCEPT !.proposals = @ \cup {p}, !.next_id = @ + 1]
    BY DEF Created
  <1> HIDE DEF own, act
  <1>2. /\ p.id = d.next_id /\ p.ops = c.ops /\ p.expiration = now + c.lifetime
        /\ IsProposal(p)
    BY DEF IsProposal
  <1>3. c.lifetime \in Nat /\ c.lifetime > 0 /\ RefersBack(d, c.ops)
    BY ProposalsAssumption DEF CanCreate
  <1> HIDE DEF p
  <1>4. /\ IsDb(e) /\ e.proposals = d.proposals \cup {p} /\ e.next_id = d.next_id + 1
        /\ e.ran = d.ran /\ e.transactions = d.transactions /\ e.accepted = d.accepted
    BY <1>1 DEF DbInv, IsDb
  <1> HIDE DEF e
  <1>5. Backward(c.ops, d.next_id)
    <2>1. IsSeq(c.ops) /\ \A i \in DOMAIN c.ops : WellFormed(c.ops[i])
      BY OperationsAssumption DEF IsSeq
    <2>2. \A i \in DOMAIN c.ops : Speaks(c.ops[i]) => c.ops[i].proposal < d.next_id
      BY <1>3 DEF RefersBack, Exists, Speaks, DbInv, ProposalInv
    <2>3. QED
      BY <2>1, <2>2 DEF Backward
  <1>6. ProposalInv(e, p, now)
    BY <1>2, <1>3, <1>4, <1>5 DEF ProposalInv, DbInv
  <1>7. \A x \in d.proposals : ProposalInv(e, x, now)
    BY <1>4 DEF ProposalInv, DbInv
  <1>8. \A x \in d.proposals : x.id # p.id
    BY <1>2 DEF ProposalInv, DbInv
  <1>9. \A i \in DOMAIN e.ran : RanInv(e, e.ran[i])
    BY <1>2, <1>4 DEF RanInv, DbInv, Exists
  <1>10. DbInv(e, now)
    <2>1. \A x, y \in e.proposals : x.id = y.id => x = y
      BY <1>4, <1>8 DEF DbInv
    <2>2. QED
      BY <1>4, <1>6, <1>7, <1>9, <2>1 DEF DbInv
  <1>11. \A x : Exists(d, x) => Exists(e, x)
    BY <1>4 DEF Exists
  <1>12. Ahead(d, now) => Ahead(e, now)
    BY <1>2, <1>3, <1>4 DEF Ahead
  <1>13. QED
    BY <1>4, <1>10, <1>11, <1>12 DEF e

\* The other operations leave the proposals alone.
LEMMA SameProposals ==
  ASSUME NEW d, DbInv(d, now), NEW e, IsDb(e),
         e.proposals = d.proposals, e.next_id = d.next_id, e.ran = d.ran,
         e.transactions = d.transactions, e.accepted = d.accepted
  PROVE  /\ DbInv(e, now)
         /\ \A x : Exists(d, x) => Exists(e, x)
         /\ Ahead(d, now) => Ahead(e, now)
  BY DEF DbInv, ProposalInv, RanInv, Exists, Ahead

\* An operation that is applied keeps the invariant, records no transaction and
\* removes no proposal but the one it speaks of.
LEMMA AppliedInv ==
  ASSUME NEW d, DbInv(d, now), now \in Nat, NEW op, WellFormed(op), NEW keys, Evaluates(d, op, keys)
  PROVE  /\ DbInv(Applied(d, op), now)
         /\ \A x : Exists(d, x) /\ (Speaks(op) => op.proposal # x) => Exists(Applied(d, op), x)
         /\ Ahead(d, now) => Ahead(Applied(d, op), now)
         /\ Applied(d, op).transactions = d.transactions /\ Applied(d, op).accepted = d.accepted
  <1>1. CASE op.kind = "transfer"
    <2> DEFINE e == [d EXCEPT !.balance = Transferred(@, op)]
    <2>1. Applied(d, op) = e
      BY <1>1 DEF Applied
    <2>2. /\ IsDb(e) /\ e.proposals = d.proposals /\ e.next_id = d.next_id /\ e.ran = d.ran
          /\ e.transactions = d.transactions /\ e.accepted = d.accepted
      BY DEF DbInv, IsDb
    <2> HIDE DEF e
    <2>3. QED
      BY <2>1, <2>2, SameProposals
  <1>2. CASE op.kind = "account_update"
    <2> DEFINE e == [d EXCEPT !.auths[op.account].active = op.active]
    <2>1. Applied(d, op) = e
      BY <1>2 DEF Applied
    <2>2. /\ IsDb(e) /\ e.proposals = d.proposals /\ e.next_id = d.next_id /\ e.ran = d.ran
          /\ e.transactions = d.transactions /\ e.accepted = d.accepted
      BY DEF DbInv, IsDb
    <2> HIDE DEF e
    <2>3. QED
      BY <2>1, <2>2, SameProposals
  <1>3. CASE op.kind = "proposal_create"
    <2>1. Applied(d, op) = Created(d, op.content) /\ op.content \in Proposable /\ CanCreate(d, op.content)
      BY <1>3 DEF Applied, WellFormed, Evaluates
    <2>2. QED
      BY <2>1, CreatedInv
  <1>4. CASE op.kind = "proposal_update"
    <2>1. Applied(d, op) = Updated(d, op) /\ Exists(d, op.proposal)
      BY <1>4 DEF Applied, Evaluates, CanUpdate
    <2>2. QED
      BY <2>1, UpdatedInv
  <1>5. CASE op.kind = "proposal_delete"
    <2>1. Applied(d, op) = Removed(d, op.proposal) /\ Speaks(op)
      BY <1>5 DEF Applied, Speaks
    <2>2. QED
      BY <2>1, RemovedInv
  <1>6. QED
    BY <1>1, <1>2, <1>3, <1>4, <1>5 DEF WellFormed

----------------------------------------------------------------------------
(* Frames.                                                                 *)

\* A frame keeps its invariant when the database keeps its proposal.
LEMMA KeepFrame ==
  ASSUME NEW d, NEW e, NEW f, NEW t, FrameInv(d, f, t),
         f.kind = "proposal" => Exists(e, f.id),
         e.transactions = d.transactions, e.accepted = d.accepted
  PROVE  FrameInv(e, f, t)
  BY DEF FrameInv, RunningInv

\* The last frame goes.
LEMMA PopFrame ==
  ASSUME NEW d, NEW s, NEW t, StackInv(d, s, t), s # <<>>, NEW e,
         Len(s) = 1 => Ahead(e, t),
         Len(s) > 1 => e.transactions = d.transactions /\ e.accepted = d.accepted,
         \A k \in 1 .. Len(s) - 1 : s[k].kind = "proposal" => Exists(e, s[k].id),
         s[1].kind = "transaction" => Ahead(e, t)
  PROVE  StackInv(e, Front(s), t)
  <1> DEFINE r == Front(s)
  <1>1. /\ IsSeq(r) /\ Len(s) \in Nat \ {0} /\ DOMAIN s = 1 .. Len(s)
        /\ Len(r) = Len(s) - 1 /\ DOMAIN r = 1 .. Len(s) - 1
        /\ \A i \in 1 .. Len(s) - 1 : r[i] = s[i]
    BY FrontSeq DEF StackInv
  <1> HIDE DEF r
  <1>2. r = <<>> => Len(s) = 1
    <2>1. ASSUME r = <<>>
          PROVE  Len(r) = 0
      BY <2>1, EmptySeq
    <2> DEFINE n == Len(s)
               m == Len(r)
    <2>2. m = n - 1 /\ n \in Nat
      BY <1>1
    <2> HIDE DEF m, n
    <2>3. m = 0 => n = 1
      BY <2>2
    <2>4. QED
      BY <2>1, <2>3 DEF m, n
  <1>3. r # <<>> => Len(s) > 1 /\ r[1] = s[1]
    BY <1>1, EmptySeq DEF IsSeq
  <1>4. \A k \in DOMAIN r : FrameInv(e, r[k], t) /\ (k = 1 <=> r[k].kind # "proposal")
    <2> SUFFICES ASSUME NEW k \in DOMAIN r
                 PROVE  FrameInv(e, r[k], t) /\ (k = 1 <=> r[k].kind # "proposal")
      OBVIOUS
    <2>1. k \in DOMAIN s /\ r[k] = s[k] /\ Len(s) > 1 /\ k \in 1 .. Len(s) - 1
      BY <1>1
    <2>2. FrameInv(d, s[k], t) /\ (k = 1 <=> s[k].kind # "proposal")
      BY <2>1 DEF StackInv
    <2>3. QED
      BY <2>1, <2>2, KeepFrame
  <1>5. \A k, j \in DOMAIN r : k < j => Nested(r[k], r[j])
    BY <1>1 DEF StackInv
  <1>6. (r = <<>> \/ r[1].kind = "transaction") =>
          Ahead(e, t) /\ \A k \in DOMAIN r : Ahead(r[k].saved, t)
    BY <1>1, <1>2, <1>3 DEF StackInv
  <1>7. QED
    BY <1>1, <1>4, <1>5, <1>6 DEF StackInv, r

\* The session of a proposal is opened.
LEMMA PushFrame ==
  ASSUME NEW d, NEW s, NEW t, StackInv(d, s, t), s # <<>>, NEW f,
         FrameInv(d, f, t), f.kind = "proposal", f.saved = d,
         \A k \in DOMAIN s : Nested(s[k], f)
  PROVE  StackInv(d, Append(s, f), t)
  <1> DEFINE r == Append(s, f)
             n == Len(s)
  <1>1. /\ IsSeq(r) /\ r # <<>> /\ n \in Nat /\ DOMAIN s = 1 .. n
        /\ DOMAIN r = 1 .. n + 1 /\ r[n + 1] = f
        /\ \A i \in 1 .. n : r[i] = s[i]
    BY AppendSeq DEF StackInv
  <1>2. n >= 1
    BY <1>1, EmptySeq DEF IsSeq, StackInv
  <1> HIDE DEF r, n
  <1>3. \A k \in DOMAIN r : FrameInv(d, r[k], t) /\ (k = 1 <=> r[k].kind # "proposal")
    BY <1>1, <1>2 DEF StackInv
  <1>4. \A k, j \in DOMAIN r : k < j => Nested(r[k], r[j])
    BY <1>1, <1>2 DEF StackInv
  <1>5. r[1].kind = "transaction" => Ahead(d, t) /\ \A k \in DOMAIN r : Ahead(r[k].saved, t)
    BY <1>1, <1>2 DEF StackInv
  <1>6. QED
    BY <1>1, <1>3, <1>4, <1>5 DEF StackInv, r

\* An operation has been applied in the last frame.
LEMMA ReplaceFrame ==
  ASSUME NEW d, NEW s, NEW t, StackInv(d, s, t), s # <<>>, NEW e, NEW f,
         FrameInv(e, f, t), f.kind = Last(s).kind, f.id = Last(s).id, f.saved = Last(s).saved,
         e.transactions = d.transactions, e.accepted = d.accepted,
         \A k \in DOMAIN s : s[k].kind = "proposal" => Exists(e, s[k].id),
         Ahead(d, t) => Ahead(e, t)
  PROVE  StackInv(e, Append(Front(s), f), t) /\ DOMAIN Append(Front(s), f) = DOMAIN s
         /\ \A k \in DOMAIN s : Append(Front(s), f)[k].kind = s[k].kind /\ Append(Front(s), f)[k].id = s[k].id
  <1> DEFINE r == Append(Front(s), f)
             n == Len(s)
  <1>1. /\ IsSeq(Front(s)) /\ n \in Nat \ {0} /\ DOMAIN s = 1 .. n
        /\ Len(Front(s)) = n - 1 /\ \A i \in 1 .. n - 1 : Front(s)[i] = s[i]
    BY FrontSeq DEF StackInv
  <1>2. /\ IsSeq(r) /\ r # <<>> /\ DOMAIN r = 1 .. n /\ r[n] = f
        /\ \A i \in 1 .. n - 1 : r[i] = s[i]
    <2> DEFINE b == Front(s)
    <2> HIDE DEF b, n
    <2>1. IsSeq(b) /\ Len(b) = n - 1 /\ n \in Nat /\ \A i \in 1 .. n - 1 : b[i] = s[i]
      BY <1>1 DEF b
    <2>2. /\ IsSeq(Append(b, f)) /\ Append(b, f) # <<>>
          /\ DOMAIN Append(b, f) = 1 .. n - 1 + 1 /\ Append(b, f)[n - 1 + 1] = f
          /\ \A i \in 1 .. n - 1 : Append(b, f)[i] = b[i]
      BY <2>1, AppendSeq
    <2>3. n - 1 + 1 = n
      BY <2>1
    <2>4. QED
      BY <2>1, <2>2, <2>3 DEF b
  <1>3. Last(s) = s[n]
    BY DEF Last
  <1> HIDE DEF r, n
  <1>4. \A k \in DOMAIN r : r[k].kind = s[k].kind /\ r[k].id = s[k].id /\ r[k].saved = s[k].saved
    BY <1>1, <1>2, <1>3
  <1>5. \A k \in DOMAIN r : FrameInv(e, r[k], t) /\ (k = 1 <=> r[k].kind # "proposal")
    <2> SUFFICES ASSUME NEW k \in DOMAIN r
                 PROVE  FrameInv(e, r[k], t) /\ (k = 1 <=> r[k].kind # "proposal")
      OBVIOUS
    <2>1. k \in DOMAIN s /\ FrameInv(d, s[k], t) /\ (k = 1 <=> s[k].kind # "proposal")
      BY <1>1, <1>2 DEF StackInv
    <2>2. k # n => FrameInv(e, r[k], t)
      BY <1>1, <1>2, <2>1, KeepFrame
    <2>3. QED
      BY <1>2, <1>4, <2>1, <2>2
  <1>6. \A k, j \in DOMAIN r : k < j => Nested(r[k], r[j])
    BY <1>1, <1>2, <1>4 DEF StackInv, Nested
  <1>7. r[1].kind = "transaction" => Ahead(e, t) /\ \A k \in DOMAIN r : Ahead(r[k].saved, t)
    BY <1>1, <1>2, <1>4 DEF StackInv
  <1>8. QED
    BY <1>1, <1>2, <1>4, <1>5, <1>6, <1>7 DEF StackInv, r

----------------------------------------------------------------------------
(* The steps.                                                              *)

\* The top frame.
LEMMA TopFrame ==
  ASSUME StackInv(db, stack, now), ~ Idle
  PROVE  /\ Len(stack) \in Nat \ {0} /\ DOMAIN stack = 1 .. Len(stack) /\ IsSeq(stack)
         /\ stack # <<>> /\ Top = stack[Len(stack)] /\ FrameInv(db, Top, now)
         /\ Top.kind # "proposal" <=> Len(stack) = 1
         /\ \A k \in 1 .. Len(stack) - 1 : Nested(stack[k], Top)
  <1>1. IsSeq(stack) /\ stack # <<>>
    BY DEF StackInv, Idle
  <1>2. Len(stack) \in Nat \ {0} /\ DOMAIN stack = 1 .. Len(stack)
    BY <1>1, FrontSeq
  <1>3. Top = stack[Len(stack)] /\ Len(stack) \in DOMAIN stack
    BY <1>2 DEF Top, Last
  <1>4. FrameInv(db, Top, now) /\ (Len(stack) = 1 <=> Top.kind # "proposal")
    BY <1>3 DEF StackInv
  <1>5. \A k \in 1 .. Len(stack) - 1 : Nested(stack[k], Top)
    BY <1>2, <1>3 DEF StackInv
  <1>6. QED
    BY <1>1, <1>2, <1>3, <1>4, <1>5

\* The frame of a proposal that starts.
LEMMA StartsInv ==
  ASSUME NEW d, DbInv(d, now), NEW p \in d.proposals, Timely(p, now)
  PROVE  /\ FrameInv(d, push_proposal(d, p), now)
         /\ push_proposal(d, p).kind = "proposal" /\ push_proposal(d, p).saved = d
         /\ push_proposal(d, p).id = p.id
  <1> DEFINE f == push_proposal(d, p)
  <1>1. /\ IsFrame(f) /\ f.kind = "proposal" /\ f.id = p.id /\ f.todo = p.ops /\ f.saved = d
    BY DEF push_proposal, Frame, IsFrame
  <1> HIDE DEF f
  <1>2. Exists(d, p.id) /\ Find(d, p.id) = p
    BY FindUnique
  <1>3. p.id \in Nat /\ Backward(p.ops, p.id)
    BY DEF DbInv, ProposalInv
  <1>4. RunningInv(d, f, now)
    BY <1>1, <1>2, <1>3 DEF RunningInv
  <1>5. IsSeq(f.todo) /\ \A i \in DOMAIN f.todo : WellFormed(f.todo[i])
    BY <1>1, <1>3 DEF Backward
  <1>6. FrameInv(d, f, now)
    BY <1>1, <1>4, <1>5 DEF FrameInv
  <1>7. QED
    BY <1>1, <1>6 DEF f

\* Before the first transaction.
LEMMA InitInv == Init => ProposalsInv
  <1> SUFFICES ASSUME Init
               PROVE  ProposalsInv
    OBVIOUS
  <1>1. /\ now = 1 /\ stack = <<>> /\ IsDb(db) /\ db.proposals = {} /\ db.next_id = 1
        /\ db.transactions = {} /\ db.accepted = {} /\ db.ran = <<>>
    BY DEF Init, IsDb
  <1>2. IsSeq(<<>>)
    BY SeqOfItself, EmptySeq
  <1>3. DbInv(db, now)
    BY <1>1, <1>2 DEF DbInv
  <1>4. StackInv(db, stack, now)
    BY <1>1, <1>2 DEF StackInv, Ahead
  <1>5. QED
    BY <1>1, <1>3, <1>4 DEF ProposalsInv

\* A stack of one frame, of a transaction or a block.
LEMMA FirstFrame ==
  ASSUME NEW d, NEW f, NEW t, FrameInv(d, f, t), f.kind # "proposal",
         f.kind = "transaction" => Ahead(d, t) /\ Ahead(f.saved, t)
  PROVE  StackInv(d, <<f>>, t)
  <1>1. /\ IsSeq(<<f>>) /\ <<f>> # <<>> /\ DOMAIN <<f>> = {1} /\ <<f>>[1] = f
    <2>1. <<f>> \in Seq({f}) /\ <<f>> # <<>> /\ DOMAIN <<f>> = {1} /\ <<f>>[1] = f
      OBVIOUS
    <2>2. QED
      BY <2>1, SeqOfItself
  <1>2. /\ \A k \in DOMAIN <<f>> : FrameInv(d, <<f>>[k], t) /\ (k = 1 <=> <<f>>[k].kind # "proposal")
        /\ \A k, j \in DOMAIN <<f>> : ~ (k < j)
        /\ f.kind = "transaction" => \A k \in DOMAIN <<f>> : Ahead(<<f>>[k].saved, t)
    BY <1>1
  <1> DEFINE s == <<f>>
  <1> HIDE DEF s
  <1>3. QED
    BY <1>1, <1>2 DEF StackInv, s

\* A record goes only when its transaction has expired: none comes back.
Fresh == (db'.transactions \ db.transactions) \cap db.accepted = {}

\* push_transaction: a transaction that is not expired and was accepted before
\* still has its record.
LEMMA PushTransaction ==
  ASSUME ProposalsInv, NEW op, WellFormed(op), NEW keys, NEW x \in Expirations,
         push_transaction(op, keys, x)
  PROVE  ProposalsInv' /\ Fresh
  <1> DEFINE trx == [op |-> op, expiration |-> x]
             f == Frame("transaction", 0, <<op>>, db, keys, {})
  <1>1. /\ stack = <<>> /\ trx \notin db.transactions /\ now + 1 <= x
        /\ db' = [db EXCEPT !.transactions = @ \cup {trx}, !.accepted = @ \cup {trx}]
        /\ stack' = <<f>> /\ now' = now
    BY DEF push_transaction, Idle, Pending
  <1>2. now \in Nat /\ DbInv(db, now) /\ Ahead(db, now) /\ x \in Int /\ trx.expiration = x
    BY <1>1, ProposalsAssumption DEF ProposalsInv, StackInv
  <1>3. trx \notin db.accepted
    BY <1>1, <1>2 DEF DbInv
  <1> HIDE DEF trx
  <1>4. /\ IsDb(db') /\ db'.proposals = db.proposals /\ db'.next_id = db.next_id
        /\ db'.ran = db.ran /\ db'.transactions = db.transactions \cup {trx}
        /\ db'.accepted = db.accepted \cup {trx}
    BY <1>1, <1>2 DEF DbInv, IsDb
  <1>5. DbInv(db', now)
    BY <1>2, <1>4 DEF DbInv, ProposalInv, RanInv, Exists
  <1>6. Ahead(db', now)
    BY <1>2, <1>4 DEF Ahead
  <1>7. /\ IsFrame(f) /\ f.kind = "transaction" /\ f.todo = <<op>> /\ f.saved = db
    BY DEF Frame, IsFrame
  <1>8. IsSeq(<<op>>) /\ \A i \in DOMAIN <<op>> : WellFormed(<<op>>[i])
    <2>1. <<op>> \in Seq({op}) /\ \A i \in DOMAIN <<op>> : <<op>>[i] = op
      OBVIOUS
    <2>2. QED
      BY <2>1, SeqOfItself
  <1> HIDE DEF f
  <1>9. FrameInv(db', f, now)
    BY <1>2, <1>4, <1>7, <1>8 DEF FrameInv
  <1>10. StackInv(db', stack', now)
    BY <1>1, <1>2, <1>6, <1>7, <1>9, FirstFrame
  <1>11. QED
    BY <1>1, <1>2, <1>3, <1>4, <1>5, <1>10 DEF ProposalsInv, Fresh

\* A second passes: a proposal that had time left has at most reached its
\* expiration.
LEMMA SecondPasses ==
  ASSUME NEW d, NEW t \in Nat, DbInv(d, t), Ahead(d, t)
  PROVE  DbInv(d, t + 1)
  <1>1. \A p \in d.proposals : ProposalInv(d, p, t + 1)
    BY DEF DbInv, ProposalInv, Ahead
  <1>2. \A x \in d.accepted : x \in d.transactions \/ x.expiration <= t + 1
    BY DEF DbInv
  <1>3. QED
    BY <1>1, <1>2 DEF DbInv

\* apply_block: the records of expired transactions go, and only those.
LEMMA ApplyBlock ==
  ASSUME ProposalsInv, apply_block
  PROVE  ProposalsInv' /\ Fresh
  <1> DEFINE f == Frame("block", 0, <<>>, db, {}, {})
             t == now + 1
  <1>1. PICK auths : db' = clear_expired_transactions([db EXCEPT !.auths = auths], now')
    BY DEF apply_block
  <1>2. stack = <<>> /\ stack' = <<f>> /\ now' = t
    BY DEF apply_block, Idle
  <1>3. now \in Nat /\ t \in Nat /\ DbInv(db, now) /\ Ahead(db, now)
    BY <1>2 DEF ProposalsInv, StackInv
  <1>4. DbInv(db, t)
    BY <1>3, SecondPasses
  <1> DEFINE e == [db EXCEPT !.auths = auths]
  <1>5. /\ IsDb(e) /\ e.proposals = db.proposals /\ e.next_id = db.next_id /\ e.ran = db.ran
        /\ e.transactions = db.transactions /\ e.accepted = db.accepted
    BY <1>3 DEF DbInv, IsDb
  <1>6. db' = clear_expired_transactions(e, t)
    BY <1>1, <1>2
  <1> HIDE DEF e
  <1>7. /\ IsDb(db') /\ db'.proposals = db.proposals /\ db'.next_id = db.next_id
        /\ db'.ran = db.ran /\ db'.accepted = db.accepted
        /\ \/ db'.transactions = db.transactions
           \/ /\ db'.transactions = {}
              /\ \A x \in db.transactions : t - x.expiration >= ForkingWindow
    <2>1. CASE \A x \in e.transactions : t - x.expiration >= ForkingWindow
      <3>1. db' = [e EXCEPT !.transactions = {}]
        BY <1>6, <2>1 DEF clear_expired_transactions
      <3>2. QED
        BY <1>5, <2>1, <3>1 DEF IsDb
    <2>2. CASE ~ \A x \in e.transactions : t - x.expiration >= ForkingWindow
      BY <1>5, <1>6, <2>2 DEF clear_expired_transactions
    <2>3. QED
      BY <2>1, <2>2
  <1> HIDE DEF t
  <1>8. \A x \in db'.accepted : x \in db'.transactions \/ x.expiration <= t
    <2>1. ForkingWindow \in Nat
      BY ProposalsAssumption
    <2>2. \A x \in db.transactions \cup db.accepted : x.expiration \in Int
      BY <1>4 DEF DbInv
    <2>3. \A x \in db.accepted : x \in db.transactions \/ x.expiration <= t
      BY <1>4 DEF DbInv
    <2>4. QED
      BY <1>3, <1>7, <2>1, <2>2, <2>3
  <1>9. DbInv(db', t)
    BY <1>4, <1>7, <1>8 DEF DbInv, ProposalInv, RanInv, Exists
  <1>10. IsFrame(f) /\ f.kind = "block" /\ f.todo = <<>> /\ f.saved = db
    BY DEF Frame, IsFrame
  <1>11. IsSeq(<<>>)
    BY SeqOfItself, EmptySeq
  <1> HIDE DEF f
  <1>12. FrameInv(db', f, t)
    BY <1>4, <1>10, <1>11 DEF FrameInv
  <1>13. StackInv(db', stack', t)
    BY <1>2, <1>10, <1>12, FirstFrame
  <1>14. QED
    BY <1>2, <1>3, <1>7, <1>9, <1>13 DEF ProposalsInv, Fresh

\* An operation leaves every proposal that is being run: what it speaks of is
\* older than the proposal it belongs to, and that is older than those around it.
LEMMA RunningStay ==
  ASSUME ProposalsInv, HasOperation, Evaluates(db, Operation, Top.keys)
  PROVE  /\ WellFormed(Operation) /\ DbInv(Applied(db, Operation), now)
         /\ \A k \in DOMAIN stack : stack[k].kind = "proposal" =>
              /\ Exists(Applied(db, Operation), stack[k].id)
              /\ Speaks(Operation) => Operation.proposal < stack[k].id
  <1> DEFINE n == Len(stack)
             op == Operation
  <1>1. StackInv(db, stack, now) /\ ~ Idle /\ now \in Nat /\ DbInv(db, now)
    BY DEF ProposalsInv, HasOperation
  <1>2. /\ n \in Nat \ {0} /\ DOMAIN stack = 1 .. n /\ Top = stack[n] /\ FrameInv(db, Top, now)
        /\ \A k \in 1 .. n - 1 : Nested(stack[k], Top)
    BY <1>1, TopFrame
  <1>3. IsSeq(Top.todo) /\ Top.todo # <<>>
    BY <1>2 DEF HasOperation, FrameInv
  <1>4. op = Top.todo[1] /\ 1 \in DOMAIN Top.todo
    BY <1>3, TailSeq DEF Operation
  <1>5. WellFormed(op)
    BY <1>2, <1>4 DEF FrameInv
  <1> HIDE DEF n, op
  <1>6. Top.kind = "proposal" /\ Speaks(op) => op.proposal < Top.id
    BY <1>2, <1>4 DEF FrameInv, RunningInv, Backward
  <1>7. ASSUME NEW k \in DOMAIN stack, stack[k].kind = "proposal"
        PROVE  /\ Exists(db, stack[k].id) /\ stack[k].id \in Nat
               /\ Speaks(op) => op.proposal < stack[k].id
    <2>1. Exists(db, stack[k].id) /\ stack[k].id \in Nat
      BY <1>1, <1>7 DEF StackInv, FrameInv, RunningInv
    <2>2. CASE k = n
      BY <1>2, <1>6, <1>7, <2>1, <2>2
    <2>3. CASE k # n
      <3>1. k \in 1 .. n - 1 /\ Top.id < stack[k].id
        BY <1>2, <1>7, <2>3 DEF Nested
      <3>2. Top.kind = "proposal" /\ Top.id \in Nat
        BY <1>1, <1>2, <3>1, TopFrame DEF FrameInv, RunningInv, n
      <3>3. Speaks(op) => op.proposal < Top.id
        BY <1>6, <3>2
      <3>4. Speaks(op) => op.proposal \in Nat
        BY <1>5 DEF WellFormed, Speaks
      <3>5. QED
        BY <2>1, <3>1, <3>2, <3>3, <3>4
    <2>4. QED
      BY <2>2, <2>3
  <1>8. QED
    BY <1>1, <1>5, <1>7, AppliedInv DEF op

\* The frame once its first operation is done.
Advanced(g, todo, approved) == [g EXCEPT !.todo = todo, !.approved = approved]

\* It differs in what is left to do and in the approvals found.
LEMMA AdvancedFrame ==
  ASSUME NEW g, IsFrame(g), NEW todo, NEW approved
  PROVE  /\ IsFrame(Advanced(g, todo, approved))
         /\ Advanced(g, todo, approved).kind = g.kind /\ Advanced(g, todo, approved).id = g.id
         /\ Advanced(g, todo, approved).saved = g.saved /\ Advanced(g, todo, approved).todo = todo
  <1> DEFINE f == Advanced(g, todo, approved)
  <1>1. f = [kind |-> g.kind, id |-> g.id, todo |-> todo, saved |-> g.saved,
             keys |-> g.keys, approved |-> approved]
    <2> DEFINE h == [g EXCEPT !.todo = todo]
    <2>1. h = [kind |-> g.kind, id |-> g.id, todo |-> todo, saved |-> g.saved,
               keys |-> g.keys, approved |-> g.approved]
      BY DEF IsFrame
    <2>2. f = [h EXCEPT !.approved = approved]
      BY DEF Advanced
    <2> HIDE DEF h, f
    <2>3. QED
      BY <2>1, <2>2
  <1> HIDE DEF f
  <1>2. IsFrame(f) /\ f.kind = g.kind /\ f.id = g.id /\ f.saved = g.saved /\ f.todo = todo
    BY <1>1 DEF IsFrame
  <1>3. QED
    BY <1>2 DEF f

\* apply_operation
LEMMA ApplyOperation ==
  ASSUME ProposalsInv, apply_operation
  PROVE  ProposalsInv' /\ Fresh
  <1> DEFINE d == Applied(db, Operation)
             f == [Top EXCEPT !.todo = Tail(@), !.approved = Authorities.known]
             frames == Append(Below, f)
             runs == RunsAfter(d, Operation)
             new == {push_proposal(d, p) : p \in runs}
  <1>1. /\ HasOperation /\ ~ Idle /\ Evaluates(db, Operation, Top.keys)
        /\ db' = d /\ stack' = frames \o SetToSeq(new) /\ now' = now
    BY DEF apply_operation, HasOperation
  <1>2. now \in Nat /\ DbInv(db, now) /\ StackInv(db, stack, now)
    BY DEF ProposalsInv
  <1>3. /\ WellFormed(Operation) /\ DbInv(d, now)
        /\ \A k \in DOMAIN stack : stack[k].kind = "proposal" =>
             /\ Exists(d, stack[k].id)
             /\ Speaks(Operation) => Operation.proposal < stack[k].id
    BY <1>1, RunningStay
  <1>4. /\ d.transactions = db.transactions /\ d.accepted = db.accepted
        /\ Ahead(db, now) => Ahead(d, now)
    BY <1>1, <1>2, <1>3, AppliedInv
  <1>5. /\ stack # <<>> /\ Len(stack) \in DOMAIN stack /\ Top = stack[Len(stack)] /\ FrameInv(db, Top, now)
    BY <1>1, <1>2, TopFrame
  <1>6. /\ IsFrame(f) /\ f.kind = Top.kind /\ f.id = Top.id /\ f.saved = Top.saved
        /\ f.todo = Tail(Top.todo)
    <2>1. IsFrame(Top)
      BY <1>5 DEF FrameInv
    <2> DEFINE todo == Tail(Top.todo)
               approved == Authorities.known
    <2>2. f = Advanced(Top, todo, approved)
      BY DEF Advanced
    <2> HIDE DEF f, todo, approved
    <2>3. IsFrame(f) /\ f.kind = Top.kind /\ f.id = Top.id /\ f.saved = Top.saved /\ f.todo = todo
      BY <2>1, <2>2, AdvancedFrame
    <2>4. QED
      BY <2>3 DEF todo
  <1> HIDE DEF d, f
  <1>7. /\ IsSeq(f.todo) /\ \A i \in DOMAIN f.todo : WellFormed(f.todo[i])
        /\ Top.kind = "proposal" => Backward(f.todo, Top.id)
        /\ Top.kind # "block"
    <2>1. IsSeq(Top.todo) /\ Top.todo # <<>> /\ Top.kind # "block"
      BY <1>1, <1>5 DEF HasOperation, FrameInv
    <2>2. /\ IsSeq(f.todo) /\ DOMAIN Top.todo = 1 .. Len(Top.todo) /\ Len(Top.todo) \in Nat
          /\ DOMAIN f.todo = 1 .. Len(Top.todo) - 1
          /\ \A i \in 1 .. Len(Top.todo) - 1 : f.todo[i] = Top.todo[i + 1]
      BY <1>6, <2>1, TailSeq
    <2>3. \A i \in DOMAIN f.todo : i + 1 \in DOMAIN Top.todo /\ f.todo[i] = Top.todo[i + 1]
      BY <2>2
    <2>4. QED
      BY <1>5, <2>1, <2>2, <2>3 DEF FrameInv, RunningInv, Backward
  <1>8. FrameInv(d, f, now)
    BY <1>3, <1>4, <1>5, <1>6, <1>7 DEF FrameInv, RunningInv
  <1>9. /\ StackInv(d, frames, now) /\ DOMAIN frames = DOMAIN stack
        /\ \A k \in DOMAIN stack : frames[k].kind = stack[k].kind /\ frames[k].id = stack[k].id
    BY <1>2, <1>3, <1>4, <1>5, <1>6, <1>8, ReplaceFrame DEF Below, Top
  <1>10. frames # <<>> /\ IsSeq(frames)
    BY <1>5, <1>9 DEF StackInv
  <1> HIDE DEF frames
  <1>11. StackInv(d, stack', now)
    <2>1. CASE runs = {}
      <3>1. SetToSeq(new) = <<>>
        BY <2>1, SetToSeqSmall
      <3>2. stack' = frames
        BY <1>1, <1>10, <3>1, ConcatEmptySeq DEF IsSeq
      <3>3. QED
        BY <1>9, <3>2
    <2>2. CASE runs # {}
      <3>1. PICK p : p \in runs
        BY <2>2
      <3>2. p \in d.proposals /\ ~ p.reviewed /\ p.id = Operation.proposal /\ Speaks(Operation)
        BY <3>1 DEF RunsAfter, Speaks
      <3>3. \A q \in runs : q = p
        BY <1>3, <3>1, <3>2 DEF RunsAfter, DbInv
      <3> DEFINE g == push_proposal(d, p)
      <3>4. new = {g}
        BY <3>1, <3>3
      <3>5. Timely(p, now)
        BY <1>3, <3>2 DEF Timely, DbInv, ProposalInv
      <3>6. FrameInv(d, g, now) /\ g.kind = "proposal" /\ g.saved = d /\ g.id = p.id
        BY <1>3, <3>2, <3>5, StartsInv
      <3> HIDE DEF g
      <3>7. stack' = Append(frames, g)
        <4>1. stack' = frames \o <<g>>
          BY <1>1, <3>4, SetToSeqSmall
        <4>2. frames \in Seq(ToSet(frames) \cup {g}) /\ g \in ToSet(frames) \cup {g}
          BY <1>10 DEF IsSeq
        <4>3. QED
          BY <4>1, <4>2, AppendIsConcat
      <3>8. \A k \in DOMAIN frames : Nested(frames[k], g)
        BY <1>3, <1>9, <3>2, <3>6 DEF Nested
      <3>9. QED
        BY <1>9, <1>10, <3>6, <3>7, <3>8, PushFrame
    <2>3. QED
      BY <2>1, <2>2
  <1>12. QED
    BY <1>1, <1>2, <1>3, <1>4, <1>11 DEF ProposalsInv, Fresh

\* operation_throws: the database goes back, and the proposals that are being
\* run around the failed one are still there.
LEMMA OperationThrows ==
  ASSUME ProposalsInv, operation_throws
  PROVE  ProposalsInv' /\ Fresh
  <1> DEFINE n == Len(stack)
             atBlock == Below # <<>> /\ Last(Below).kind = "block"
  <1>1. /\ ~ Idle /\ Top.todo # <<>>
        /\ db' = IF atBlock THEN Removed(Top.saved, Top.id) ELSE Top.saved
        /\ stack' = Front(stack) /\ now' = now
    BY DEF operation_throws, HasOperation, Below
  <1>2. now \in Nat /\ DbInv(db, now) /\ StackInv(db, stack, now)
    BY DEF ProposalsInv
  <1>3. /\ n \in Nat \ {0} /\ DOMAIN stack = 1 .. n /\ IsSeq(stack) /\ stack # <<>>
        /\ Top = stack[n] /\ FrameInv(db, Top, now)
        /\ Top.kind # "proposal" <=> n = 1
        /\ \A k \in 1 .. n - 1 : Nested(stack[k], Top)
    BY <1>1, <1>2, TopFrame
  <1>4. Top.kind # "block" /\ DbInv(Top.saved, now)
    BY <1>1, <1>3 DEF FrameInv
  <1>5. /\ DbInv(db', now) /\ db'.transactions = Top.saved.transactions
        /\ db'.accepted = Top.saved.accepted
        /\ Ahead(Top.saved, now) => Ahead(db', now)
    BY <1>1, <1>4, RemovedInv
  <1>6. n > 1 => db'.transactions = db.transactions /\ db'.accepted = db.accepted
    BY <1>3, <1>5 DEF FrameInv, RunningInv
  <1>7. n = 1 => Top.kind = "transaction" /\ Top.saved.transactions \subseteq db.transactions
    BY <1>3, <1>4 DEF FrameInv
  <1>8. stack[1].kind = "transaction" => Ahead(db', now)
    BY <1>2, <1>3, <1>5 DEF StackInv
  <1>9. n = 1 => Ahead(db', now)
    BY <1>3, <1>7, <1>8
  <1>10. ASSUME NEW k \in 1 .. n - 1, stack[k].kind = "proposal"
         PROVE  Exists(db', stack[k].id)
    <2>1. Exists(Top.saved, stack[k].id) /\ Top.id < stack[k].id
      BY <1>3, <1>10 DEF Nested
    <2>2. stack[k].id \in Nat
      BY <1>2, <1>3, <1>10 DEF StackInv, FrameInv, RunningInv
    <2>3. Top.id # stack[k].id
      BY <2>1, <2>2
    <2>4. QED
      BY <1>1, <1>4, <2>1, <2>3, RemovedInv
  <1> HIDE DEF atBlock
  <1>11. StackInv(db', stack', now)
    <2>1. StackInv(db', Front(stack), now)
      BY <1>2, <1>3, <1>6, <1>8, <1>9, <1>10, PopFrame
    <2>2. QED
      BY <1>1, <2>1
  <1>12. Fresh
    BY <1>3, <1>5, <1>6, <1>7 DEF Fresh
  <1>13. QED
    BY <1>1, <1>2, <1>5, <1>11, <1>12 DEF ProposalsInv

\* session_merged: the proposal that ran is gone and noted, and the proposals
\* around it are other ones.
LEMMA SessionMerged ==
  ASSUME ProposalsInv, session_merged
  PROVE  ProposalsInv' /\ Fresh
  <1> DEFINE n == Len(stack)
             p == Find(Top.saved, Top.id)
             run == [proposal |-> p, auths |-> Top.saved.auths, at |-> now]
             e == Removed(db, Top.id)
  <1>1. /\ ~ Idle /\ Top.kind # "block" /\ stack' = Front(stack) /\ now' = now
        /\ db' = IF Top.kind = "transaction" THEN db ELSE [e EXCEPT !.ran = Append(@, run)]
    BY DEF session_merged, Below
  <1>2. now \in Nat /\ DbInv(db, now) /\ StackInv(db, stack, now)
    BY DEF ProposalsInv
  <1>3. /\ n \in Nat \ {0} /\ DOMAIN stack = 1 .. n /\ IsSeq(stack) /\ stack # <<>>
        /\ Top = stack[n] /\ FrameInv(db, Top, now)
        /\ Top.kind # "proposal" <=> n = 1
        /\ \A k \in 1 .. n - 1 : Nested(stack[k], Top)
    BY <1>1, <1>2, TopFrame
  <1>4. stack[1].kind = "transaction" => Ahead(db, now)
    BY <1>2 DEF StackInv
  <1> HIDE DEF n
  <1>5. CASE Top.kind = "transaction"
    <2>1. n = 1 /\ db' = db
      BY <1>1, <1>3, <1>5
    <2>2. Ahead(db, now) /\ stack[1].kind = "transaction"
      BY <1>3, <1>4, <1>5, <2>1
    <2>3. StackInv(db, Front(stack), now)
      BY <1>2, <1>3, <2>1, <2>2, PopFrame DEF n
    <2>4. QED
      BY <1>1, <1>2, <2>1, <2>3 DEF ProposalsInv, Fresh
  <1>6. CASE Top.kind = "proposal"
    <2>1. /\ Top.id \in Nat /\ Exists(Top.saved, Top.id) /\ Exists(db, Top.id) /\ Timely(p, now)
          /\ DbInv(Top.saved, now)
      BY <1>3, <1>6 DEF FrameInv, RunningInv
    <2>2. p.id = Top.id
      BY <2>1, FindProposal
    <2>3. /\ DbInv(e, now) /\ ~ Exists(e, Top.id)
          /\ \A x : x # Top.id /\ Exists(db, x) => Exists(e, x)
          /\ Ahead(db, now) => Ahead(e, now)
          /\ e.transactions = db.transactions /\ e.accepted = db.accepted
          /\ e.ran = db.ran /\ e.next_id = db.next_id
      BY <1>2, RemovedInv
    <2>4. run.proposal = p /\ run.at = now
      OBVIOUS
    <2>5. db' = [e EXCEPT !.ran = Append(@, run)]
      BY <1>1, <1>6
    <2> HIDE DEF p, e, run
    <2>6. /\ IsDb(db') /\ db'.proposals = e.proposals /\ db'.next_id = e.next_id
          /\ db'.transactions = e.transactions /\ db'.accepted = e.accepted
          /\ db'.ran = Append(db.ran, run)
      BY <2>3, <2>5 DEF DbInv, IsDb
    <2> DEFINE m == Len(db.ran)
    <2>7. /\ IsSeq(db'.ran) /\ m \in Nat /\ DOMAIN db.ran = 1 .. m /\ DOMAIN db'.ran = 1 .. m + 1
          /\ db'.ran[m + 1] = run /\ \A i \in 1 .. m : db'.ran[i] = db.ran[i]
      BY <1>2, <2>6, AppendSeq DEF DbInv
    <2> HIDE DEF m
    <2>8. /\ \A x : Exists(db', x) <=> Exists(e, x)
          /\ Ahead(e, now) => Ahead(db', now)
      BY <2>6 DEF Exists, Ahead
    <2>9. RanInv(db', run)
      <3>1. Top.id < db.next_id
        BY <1>2, <2>1 DEF DbInv, ProposalInv, Exists
      <3>2. QED
        BY <2>1, <2>2, <2>3, <2>4, <2>6, <2>8, <3>1 DEF RanInv
    <2>10. \A i \in 1 .. m : RanInv(db', db.ran[i]) /\ db.ran[i].proposal.id # run.proposal.id
      <3>1. \A i \in 1 .. m : RanInv(e, db.ran[i]) /\ RanInv(db, db.ran[i])
        BY <1>2, <2>3, <2>7 DEF DbInv
      <3>2. QED
        BY <2>1, <2>2, <2>4, <2>6, <2>8, <3>1 DEF RanInv
    <2>11. DbInv(db', now)
      <3>1. \A i \in DOMAIN db'.ran : RanInv(db', db'.ran[i])
        BY <2>7, <2>9, <2>10
      <3>2. \A i, j \in DOMAIN db'.ran : i # j => db'.ran[i].proposal.id # db'.ran[j].proposal.id
        <4>1. \A i, j \in 1 .. m : i # j => db.ran[i].proposal.id # db.ran[j].proposal.id
          BY <1>2, <2>7 DEF DbInv
        <4>2. QED
          BY <2>7, <2>10, <4>1
      <3>3. \A q \in db'.proposals : ProposalInv(db', q, now)
        BY <2>3, <2>6 DEF DbInv, ProposalInv
      <3>4. QED
        BY <2>3, <2>6, <2>7, <3>1, <3>2, <3>3 DEF DbInv
    <2>12. ASSUME NEW k \in 1 .. n - 1, stack[k].kind = "proposal"
           PROVE  Exists(db', stack[k].id)
      <3>1. Top.id < stack[k].id
        BY <1>3, <2>12 DEF Nested
      <3>2. stack[k].id \in Nat /\ Exists(db, stack[k].id)
        BY <1>2, <1>3, <2>12 DEF StackInv, FrameInv, RunningInv
      <3>3. Top.id # stack[k].id
        BY <3>1, <3>2
      <3>4. QED
        BY <2>3, <2>8, <3>2, <3>3
    <2>13. StackInv(db', Front(stack), now)
      <3>1. n # 1
        BY <1>3, <1>6
      <3>2. stack[1].kind = "transaction" => Ahead(db', now)
        BY <1>4, <2>3, <2>8
      <3>3. QED
        BY <1>2, <1>3, <2>3, <2>6, <2>12, <3>1, <3>2, PopFrame DEF n
    <2>14. QED
      BY <1>1, <1>2, <2>3, <2>6, <2>11, <2>13 DEF ProposalsInv, Fresh
  <1>7. QED
    BY <1>1, <1>3, <1>5, <1>6 DEF FrameInv

\* The proposal that expires first, the oldest of them.
FirstExpiring(expired) ==
    CHOOSE p \in expired : \A q \in expired \ {p} :
      p.expiration < q.expiration \/ (p.expiration = q.expiration /\ p.id < q.id)

LEMMA FirstExpired ==
  ASSUME NEW expired, expired # {}, \A q \in expired : q.expiration = now /\ q.id \in Nat,
         \A q, r \in expired : q.id = r.id => q = r
  PROVE  FirstExpiring(expired) \in expired
  <1> DEFINE First(p) == \A q \in expired \ {p} :
                           p.expiration < q.expiration \/ (p.expiration = q.expiration /\ p.id < q.id)
             ids == {q.id : q \in expired}
  <1>1. ids \subseteq Nat /\ ids # {}
    OBVIOUS
  <1>2. PICK i \in ids : \A j \in ids : i <= j
    <2> HIDE DEF ids
    <2> QED
      BY <1>1, LeastNat
  <1>3. PICK q \in expired : q.id = i
    OBVIOUS
  <1>4. ASSUME NEW r \in expired \ {q}
        PROVE  q.expiration = r.expiration /\ q.id < r.id
    <2>1. q.id # r.id
      OBVIOUS
    <2>2. q.id <= r.id /\ q.id \in Nat /\ r.id \in Nat /\ q.expiration = r.expiration
      BY <1>2, <1>3
    <2>3. QED
      BY <2>1, <2>2
  <1>5. First(q)
    BY <1>4
  <1>6. QED
    BY <1>5 DEF FirstExpiring

\* clear_expired_proposals: in a block, a proposal that has expired did so this
\* second.
LEMMA ClearExpired ==
  ASSUME ProposalsInv, clear_expired_proposals
  PROVE  ProposalsInv' /\ Fresh
  <1> DEFINE expired == {p \in db.proposals : p.expiration <= now}
             p == FirstExpiring(expired)
  <1>1. /\ ~ Idle /\ Top.kind = "block" /\ now' = now
        /\ \/ expired = {} /\ stack' = <<>> /\ db' = db
           \/ expired # {} /\ stack' = Append(stack, push_proposal(db, p)) /\ db' = db
           \/ expired # {} /\ db' = Removed(db, p.id) /\ stack' = stack
    BY DEF clear_expired_proposals, FirstExpiring
  <1>2. now \in Nat /\ DbInv(db, now) /\ StackInv(db, stack, now)
    BY DEF ProposalsInv
  <1>3. /\ Len(stack) = 1 /\ DOMAIN stack = {1} /\ IsSeq(stack) /\ stack # <<>> /\ stack[1] = Top
        /\ FrameInv(db, Top, now)
    <2> DEFINE n == Len(stack)
    <2>1. /\ DOMAIN stack = 1 .. n /\ IsSeq(stack) /\ stack # <<>> /\ Top = stack[n]
          /\ FrameInv(db, Top, now) /\ (Top.kind # "proposal" <=> n = 1)
      BY <1>1, <1>2, TopFrame
    <2>2. n = 1
      BY <1>1, <2>1
    <2> HIDE DEF n
    <2>3. 1 .. n = {1}
      BY <2>2
    <2>4. QED
      BY <2>1, <2>2, <2>3 DEF n
  <1>4. \A q \in expired : q.expiration = now /\ q.id \in Nat
    BY <1>2 DEF DbInv, ProposalInv
  <1>5. expired # {} => p \in expired
    <2>1. \A q, r \in expired : q.id = r.id => q = r
      BY <1>2 DEF DbInv
    <2> HIDE DEF expired
    <2>2. expired # {} => FirstExpiring(expired) \in expired
      BY <1>4, <2>1, FirstExpired
    <2>3. QED
      BY <2>2
  <1> HIDE DEF p
  <1>6. CASE expired = {} /\ stack' = <<>> /\ db' = db
    <2>1. Ahead(db, now)
      BY <1>2, <1>6 DEF Ahead, DbInv, ProposalInv
    <2>2. IsSeq(<<>>)
      BY SeqOfItself, EmptySeq
    <2>3. StackInv(db, <<>>, now)
      BY <2>1, <2>2 DEF StackInv
    <2>4. QED
      BY <1>1, <1>2, <1>6, <2>3 DEF ProposalsInv, Fresh
  <1>7. CASE expired # {} /\ stack' = Append(stack, push_proposal(db, p)) /\ db' = db
    <2> DEFINE f == push_proposal(db, p)
    <2>1. p \in db.proposals /\ p.expiration = now
      BY <1>4, <1>5, <1>7
    <2>2. Timely(p, now)
      BY <1>2, <2>1 DEF Timely
    <2>3. FrameInv(db, f, now) /\ f.kind = "proposal" /\ f.saved = db
      BY <1>2, <2>1, <2>2, StartsInv
    <2> HIDE DEF f
    <2>4. \A k \in DOMAIN stack : Nested(stack[k], f)
      BY <1>1, <1>3 DEF Nested
    <2>5. StackInv(db, Append(stack, f), now)
      BY <1>2, <1>3, <2>3, <2>4, PushFrame
    <2>6. QED
      BY <1>1, <1>2, <1>7, <2>5 DEF ProposalsInv, Fresh, f
  <1>8. CASE expired # {} /\ db' = Removed(db, p.id) /\ stack' = stack
    <2> DEFINE e == Removed(db, p.id)
    <2>1. DbInv(e, now) /\ e.transactions = db.transactions /\ e.accepted = db.accepted
      BY <1>2, RemovedInv
    <2> HIDE DEF e
    <2>2. FrameInv(e, Top, now)
      BY <1>1, <1>3, <2>1, KeepFrame
    <2>3. StackInv(e, stack, now)
      BY <1>1, <1>2, <1>3, <2>2 DEF StackInv
    <2>4. QED
      BY <1>1, <1>2, <1>8, <2>1, <2>3 DEF ProposalsInv, Fresh, e
  <1>9. QED
    BY <1>1, <1>6, <1>7, <1>8

----------------------------------------------------------------------------
(* Theorems.                                                               *)

\* Every step keeps the invariant and brings back no record.
LEMMA StepInv ==
  ASSUME ProposalsInv, [Next]_vars
  PROVE  ProposalsInv' /\ [Fresh]_vars
  <1>1. ASSUME NEW op \in Operations \cup {[kind |-> "proposal_create", payer |-> c.payer, content |-> c] : c \in Proposable},
               NEW keys \in SignatureSets, NEW t \in Expirations, push_transaction(op, keys, t)
        PROVE  ProposalsInv' /\ Fresh
    <2>1. WellFormed(op)
      BY OperationsAssumption DEF WellFormed
    <2>2. QED
      BY <1>1, <2>1, PushTransaction
  <1>2. CASE apply_block
    BY <1>2, ApplyBlock
  <1>3. CASE apply_operation
    BY <1>3, ApplyOperation
  <1>4. CASE operation_throws
    BY <1>4, OperationThrows
  <1>5. CASE session_merged
    BY <1>5, SessionMerged
  <1>6. CASE clear_expired_proposals
    BY <1>6, ClearExpired
  <1>7. CASE UNCHANGED vars
    <2>1. now' = now /\ db' = db /\ stack' = stack
      BY <1>7 DEF vars
    <2>2. QED
      BY <1>7, <2>1 DEF ProposalsInv
  <1>8. QED
    BY <1>1, <1>2, <1>3, <1>4, <1>5, <1>6, <1>7 DEF Next, Step

\* The inductive invariant holds of every behaviour.
THEOREM ProposalsInvariant == Spec => []ProposalsInv
  <1>1. ProposalsInv /\ [Next]_vars => ProposalsInv'
    BY StepInv
  <1>2. QED
    BY <1>1, InitInv, PTL DEF Spec

\* For all authorities, operations and times, a proposal takes effect at most
\* once, whether an update, a block or another proposal runs it and whatever
\* fails in it; it does so before its expiration, or at it when it has a review
\* period.
THEOREM ProposalsRunOnce == Spec => []RunsOnce
  <1>1. ProposalsInv => RunsOnce
    BY DEF ProposalsInv, DbInv, RanInv, Timely, RunsOnce
  <1>2. QED
    BY <1>1, ProposalsInvariant, PTL

\* For all expirations and fork windows, clear_expired_transactions removes no
\* record of a transaction that could still be accepted.
THEOREM TransactionsNotReplayed == Spec => NoReplay
  <1>1. ProposalsInv /\ [Next]_vars => [(db'.transactions \ db.transactions) \cap db.accepted = {}]_vars
    BY StepInv DEF Fresh
  <1>2. QED
    BY <1>1, ProposalsInvariant, PTL DEF Spec, NoReplay

----------------------------------------------------------------------------
(* The authorities of proposals.                                           *)


\* What the loop of check_authority has found so far.
Results == [weight : Nat, ok : BOOLEAN, done : BOOLEAN, throws : BOOLEAN, known : SUBSET Approvals]

\* Those whose weight counts when P is the set of approvals.
Holders(P, keys, class) == {x \in Accounts : <<x, class>> \in P} \cup keys

\* P holds every account whose authority it fulfils.
Fulfilled(P, auths, keys, class) ==
    \A a \in Accounts :
        Weight(auths[a][class], Holders(P, keys, class)) >= auths[a][class].threshold => <<a, class>> \in P

\* The answer r about account a, given the approvals known, is right about P.
Sound(P, a, class, known, r) ==
    /\ r \in Results /\ r.throws = FALSE /\ known \subseteq r.known
    /\ <<a, class>> \in known => r.ok = TRUE
    /\ known \subseteq P => r.known \subseteq P /\ (r.ok = TRUE => <<a, class>> \in P)

\* The loop over the members of account a, when those seen so far weigh w.
Progress(P, a, class, known, s, w) ==
    /\ s \in Results /\ s.throws = FALSE /\ known \subseteq s.known
    /\ s.ok = TRUE => s.done = TRUE
    /\ known \subseteq P => /\ s.known \subseteq P
                            /\ s.ok = TRUE => <<a, class>> \in P
                            /\ s.done = TRUE \/ s.weight <= w

\* Every answer one level down is right.
Deeper(P, class, deeper) ==
    \A x \in Accounts : \A k \in SUBSET Approvals : Sound(P, x, class, k, deeper[x][k])

----------------------------------------------------------------------------
(* The members of an authority.                                            *)

\* A member counted.
LEMMA CountedProgress ==
  ASSUME NEW P, NEW a \in Accounts, NEW class \in Classes, NEW known, NEW w \in Nat, NEW v \in Nat,
         NEW authority \in Authority, NEW s \in Results, s.done = FALSE, NEW y \in Nat, NEW k \in SUBSET Approvals,
         Progress(P, a, class, known, s, w), s.known \subseteq k,
         known \subseteq P => k \subseteq P /\ y <= v,
         w + v >= authority.threshold => <<a, class>> \in P
  PROVE  Progress(P, a, class, known, Counted(authority, a, class, s, y, k), w + v)
  <1> DEFINE r == Counted(authority, a, class, s, y, k)
             t == s.weight + y
             ok == Sufficient(t, authority)
  <1>1. s.weight \in Nat /\ authority.threshold \in Nat
    BY DEF Results, Authority
  <1>2. t \in Nat /\ ok \in BOOLEAN /\ (ok <=> t >= authority.threshold)
    BY <1>1 DEF Sufficient
  <1>3. <<a, class>> \in Approvals
    BY DEF Approvals
  <1>4. r = [weight |-> t, ok |-> ok, done |-> ok, throws |-> FALSE,
             known |-> IF ok THEN k \cup {<<a, class>>} ELSE k]
    BY DEF Counted
  <1> HIDE DEF r, t, ok
  <1>5. r \in Results /\ r.throws = FALSE /\ r.ok = ok /\ r.done = ok /\ r.weight = t
        /\ r.known = (IF ok THEN k \cup {<<a, class>>} ELSE k)
    BY <1>2, <1>3, <1>4 DEF Results
  <1>6. known \subseteq r.known
    BY <1>5 DEF Progress
  <1>7. ASSUME known \subseteq P
        PROVE  t <= w + v
    <2>1. s.weight <= w /\ y <= v
      BY <1>7 DEF Progress
    <2>2. QED
      BY <1>1, <2>1 DEF t
  <1>8. ASSUME known \subseteq P, ok
        PROVE  <<a, class>> \in P
    BY <1>1, <1>2, <1>7, <1>8
  <1>9. QED
    BY <1>2, <1>5, <1>6, <1>7, <1>8 DEF Progress, r

\* One turn of the loop.
LEMMA MemberProgress ==
  ASSUME NEW P, NEW a \in Accounts, NEW class \in Classes, NEW known, NEW w \in Nat,
         NEW authority \in Authority, NEW keys, NEW depth, NEW deeper,
         NEW s, NEW m \in Members, Progress(P, a, class, known, s, w),
         depth # MaxDepth => Deeper(P, class, deeper),
         NEW v \in Nat, m.who \in Holders(P, keys, class) => v = m.weight,
         w + v >= authority.threshold => <<a, class>> \in P
  PROVE  Progress(P, a, class, known, CheckMember(authority, keys, a, class, depth, deeper, s, m), w + v)
  <1> DEFINE r == CheckMember(authority, keys, a, class, depth, deeper, s, m)
             sub == deeper[m.who][s.known]
  <1>1. /\ m.who \in Accounts \cup Keys /\ m.weight \in Nat
        /\ s \in Results /\ s.done \in BOOLEAN /\ s.known \in SUBSET Approvals
    BY DEF Members, Results, Progress
  <1>2. CASE s.done = TRUE
    <2>1. r = s
      BY <1>2 DEF CheckMember
    <2>2. QED
      BY <1>2, <2>1 DEF Progress
  <1>3. CASE s.done = FALSE /\ m.who \in Keys
    <2> DEFINE y == IF m.who \in keys THEN m.weight ELSE 0
    <2>1. r = Counted(authority, a, class, s, y, s.known)
      BY <1>3 DEF CheckMember
    <2>2. y \in Nat /\ y <= v
      BY <1>1 DEF Holders
    <2> HIDE DEF y, r
    <2>3. known \subseteq P => s.known \subseteq P
      BY DEF Progress
    <2>4. Progress(P, a, class, known, Counted(authority, a, class, s, y, s.known), w + v)
      BY <1>1, <1>3, <2>2, <2>3, CountedProgress
    <2>5. QED
      BY <2>1, <2>4 DEF r
  <1>4. CASE s.done = FALSE /\ m.who \notin Keys /\ <<m.who, class>> \in s.known
    <2>1. r = Counted(authority, a, class, s, m.weight, s.known)
      BY <1>4 DEF CheckMember
    <2> HIDE DEF r
    <2>2. known \subseteq P => s.known \subseteq P /\ m.weight <= v
      <3>1. ASSUME known \subseteq P
            PROVE  s.known \subseteq P /\ m.who \in Holders(P, keys, class)
        BY <1>1, <1>4, <3>1 DEF Progress, Holders
      <3>2. QED
        BY <1>1, <3>1
    <2>3. Progress(P, a, class, known, Counted(authority, a, class, s, m.weight, s.known), w + v)
      BY <1>1, <1>4, <2>2, CountedProgress
    <2>4. QED
      BY <2>1, <2>3 DEF r
  <1>5. CASE s.done = FALSE /\ m.who \notin Keys /\ <<m.who, class>> \notin s.known /\ depth = MaxDepth
    <2>1. r = [s EXCEPT !.done = TRUE]
      BY <1>5 DEF CheckMember
    <2>2. /\ r \in Results /\ r.known = s.known /\ r.ok = s.ok /\ r.done = TRUE /\ r.throws = s.throws
      BY <1>1, <2>1 DEF Results
    <2> HIDE DEF r
    <2>3. QED
      BY <2>2 DEF Progress, r
  <1>6. CASE s.done = FALSE /\ m.who \notin Keys /\ <<m.who, class>> \notin s.known /\ depth # MaxDepth
    <2> DEFINE y == IF sub.ok THEN m.weight ELSE 0
    <2>1. m.who \in Accounts /\ Sound(P, m.who, class, s.known, sub)
      BY <1>1, <1>6 DEF Deeper
    <2>2. sub \in Results /\ sub.throws = FALSE /\ sub.known \in SUBSET Approvals /\ sub.ok \in BOOLEAN
      BY <2>1 DEF Sound, Results
    <2>3. r = Counted(authority, a, class, s, y, sub.known)
      BY <1>6, <2>2 DEF CheckMember
    <2>4. y \in Nat
      BY <1>1
    <2>5. s.known \subseteq sub.known
      BY <2>1 DEF Sound
    <2>6. known \subseteq P => sub.known \subseteq P /\ y <= v
      <3>1. ASSUME known \subseteq P
            PROVE  sub.known \subseteq P /\ (sub.ok = TRUE => m.who \in Holders(P, keys, class))
        BY <2>1, <3>1 DEF Progress, Sound, Holders
      <3>2. sub.ok = FALSE => y = 0
        OBVIOUS
      <3>3. sub.ok = TRUE => y = m.weight
        OBVIOUS
      <3> HIDE DEF y, sub, r
      <3>4. ASSUME known \subseteq P
            PROVE  y <= v
        <4>1. CASE sub.ok = TRUE
          <5>1. m.who \in Holders(P, keys, class)
            BY <3>1, <3>4, <4>1
          <5>2. y = v
            BY <3>3, <4>1, <5>1
          <5>3. QED
            BY <5>2
        <4>2. CASE sub.ok = FALSE
          BY <3>2, <4>2
        <4>3. QED
          BY <2>2, <4>1, <4>2
      <3>5. QED
        BY <3>1, <3>4
    <2> HIDE DEF r, sub, y
    <2>7. Progress(P, a, class, known, Counted(authority, a, class, s, y, sub.known), w + v)
      BY <1>1, <1>6, <2>2, <2>4, <2>5, <2>6, CountedProgress
    <2>8. QED
      BY <2>3, <2>7 DEF r
  <1>7. QED
    BY <1>1, <1>2, <1>3, <1>4, <1>5, <1>6

\* The results that the loop goes through.
Looping == {s \in Results : s.throws = FALSE /\ (s.ok = TRUE => s.done = TRUE)}

\* A turn of the loop keeps to them.
LEMMA MemberLooping ==
  ASSUME NEW P, NEW a \in Accounts, NEW class \in Classes,
         NEW authority \in Authority, NEW keys, NEW depth, NEW deeper,
         depth # MaxDepth => Deeper(P, class, deeper), NEW s \in Looping, NEW m \in Members
  PROVE  CheckMember(authority, keys, a, class, depth, deeper, s, m) \in Looping
  <1>1. <<a, class>> \in Approvals /\ {} \subseteq Approvals
    BY DEF Approvals
  <1>2. depth # MaxDepth => Deeper(Approvals, class, deeper)
    <2>1. \A x \in Accounts : <<x, class>> \in Approvals
      BY DEF Approvals
    <2>2. \A r \in Results : r.known \subseteq Approvals
      BY DEF Results
    <2>3. QED
      BY <2>1, <2>2 DEF Deeper, Sound
  <1>3. s.weight \in Nat /\ s.known \subseteq Approvals /\ m.weight \in Nat
    BY DEF Looping, Results, Members
  <1>4. s.weight <= s.weight
    BY <1>3
  <1>5. Progress(Approvals, a, class, {}, s, s.weight)
    BY <1>1, <1>3, <1>4 DEF Progress, Looping
  <1>6. Progress(Approvals, a, class, {}, CheckMember(authority, keys, a, class, depth, deeper, s, m), s.weight + m.weight)
    BY <1>1, <1>2, <1>3, <1>5, MemberProgress
  <1>7. QED
    BY <1>6 DEF Progress, Looping

\* The loop over the members of an authority, as a recursion over the sets of
\* members seen so far.
MemberStep(authority, keys, a, class, depth, deeper, start, g, T) ==
    IF T = {} THEN start
    ELSE LET x == Max(T)
         IN  CheckMember(authority, keys, a, class, depth, deeper, g[T \ {x}], authority.auths[x])

MembersSeen(authority, keys, a, class, depth, deeper, start, g) ==
    g = [T \in SUBSET DOMAIN authority.auths |->
           MemberStep(authority, keys, a, class, depth, deeper, start, g, T)]

AllMembers(authority, keys, a, class, depth, deeper, start) ==
    FoldLeft(LAMBDA s, m : CheckMember(authority, keys, a, class, depth, deeper, s, m), start, authority.auths)

\* The loop of CheckAccount is that recursion.
LEMMA MembersUnfold ==
  ASSUME NEW authority, NEW keys, NEW a, NEW class, NEW depth, NEW deeper, NEW start
  PROVE  AllMembers(authority, keys, a, class, depth, deeper, start)
           = (CHOOSE g : MembersSeen(authority, keys, a, class, depth, deeper, start, g))[DOMAIN authority.auths]
  BY DEF AllMembers, FoldLeft, MapThenFoldSet, MembersSeen, MemberStep

\* The members of an authority.
LEMMA AuthorityMembers ==
  ASSUME NEW authority \in Authority
  PROVE  /\ IsFiniteSet(DOMAIN authority.auths) /\ DOMAIN authority.auths \subseteq Nat
         /\ authority.threshold \in Nat
         /\ \A i \in DOMAIN authority.auths : authority.auths[i] \in Members /\ authority.auths[i].weight \in Nat
  <1> DEFINE q == authority.auths
  <1>1. q \in Seq(Members) /\ authority.threshold \in Nat
    BY DEF Authority
  <1> HIDE DEF q
  <1>2. Len(q) \in Nat /\ DOMAIN q = 1 .. Len(q)
    BY <1>1
  <1>3. IsFiniteSet(1 .. Len(q)) /\ 1 .. Len(q) \subseteq Nat
    BY <1>2, FS_Interval
  <1>4. \A i \in DOMAIN q : q[i] \in Members
    BY <1>1
  <1>5. \A m \in Members : m.weight \in Nat
    BY DEF Members
  <1>6. QED
    BY <1>1, <1>2, <1>3, <1>4, <1>5 DEF q

\* The recursion has a solution.
LEMMA MembersSeenExist ==
  ASSUME NEW P, NEW a \in Accounts, NEW class \in Classes,
         NEW authority \in Authority, NEW keys, NEW depth, NEW deeper,
         depth # MaxDepth => Deeper(P, class, deeper), NEW start \in Looping
  PROVE  \E g : MembersSeen(authority, keys, a, class, depth, deeper, start, g)
  <1> DEFINE S == DOMAIN authority.auths
             Turn(s, m) == CheckMember(authority, keys, a, class, depth, deeper, s, m)
             st == [x \in S |-> [s \in Looping |-> Turn(s, authority.auths[x])]]
  <1>2. IsFiniteSet(S) /\ S \subseteq Nat /\ \A x \in S : authority.auths[x] \in Members
    BY AuthorityMembers
  <1>3. \A x \in S : \A s \in Looping : Turn(s, authority.auths[x]) \in Looping
    BY <1>2, MemberLooping
  <1> HIDE DEF S, Turn
  <1>4. st \in [S -> [Looping -> Looping]]
    BY <1>3
  <1>5. \A x \in S : \A s \in Looping : st[x][s] = Turn(s, authority.auths[x])
    OBVIOUS
  <1> HIDE DEF st
  <1>6. PICK g : Folded(st, start, S, g) /\ g = [T \in SUBSET S |-> g[T]] /\ \A T \in SUBSET S : g[T] \in Looping
    BY <1>2, <1>4, FoldsExist
  <1>7. ASSUME NEW T \in SUBSET S
        PROVE  g[T] = MemberStep(authority, keys, a, class, depth, deeper, start, g, T)
    <2>1. g[T] = FoldStep(st, start, g, T)
      BY <1>6 DEF Folded
    <2>2. CASE T = {}
      BY <2>1, <2>2 DEF FoldStep, MemberStep
    <2>3. CASE T # {}
      <3> DEFINE x == Max(T)
      <3>1. x \in S
        BY <1>2, <2>3, MaxOfFinite
      <3>2. g[T] = st[x][g[T \ {x}]]
        BY <2>1, <2>3 DEF FoldStep
      <3> HIDE DEF x
      <3>3. g[T \ {x}] \in Looping
        BY <1>6
      <3>4. g[T] = Turn(g[T \ {x}], authority.auths[x])
        BY <1>5, <3>1, <3>2, <3>3
      <3>5. QED
        BY <2>3, <3>4 DEF MemberStep, x, Turn
    <2>4. QED
      BY <2>2, <2>3
  <1>8. QED
    BY <1>6, <1>7 DEF MembersSeen, S

\* check_authority of a transaction that is proposed.
ProposedAccount(authority, keys, a, class, depth, deeper, known) ==
    CheckAccount(authority, keys, TRUE, a, class, depth, deeper, known)
ProposedCheck(auths, keys, class, a, known) == check_authority(auths, keys, TRUE, class, a, known)

\* What the members that are in S weigh.
Shares(authority, S) ==
    [i \in DOMAIN authority.auths |-> IF authority.auths[i].who \in S THEN authority.auths[i].weight ELSE 0]

\* The answer about an account is right when the answers about its members are.
LEMMA AccountSound ==
  ASSUME NEW P, NEW a \in Accounts, NEW class \in Classes,
         NEW authority \in Authority, NEW keys, NEW depth, NEW deeper,
         depth # MaxDepth => Deeper(P, class, deeper), NEW known \in SUBSET Approvals,
         Weight(authority, Holders(P, keys, class)) >= authority.threshold => <<a, class>> \in P
  PROVE  Sound(P, a, class, known, ProposedAccount(authority, keys, a, class, depth, deeper, known))
  <1> DEFINE start == [weight |-> 0, ok |-> FALSE, done |-> FALSE, throws |-> FALSE, known |-> known]
             r == ProposedAccount(authority, keys, a, class, depth, deeper, known)
             S == DOMAIN authority.auths
             share == Shares(authority, Holders(P, keys, class))
             total == Sum(share, S)
  <1>1. start \in Looping
    BY DEF Looping, Results
  <1>2. CASE <<a, class>> \in known
    <2>1. r = [start EXCEPT !.ok = TRUE]
      BY <1>2 DEF ProposedAccount, CheckAccount
    <2> HIDE DEF r
    <2>2. r \in Results /\ r.throws = FALSE /\ r.known = known /\ r.ok = TRUE
      BY <2>1 DEF Results
    <2>3. QED
      BY <1>2, <2>2 DEF Sound, r
  <1>3. CASE <<a, class>> \notin known
    <2>1. r = AllMembers(authority, keys, a, class, depth, deeper, start)
      BY <1>3 DEF ProposedAccount, CheckAccount, AllMembers
    <2> DEFINE g == CHOOSE g : MembersSeen(authority, keys, a, class, depth, deeper, start, g)
    <2>2. MembersSeen(authority, keys, a, class, depth, deeper, start, g)
      <3> HIDE DEF start, r
      <3>1. \E h : MembersSeen(authority, keys, a, class, depth, deeper, start, h)
        BY <1>1, MembersSeenExist
      <3>2. QED
        BY <3>1
    <2> HIDE DEF r
    <2>3. r = g[S]
      <3> HIDE DEF start
      <3> QED
        BY <2>1, MembersUnfold
    <2> HIDE DEF g
    <2>4. \A T \in SUBSET S : g[T] = MemberStep(authority, keys, a, class, depth, deeper, start, g, T)
      <3> HIDE DEF start
      <3> QED
        BY <2>2 DEF MembersSeen
    <2>5. /\ IsFiniteSet(S) /\ S \subseteq Nat
          /\ \A i \in S : authority.auths[i] \in Members /\ authority.auths[i].weight \in Nat
      BY AuthorityMembers
    <2>6. \A i \in S : /\ share[i] \in Nat
                       /\ authority.auths[i].who \in Holders(P, keys, class) => share[i] = authority.auths[i].weight
      BY <2>5 DEF Shares
    <2>7. Weight(authority, Holders(P, keys, class)) = total /\ authority.threshold \in Nat
      BY DEF Weight, Sum, Shares, Authority
    <2> HIDE DEF share, S, total
    <2>8. ASSUME NEW T \in SUBSET S
          PROVE  IsFiniteSet(T) /\ Sum(share, T) \in Nat /\ Sum(share, T) <= total /\ total \in Int
      <3>1. IsFiniteSet(T)
        BY <2>5, FS_Subset
      <3>2. Sum(share, T) <= total
        BY <2>5, <2>6, SumOfPart DEF total
      <3>3. Sum(share, T) \in Int /\ total \in Int
        <4>1. \A i \in S : share[i] \in Int
          BY <2>6
        <4>2. QED
          BY <2>5, <3>1, <4>1, SumType DEF total
      <3>4. Sum(share, {}) <= Sum(share, T) /\ Sum(share, {}) = 0
        BY <2>6, <3>1, SumOfPart, SumRecursion
      <3>5. QED
        BY <3>1, <3>2, <3>3, <3>4
    <2> DEFINE G == {T \in SUBSET S : Progress(P, a, class, known, g[T], Sum(share, T))}
    <2>9. ASSUME NEW T \in SUBSET S, \A x \in T : T \ {x} \in G
          PROVE  T \in G
      <3>1. CASE T = {}
        <4>1. g[T] = start
          BY <2>4, <3>1 DEF MemberStep
        <4>2. Sum(share, T) \in Nat
          BY <2>8
        <4>3. start \in Results /\ start.throws = FALSE /\ start.known = known /\ start.ok = FALSE /\ start.weight = 0
          BY DEF Results
        <4> HIDE DEF start
        <4>4. Progress(P, a, class, known, start, Sum(share, T))
          BY <4>2, <4>3 DEF Progress
        <4>5. QED
          BY <4>1, <4>4
      <3>2. CASE T # {}
        <4> DEFINE x == Max(T)
                   s == g[T \ {x}]
        <4>1. x \in T
          BY <2>5, <3>2, MaxOfFinite
        <4>2. g[T] = CheckMember(authority, keys, a, class, depth, deeper, s, authority.auths[x])
          BY <2>4, <3>2 DEF MemberStep
        <4> HIDE DEF x
        <4>3. Progress(P, a, class, known, s, Sum(share, T \ {x})) /\ T \ {x} \in SUBSET S
          BY <2>9, <4>1
        <4>4. Sum(share, T) = share[x] + Sum(share, T \ {x})
          <5>1. \A y \in T : share[y] \in Int
            BY <2>6
          <5>2. QED
            BY <2>8, <4>1, <5>1, SumRemove
        <4> DEFINE w == Sum(share, T \ {x})
                   v == share[x]
                   m == authority.auths[x]
        <4>5. w \in Nat /\ v \in Nat /\ m \in Members /\ (m.who \in Holders(P, keys, class) => v = m.weight)
          BY <2>5, <2>6, <2>8, <4>1, <4>3
        <4>6. Sum(share, T) = w + v
          BY <4>4, <4>5
        <4>7. w + v >= authority.threshold => <<a, class>> \in P
          <5>1. w + v <= total /\ total \in Int
            BY <2>8, <4>6
          <5>2. QED
            BY <2>7, <4>5, <5>1
        <4>8. Progress(P, a, class, known, s, w)
          BY <4>3
        <4> HIDE DEF w, v, m, s, start, G
        <4>9. Progress(P, a, class, known, CheckMember(authority, keys, a, class, depth, deeper, s, m), w + v)
          BY <4>5, <4>7, <4>8, MemberProgress
        <4>10. Progress(P, a, class, known, g[T], Sum(share, T))
          BY <4>2, <4>6, <4>9 DEF m
        <4>11. QED
          BY <4>10 DEF G
      <3>3. QED
        BY <3>1, <3>2
    <2>10. \A T \in SUBSET S : T \in G
      <3> HIDE DEF G, start
      <3> QED
        BY <2>5, <2>9, SubsetInduction
    <2>11. Progress(P, a, class, known, r, Sum(share, S))
      BY <2>3, <2>10
    <2>12. QED
      BY <1>3, <2>11 DEF Progress, Sound, r
  <1>4. QED
    BY <1>2, <1>3

----------------------------------------------------------------------------
(* Authorities within authorities.                                         *)

\* The answers at depth d, from those one level down, f[d + 1].
Level(auths, keys, class, f, d) ==
    [a \in Accounts |-> [known \in SUBSET Approvals |->
       ProposedAccount(auths[a][class], keys, a, class, d,
                       IF d = MaxDepth THEN <<>> ELSE f[d + 1], known)]]

Levels(auths, keys, class, f) == f = [d \in 0 .. MaxDepth |-> Level(auths, keys, class, f, d)]

AllLevels(auths, keys, class) == CHOOSE f : Levels(auths, keys, class, f)

\* check_authority starts at depth 0.
LEMMA CheckUnfold ==
  ASSUME NEW auths, NEW keys, NEW class, NEW a, NEW known
  PROVE  ProposedCheck(auths, keys, class, a, known)
           = AllLevels(auths, keys, class)[0][a][known]
  BY DEF ProposedCheck, check_authority, AllLevels, Levels, Level, ProposedAccount

\* The recursion over the depth has a solution: it ends at MaxDepth.
LEMMA LevelsExist ==
  ASSUME NEW auths, NEW keys, NEW class
  PROVE  \E f : Levels(auths, keys, class, f)
  <1> DEFINE Solves(f, n) == \A d \in 0 .. MaxDepth : d + n >= MaxDepth => f[d] = Level(auths, keys, class, f, d)
             N == {n \in Nat : \E f : Solves(f, n)}
  <1>1. MaxDepth \in Nat
    BY ProposalsAssumption
  <1>2. 0 \in N
    <2> DEFINE f == [d \in 0 .. MaxDepth |-> Level(auths, keys, class, <<>>, MaxDepth)]
    <2>1. ASSUME NEW d \in 0 .. MaxDepth, d + 0 >= MaxDepth
          PROVE  f[d] = Level(auths, keys, class, f, d)
      <3>1. d = MaxDepth
        BY <1>1, <2>1
      <3>2. f[d] = Level(auths, keys, class, <<>>, d)
        BY <3>1
      <3> HIDE DEF f
      <3>3. QED
        BY <3>1, <3>2 DEF Level
    <2> HIDE DEF f
    <2>2. QED
      BY <2>1
  <1>3. ASSUME NEW n \in Nat, n \in N
        PROVE  n + 1 \in N
    <2>1. PICK f : Solves(f, n)
      BY <1>3
    <2> DEFINE h == [d \in 0 .. MaxDepth |-> IF d + n + 1 = MaxDepth THEN Level(auths, keys, class, f, d) ELSE f[d]]
    <2>2. ASSUME NEW d \in 0 .. MaxDepth, d + (n + 1) >= MaxDepth
          PROVE  h[d] = Level(auths, keys, class, h, d)
      <3>1. Level(auths, keys, class, h, d) = Level(auths, keys, class, f, d)
        <4>1. CASE d = MaxDepth
          <5> HIDE DEF h
          <5> QED
            BY <4>1 DEF Level
        <4>2. CASE d # MaxDepth
          <5>1. d + 1 \in 0 .. MaxDepth /\ (d + 1) + n + 1 # MaxDepth
            BY <1>1, <2>2, <4>2
          <5>2. h[d + 1] = f[d + 1]
            BY <5>1
          <5> HIDE DEF h
          <5>3. QED
            BY <4>2, <5>2 DEF Level
        <4>3. QED
          BY <4>1, <4>2
      <3>2. CASE d + n + 1 = MaxDepth
        BY <3>1, <3>2
      <3>3. CASE d + n + 1 # MaxDepth
        <4>1. d + n >= MaxDepth
          BY <1>1, <2>2, <3>3
        <4>2. f[d] = Level(auths, keys, class, f, d)
          BY <2>1, <4>1
        <4>3. h[d] = f[d]
          BY <3>3
        <4>4. QED
          BY <3>1, <4>2, <4>3
      <3>4. QED
        BY <3>2, <3>3
    <2> HIDE DEF h
    <2>3. QED
      BY <2>2
  <1> HIDE DEF N
  <1>4. Nat \subseteq N
    BY <1>2, <1>3, NatSetInduction
  <1>5. PICK f : Solves(f, MaxDepth)
    BY <1>1, <1>4 DEF N
  <1> DEFINE h == [d \in 0 .. MaxDepth |-> f[d]]
  <1>6. ASSUME NEW d \in 0 .. MaxDepth
        PROVE  h[d] = Level(auths, keys, class, h, d)
    <2>1. d + MaxDepth >= MaxDepth
      BY <1>1
    <2>2. f[d] = Level(auths, keys, class, f, d)
      BY <1>5, <2>1
    <2>3. d # MaxDepth => h[d + 1] = f[d + 1]
      BY <1>1
    <2>4. h[d] = f[d]
      OBVIOUS
    <2> HIDE DEF h
    <2>5. Level(auths, keys, class, h, d) = Level(auths, keys, class, f, d)
      <3>1. CASE d = MaxDepth
        BY <3>1 DEF Level
      <3>2. CASE d # MaxDepth
        BY <2>3, <3>2 DEF Level
      <3>3. QED
        BY <3>1, <3>2
    <2>6. QED
      BY <2>2, <2>4, <2>5
  <1>7. Levels(auths, keys, class, h)
    BY <1>6 DEF Levels
  <1>8. QED
    BY <1>7

AuthsType(auths) == auths \in [Accounts -> [Classes -> Authority]]

\* check_authority, for a transaction that is proposed, grants an account only if
\* it is in every set of approvals that holds those known and every account whose
\* authority the set fulfils; it does grant an account that is known to approve,
\* and it never forgets an approval.
LEMMA CheckSound ==
  ASSUME NEW P, NEW auths, AuthsType(auths), NEW keys, NEW class \in Classes, Fulfilled(P, auths, keys, class),
         NEW a \in Accounts, NEW known \in SUBSET Approvals
  PROVE  Sound(P, a, class, known, ProposedCheck(auths, keys, class, a, known))
  <1> DEFINE f == AllLevels(auths, keys, class)
  <1>1. Levels(auths, keys, class, f)
    BY LevelsExist DEF AllLevels
  <1>2. ProposedCheck(auths, keys, class, a, known) = f[0][a][known]
    BY CheckUnfold
  <1> HIDE DEF f
  <1>3. \A d \in 0 .. MaxDepth : f[d] = Level(auths, keys, class, f, d)
    BY <1>1 DEF Levels
  <1>4. MaxDepth \in Nat
    BY ProposalsAssumption
  <1> DEFINE N == {n \in Nat : \A d \in 0 .. MaxDepth : d + n >= MaxDepth => Deeper(P, class, f[d])}
  <1>5. ASSUME NEW d \in 0 .. MaxDepth, d # MaxDepth => Deeper(P, class, f[d + 1])
        PROVE  Deeper(P, class, f[d])
    <2> SUFFICES ASSUME NEW x \in Accounts, NEW k \in SUBSET Approvals
                 PROVE  Sound(P, x, class, k, f[d][x][k])
      BY DEF Deeper
    <2> DEFINE deeper == IF d = MaxDepth THEN <<>> ELSE f[d + 1]
               authority == auths[x][class]
    <2>1. f[d][x][k] = ProposedAccount(authority, keys, x, class, d, deeper, k)
      <3>1. f[d] = Level(auths, keys, class, f, d)
        BY <1>3
      <3>2. Level(auths, keys, class, f, d)[x] =
              [j \in SUBSET Approvals |-> ProposedAccount(authority, keys, x, class, d, deeper, j)]
        BY DEF Level
      <3>3. QED
        BY <3>1, <3>2
    <2>2. authority \in Authority
      BY DEF AuthsType
    <2>3. Weight(authority, Holders(P, keys, class)) >= authority.threshold => <<x, class>> \in P
      BY DEF Fulfilled
    <2>4. d # MaxDepth => Deeper(P, class, deeper)
      BY <1>5
    <2> HIDE DEF deeper, authority
    <2>5. Sound(P, x, class, k, ProposedAccount(authority, keys, x, class, d, deeper, k))
      BY <2>2, <2>3, <2>4, AccountSound
    <2>6. QED
      BY <2>1, <2>5
  <1>6. 0 \in N
    <2>1. ASSUME NEW d \in 0 .. MaxDepth, d + 0 >= MaxDepth
          PROVE  Deeper(P, class, f[d])
      <3>1. d = MaxDepth
        BY <1>4, <2>1
      <3>2. QED
        BY <1>5, <3>1
    <2>2. QED
      BY <2>1
  <1>7. ASSUME NEW n \in Nat, n \in N
        PROVE  n + 1 \in N
    <2>1. ASSUME NEW d \in 0 .. MaxDepth, d + (n + 1) >= MaxDepth
          PROVE  Deeper(P, class, f[d])
      <3>1. d # MaxDepth => d + 1 \in 0 .. MaxDepth /\ (d + 1) + n >= MaxDepth
        BY <1>4, <2>1
      <3>2. d # MaxDepth => Deeper(P, class, f[d + 1])
        BY <1>7, <3>1
      <3>3. QED
        BY <1>5, <3>2
    <2>2. QED
      BY <2>1
  <1>8. MaxDepth \in N
    <2> HIDE DEF N
    <2>1. Nat \subseteq N
      BY <1>6, <1>7, NatSetInduction
    <2>2. QED
      BY <1>4, <2>1
  <1>9. 0 \in 0 .. MaxDepth /\ 0 + MaxDepth >= MaxDepth
    BY <1>4
  <1>10. Deeper(P, class, f[0])
    BY <1>8, <1>9
  <1>11. QED
    BY <1>2, <1>10 DEF Deeper

----------------------------------------------------------------------------
(* The loops over the accounts that are required.                          *)

\* One turn of such a loop in a proposed transaction, which asks for the authority
\* of a class or, as check_required_authorities does, for either.
Ask(auths, keys, how, s, a) ==
    IF how = "either" THEN VerifyActive(auths, keys, TRUE, s, a) ELSE Verify(auths, keys, TRUE, how, s, a)

AskStep(auths, keys, how, base, g, T) ==
    IF T = {} THEN base ELSE Ask(auths, keys, how, g[T \ {Max(T)}], Max(T))

AskSeen(auths, keys, how, base, S, g) ==
    g = [T \in SUBSET S |-> AskStep(auths, keys, how, base, g, T)]

AskAll(auths, keys, how, base, S) == (CHOOSE g : AskSeen(auths, keys, how, base, S, g))[S]

\* is_authorized_to_execute asks for the active, then for the owner authorities.
LEMMA ExecuteUnfold ==
  ASSUME NEW d, NEW p
  PROVE  is_authorized_to_execute(d, p) =
           AskAll(d.auths, p.available.keys, "owner",
                  AskAll(d.auths, p.available.keys, "active", Start(ApprovedBy(p.available)), p.required.active),
                  p.required.owner).ok
  BY DEF is_authorized_to_execute, ForEach, MapThenFoldSet, AskAll, AskSeen, AskStep, Ask

\* check_required_authorities takes an owner's word for the active authority.
LEMMA RequiredUnfold ==
  ASSUME NEW auths, NEW keys, NEW op, NEW approved
  PROVE  check_required_authorities(auths, keys, TRUE, op, approved) =
           AskAll(auths, keys, "owner",
                  AskAll(auths, keys, "either", Start(approved), Required(op).active),
                  Required(op).owner)
  BY DEF check_required_authorities, ForEach, MapThenFoldSet, AskAll, AskSeen, AskStep, Ask

\* What such a loop has found so far.
Asked == {s \in [ok : BOOLEAN, throws : BOOLEAN, known : SUBSET Approvals] : s.throws = FALSE}

\* The classes that will do.
Ways == Classes \cup {"either"}
Of(how) == IF how = "either" THEN Classes ELSE {how}

\* One turn is right about P.
Asks(P, how, s, a, r) ==
    /\ r \in Asked /\ s.known \subseteq r.known
    /\ r.ok = TRUE => s.ok = TRUE
    /\ s.ok = TRUE /\ (\E c \in Of(how) : <<a, c>> \in s.known) => r.ok = TRUE
    /\ s.known \subseteq P => r.known \subseteq P /\ (r.ok = TRUE => \E c \in Of(how) : <<a, c>> \in P)

\* Asking for the authority of a class.
LEMMA VerifySound ==
  ASSUME NEW P, NEW auths, AuthsType(auths), NEW keys, NEW class \in Classes, Fulfilled(P, auths, keys, class),
         NEW a \in Accounts, NEW s \in Asked
  PROVE  Asks(P, class, s, a, Verify(auths, keys, TRUE, class, s, a))
  <1> DEFINE r == Verify(auths, keys, TRUE, class, s, a)
             q == ProposedCheck(auths, keys, class, a, s.known)
  <1>1. s.ok \in BOOLEAN /\ s.known \in SUBSET Approvals
    BY DEF Asked
  <1>2. Of(class) = {class}
    BY DEF Of, Classes
  <1>3. CASE s.ok = FALSE
    <2>1. r = s
      BY <1>3 DEF Verify
    <2> HIDE DEF r
    <2>2. QED
      BY <1>3, <2>1 DEF Asks, r
  <1>4. CASE s.ok = TRUE
    <2>1. r = [ok |-> q.ok, throws |-> q.throws, known |-> q.known]
      BY <1>4 DEF Verify, ProposedCheck
    <2>2. Sound(P, a, class, s.known, q)
      <3> HIDE DEF r
      <3> QED
        BY <1>1, CheckSound
    <2> HIDE DEF r, q
    <2>3. q.ok \in BOOLEAN /\ q.throws = FALSE /\ q.known \in SUBSET Approvals
      BY <2>2 DEF Sound, Results
    <2>4. r \in Asked /\ r.ok = q.ok /\ r.known = q.known
      BY <2>1, <2>3 DEF Asked
    <2>5. QED
      BY <1>2, <1>4, <2>2, <2>4 DEF Asks, Sound, r
  <1>5. QED
    BY <1>1, <1>3, <1>4

\* Asking for the authority of a class, or for either.
LEMMA AskSound ==
  ASSUME NEW P, NEW auths, AuthsType(auths), NEW keys, NEW how \in Ways,
         \A c \in Of(how) : Fulfilled(P, auths, keys, c), NEW a \in Accounts, NEW s \in Asked
  PROVE  Asks(P, how, s, a, Ask(auths, keys, how, s, a))
  <1>1. CASE how # "either"
    <2>1. how \in Classes /\ Of(how) = {how}
      BY <1>1 DEF Ways, Of
    <2>2. Ask(auths, keys, how, s, a) = Verify(auths, keys, TRUE, how, s, a)
      BY <1>1 DEF Ask
    <2>3. Asks(P, how, s, a, Verify(auths, keys, TRUE, how, s, a))
      BY <2>1, VerifySound
    <2>4. QED
      BY <2>2, <2>3
  <1>2. CASE how = "either"
    <2> DEFINE r == Verify(auths, keys, TRUE, "active", s, a)
               t == [r EXCEPT !.ok = TRUE]
               u == Verify(auths, keys, TRUE, "owner", t, a)
               v == VerifyActive(auths, keys, TRUE, s, a)
    <2>1. Of(how) = Classes /\ Classes = {"owner", "active"}
      BY <1>2 DEF Of, Classes
    <2>2. Of("active") = {"active"} /\ Of("owner") = {"owner"}
      BY DEF Of
    <2>3. Ask(auths, keys, how, s, a) = v
      BY <1>2 DEF Ask
    <2>4. Asks(P, "active", s, a, r)
      BY <2>1, VerifySound
    <2>5. v = IF ~ s.ok \/ r.ok \/ r.throws THEN r ELSE u
      BY DEF VerifyActive
    <2> HIDE DEF r, v
    <2>6. s.ok \in BOOLEAN /\ r.ok \in BOOLEAN /\ r.throws = FALSE /\ r \in Asked
      BY <2>4 DEF Asks, Asked
    <2>7. CASE s.ok = FALSE \/ r.ok = TRUE
      <3>1. v = r
        BY <2>5, <2>6, <2>7
      <3>2. Asks(P, how, s, a, r)
        BY <2>1, <2>2, <2>4, <2>7 DEF Asks
      <3>3. QED
        BY <2>3, <3>1, <3>2
    <2>8. CASE s.ok = TRUE /\ r.ok = FALSE
      <3>1. v = u
        BY <2>5, <2>6, <2>8
      <3>2. t \in Asked /\ t.ok = TRUE /\ t.known = r.known
        BY <2>6 DEF Asked
      <3> HIDE DEF t
      <3>3. Asks(P, "owner", t, a, u)
        BY <2>1, <3>2, VerifySound
      <3> HIDE DEF u
      <3>4. Asks(P, how, s, a, u)
        BY <2>1, <2>2, <2>4, <2>8, <3>2, <3>3 DEF Asks
      <3>5. QED
        BY <2>3, <3>1, <3>4
    <2>9. QED
      BY <2>6, <2>7, <2>8
  <1>3. QED
    BY <1>1, <1>2

\* Everyone approves: the set of all approvals lacks nothing.
LEMMA AllFulfilled ==
  ASSUME NEW auths, NEW keys, NEW class \in Classes
  PROVE  Fulfilled(Approvals, auths, keys, class)
  BY DEF Fulfilled, Approvals

\* The recursion over the accounts has a solution.
LEMMA AskSeenExist ==
  ASSUME NEW auths, AuthsType(auths), NEW keys, NEW how \in Ways, NEW base \in Asked,
         NEW S \in SUBSET Accounts, IsFiniteSet(S)
  PROVE  \E g : AskSeen(auths, keys, how, base, S, g)
  <1> DEFINE st == [a \in S |-> [s \in Asked |-> Ask(auths, keys, how, s, a)]]
  <1>1. S \subseteq Nat
    BY ProposalsAssumption
  <1>2. \A c \in Of(how) : Fulfilled(Approvals, auths, keys, c)
    BY AllFulfilled DEF Of, Ways
  <1>3. \A a \in S : \A s \in Asked : Ask(auths, keys, how, s, a) \in Asked
    BY <1>2, AskSound DEF Asks
  <1>4. st \in [S -> [Asked -> Asked]] /\ \A a \in S : \A s \in Asked : st[a][s] = Ask(auths, keys, how, s, a)
    BY <1>3
  <1> HIDE DEF st
  <1>5. PICK g : Folded(st, base, S, g) /\ g = [T \in SUBSET S |-> g[T]] /\ \A T \in SUBSET S : g[T] \in Asked
    BY <1>1, <1>4, FoldsExist
  <1>6. ASSUME NEW T \in SUBSET S
        PROVE  g[T] = AskStep(auths, keys, how, base, g, T)
    <2>1. g[T] = FoldStep(st, base, g, T)
      BY <1>5 DEF Folded
    <2>2. CASE T = {}
      BY <2>1, <2>2 DEF FoldStep, AskStep
    <2>3. CASE T # {}
      <3> DEFINE x == Max(T)
      <3>1. x \in S
        BY <1>1, <2>3, MaxOfFinite
      <3>2. g[T] = st[x][g[T \ {x}]]
        BY <2>1, <2>3 DEF FoldStep
      <3> HIDE DEF x
      <3>3. g[T \ {x}] \in Asked
        BY <1>5
      <3>4. g[T] = Ask(auths, keys, how, g[T \ {x}], x)
        BY <1>4, <3>1, <3>2, <3>3
      <3>5. QED
        BY <2>3, <3>4 DEF AskStep, x
    <2>4. QED
      BY <2>2, <2>3
  <1>7. QED
    BY <1>5, <1>6 DEF AskSeen

\* The whole loop is right about P.
AsksAll(P, how, base, S, r) ==
    /\ r \in Asked /\ base.known \subseteq r.known
    /\ r.ok = TRUE => base.ok = TRUE
    /\ base.ok = TRUE /\ (\A a \in S : \E c \in Of(how) : <<a, c>> \in base.known) => r.ok = TRUE
    /\ base.known \subseteq P =>
         r.known \subseteq P /\ (r.ok = TRUE => \A a \in S : \E c \in Of(how) : <<a, c>> \in P)

\* The loop over the accounts that are required.
LEMMA AskAllSound ==
  ASSUME NEW P, NEW auths, AuthsType(auths), NEW keys, NEW how \in Ways, NEW base \in Asked,
         NEW S \in SUBSET Accounts, IsFiniteSet(S),
         \A c \in Of(how) : Fulfilled(P, auths, keys, c)
  PROVE  AsksAll(P, how, base, S, AskAll(auths, keys, how, base, S))
  <1> DEFINE g == CHOOSE g : AskSeen(auths, keys, how, base, S, g)
             G == {T \in SUBSET S : AsksAll(P, how, base, T, g[T])}
  <1>1. AskSeen(auths, keys, how, base, S, g)
    BY AskSeenExist
  <1>2. AskAll(auths, keys, how, base, S) = g[S]
    BY DEF AskAll
  <1> HIDE DEF g
  <1>3. \A T \in SUBSET S : g[T] = AskStep(auths, keys, how, base, g, T)
    BY <1>1 DEF AskSeen
  <1>4. S \subseteq Nat
    BY ProposalsAssumption
  <1>5. ASSUME NEW T \in SUBSET S, \A x \in T : T \ {x} \in G
        PROVE  T \in G
    <2>1. CASE T = {}
      <3>1. g[T] = base
        BY <1>3, <2>1 DEF AskStep
      <3>2. QED
        BY <2>1, <3>1 DEF AsksAll
    <2>2. CASE T # {}
      <3> DEFINE x == Max(T)
                 s == g[T \ {x}]
                 r == g[T]
      <3>1. x \in T
        BY <1>4, <2>2, MaxOfFinite
      <3>2. r = Ask(auths, keys, how, s, x)
        BY <1>3, <2>2 DEF AskStep
      <3> HIDE DEF x
      <3>3. AsksAll(P, how, base, T \ {x}, s)
        BY <1>5, <3>1
      <3> HIDE DEF s, r, G
      <3>4. s \in Asked /\ x \in Accounts
        BY <3>1, <3>3 DEF AsksAll
      <3>5. Asks(P, how, s, x, r)
        BY <3>2, <3>4, AskSound
      <3>6. r \in Asked /\ base.known \subseteq r.known /\ (r.ok = TRUE => base.ok = TRUE)
        BY <3>3, <3>5 DEF Asks, AsksAll
      <3>7. ASSUME base.ok = TRUE, \A a \in T : \E c \in Of(how) : <<a, c>> \in base.known
            PROVE  r.ok = TRUE
        <4>1. s.ok = TRUE /\ base.known \subseteq s.known
          BY <3>3, <3>7 DEF AsksAll
        <4>2. \E c \in Of(how) : <<x, c>> \in s.known
          BY <3>1, <3>7, <4>1
        <4>3. QED
          BY <3>5, <4>1, <4>2 DEF Asks
      <3>8. ASSUME base.known \subseteq P
            PROVE  r.known \subseteq P /\ (r.ok = TRUE => \A a \in T : \E c \in Of(how) : <<a, c>> \in P)
        <4>1. s.known \subseteq P /\ (s.ok = TRUE => \A a \in T \ {x} : \E c \in Of(how) : <<a, c>> \in P)
          BY <3>3, <3>8 DEF AsksAll
        <4>2. r.known \subseteq P /\ (r.ok = TRUE => s.ok = TRUE /\ \E c \in Of(how) : <<x, c>> \in P)
          BY <3>5, <4>1 DEF Asks
        <4>3. QED
          BY <4>1, <4>2
      <3>9. AsksAll(P, how, base, T, r)
        BY <3>6, <3>7, <3>8 DEF AsksAll
      <3>10. QED
        BY <3>9 DEF G, r
    <2>3. QED
      BY <2>1, <2>2
  <1>6. \A T \in SUBSET S : T \in G
    <2> HIDE DEF G
    <2> QED
      BY <1>5, SubsetInduction
  <1>7. QED
    BY <1>2, <1>6

----------------------------------------------------------------------------
(* What is_authorized_to_execute and check_required_authorities promise.   *)

\* A set of accounts for each class, finite.
Needs(r) == Some(r.active) /\ Some(r.owner)

\* The approvals of p, under the authorities auths, grant what it requires.
Approved(auths, p) == \A c \in Classes : p.required[c] \subseteq Granted(auths, p.available, c)

\* A proposal that is authorised is approved.
LEMMA AuthorizedApproved ==
  ASSUME NEW d, AuthsType(d.auths), NEW p, Needs(p.required), Needs(p.available),
         is_authorized_to_execute(d, p)
  PROVE  Approved(d.auths, p)
  <1> DEFINE auths == d.auths
             keys == p.available.keys
             base == Start(ApprovedBy(p.available))
             one == AskAll(auths, keys, "active", base, p.required.active)
             two == AskAll(auths, keys, "owner", one, p.required.owner)
  <1>1. two.ok
    BY ExecuteUnfold
  <1>2. p.available.active \subseteq Accounts /\ p.available.owner \subseteq Accounts
    BY DEF Needs, Some
  <1>3. base \in Asked /\ base.ok = TRUE /\ base.known = ApprovedBy(p.available)
    BY <1>2 DEF Start, Asked, ApprovedBy, Approvals, Classes
  <1>4. /\ p.required.active \in SUBSET Accounts /\ IsFiniteSet(p.required.active)
        /\ p.required.owner \in SUBSET Accounts /\ IsFiniteSet(p.required.owner)
    BY DEF Needs, Some
  <1> HIDE DEF auths, keys, base, one, two
  <1>5. AuthsType(auths)
    BY DEF auths
  <1>6. /\ "active" \in Ways /\ "owner" \in Ways /\ Of("active") = {"active"} /\ Of("owner") = {"owner"}
        /\ Classes = {"owner", "active"}
    BY DEF Ways, Of, Classes
  <1>7. ASSUME NEW P, Fulfilled(P, auths, keys, "active"), Fulfilled(P, auths, keys, "owner"),
               base.known \subseteq P
        PROVE  /\ \A a \in p.required.active : <<a, "active">> \in P
               /\ \A a \in p.required.owner : <<a, "owner">> \in P
    <2>1. AsksAll(P, "active", base, p.required.active, one)
      BY <1>3, <1>4, <1>5, <1>6, <1>7, AskAllSound DEF one
    <2>2. one \in Asked /\ one.known \subseteq P /\ (one.ok = TRUE => \A a \in p.required.active : <<a, "active">> \in P)
      BY <1>6, <1>7, <2>1 DEF AsksAll
    <2>3. AsksAll(P, "owner", one, p.required.owner, two)
      BY <1>4, <1>5, <1>6, <1>7, <2>2, AskAllSound DEF two
    <2>4. two.ok = TRUE
      <3>1. two.ok \in BOOLEAN
        BY <2>3 DEF AsksAll, Asked
      <3>2. QED
        BY <1>1, <3>1
    <2>5. QED
      BY <1>6, <2>2, <2>3, <2>4 DEF AsksAll
  <1>8. ASSUME NEW c \in Classes, NEW S \in SUBSET Accounts,
               p.available[c] \subseteq S, Closed(auths, keys, c, S)
        PROVE  p.required[c] \subseteq S
    <2> DEFINE P == {x \in Approvals : x[2] = c => x[1] \in S}
    <2>1. \A a \in Accounts : \A k \in Classes : <<a, k>> \in P <=> (k = c => a \in S)
      BY DEF Approvals
    <2> HIDE DEF P
    <2>2. Fulfilled(P, auths, keys, c)
      <3>1. Holders(P, keys, c) = S \cup keys
        BY <2>1 DEF Holders
      <3>2. QED
        BY <1>8, <2>1, <3>1 DEF Fulfilled, Closed
    <2>3. ASSUME NEW k \in Classes, k # c
          PROVE  Fulfilled(P, auths, keys, k)
      BY <2>1, <2>3 DEF Fulfilled
    <2>4. Fulfilled(P, auths, keys, "active") /\ Fulfilled(P, auths, keys, "owner")
      BY <1>6, <2>2, <2>3
    <2>5. base.known \subseteq P
      <3>1. \A a \in p.available.active : <<a, "active">> \in P
        BY <1>2, <1>6, <1>8, <2>1
      <3>2. \A a \in p.available.owner : <<a, "owner">> \in P
        BY <1>2, <1>6, <1>8, <2>1
      <3>3. QED
        BY <1>3, <3>1, <3>2 DEF ApprovedBy
    <2>6. /\ \A a \in p.required.active : <<a, "active">> \in P
          /\ \A a \in p.required.owner : <<a, "owner">> \in P
      BY <1>7, <2>4, <2>5
    <2>7. QED
      BY <1>4, <1>6, <2>1, <2>6
  <1>9. \A c \in Classes : p.required[c] \subseteq Accounts
    BY <1>4, <1>6
  <1>10. QED
    BY <1>8, <1>9 DEF Approved, Granted, auths, keys

\* The approvals known cover what an operation requires, of each account its
\* active or its owner authority.
Covered(op, known) ==
    /\ \A a \in Required(op).active : <<a, "active">> \in known \/ <<a, "owner">> \in known
    /\ \A a \in Required(op).owner : <<a, "owner">> \in known

\* An operation that is covered passes the authority check, and no approval is lost.
LEMMA CoveredPasses ==
  ASSUME NEW auths, AuthsType(auths), NEW keys, NEW op, Needs(Required(op)),
         NEW known \in SUBSET Approvals, Covered(op, known)
  PROVE  LET r == check_required_authorities(auths, keys, TRUE, op, known)
         IN  r.ok = TRUE /\ known \subseteq r.known /\ r.known \in SUBSET Approvals
  <1> DEFINE r == check_required_authorities(auths, keys, TRUE, op, known)
             base == Start(known)
             one == AskAll(auths, keys, "either", base, Required(op).active)
             two == AskAll(auths, keys, "owner", one, Required(op).owner)
  <1>1. r = two
    BY RequiredUnfold
  <1>2. base \in Asked /\ base.ok = TRUE /\ base.known = known
    BY DEF Start, Asked
  <1>3. /\ Required(op).active \in SUBSET Accounts /\ IsFiniteSet(Required(op).active)
        /\ Required(op).owner \in SUBSET Accounts /\ IsFiniteSet(Required(op).owner)
    BY DEF Needs, Some
  <1> HIDE DEF r, base, one, two
  <1>4. /\ "either" \in Ways /\ "owner" \in Ways /\ Of("either") = Classes /\ Of("owner") = {"owner"}
        /\ Classes = {"owner", "active"}
    BY DEF Ways, Of, Classes
  <1>5. \A c \in Classes : Fulfilled(Approvals, auths, keys, c)
    BY AllFulfilled
  <1>6. AsksAll(Approvals, "either", base, Required(op).active, one)
    BY <1>2, <1>3, <1>4, <1>5, AskAllSound DEF one
  <1>7. one \in Asked /\ known \subseteq one.known /\ one.ok = TRUE
    BY <1>2, <1>4, <1>6 DEF AsksAll, Covered
  <1>8. AsksAll(Approvals, "owner", one, Required(op).owner, two)
    BY <1>3, <1>4, <1>5, <1>7, AskAllSound DEF two
  <1>9. two \in Asked /\ known \subseteq two.known /\ two.ok = TRUE
    BY <1>4, <1>7, <1>8 DEF AsksAll, Covered
  <1>10. two.known \in SUBSET Approvals
    BY <1>9 DEF Asked
  <1>11. QED
    BY <1>1, <1>9, <1>10 DEF r

----------------------------------------------------------------------------
(* The invariant.                                                          *)

\* The approvals known cover all of the operations.
CoversAll(ops, known) == \A i \in DOMAIN ops : Covered(ops[i], known)

\* What a proposal requires is enough for its operations.
Entitled(p) ==
    /\ Needs(p.required) /\ Needs(p.available)
    /\ CoversAll(p.ops, ApprovedBy(p.required))

\* Of the database and of every database that an exception may bring back.
AuthDb(d) ==
    /\ AuthsType(d.auths)
    /\ \A p \in d.proposals : Entitled(p)
    /\ \A i \in DOMAIN d.ran : Approved(d.ran[i].auths, d.ran[i].proposal)

\* A proposal that is being run was approved when it started, and the approvals
\* it started with cover what is left to do.
AuthFrame(f) ==
    /\ AuthDb(f.saved)
    /\ f.kind = "proposal" =>
         /\ f.approved \in SUBSET Approvals /\ CoversAll(f.todo, f.approved)
         /\ Approved(f.saved.auths, Find(f.saved, f.id))

AuthInv ==
    /\ AuthDb(db)
    /\ \A k \in DOMAIN stack : AuthFrame(stack[k])
    /\ refused = FALSE

----------------------------------------------------------------------------
(* Databases.                                                              *)

\* A few accounts, and a few more.
LEMMA SomeSets ==
  ASSUME NEW S, NEW T, Some(S)
  PROVE  /\ Some({}) /\ Some(S \ T) /\ (Some(T) => Some(S \cup T))
         /\ \A a \in Accounts : Some({a})
  <1>1. IsFiniteSet({}) /\ \A a : IsFiniteSet({a})
    BY FS_EmptySet, FS_Singleton
  <1>2. IsFiniteSet(S \ T)
    <2>1. S \ T \in SUBSET S /\ IsFiniteSet(S)
      BY DEF Some
    <2>2. QED
      BY <2>1, FS_Subset
  <1>3. Some(T) => IsFiniteSet(S \cup T)
    BY FS_Union DEF Some
  <1>4. QED
    BY <1>1, <1>2, <1>3 DEF Some

\* An operation requires a few accounts.
LEMMA RequiredNeeds ==
  ASSUME NEW op, WellFormed(op)
  PROVE  Needs(Required(op))
  <1>1. Some({}) /\ \A a \in Accounts : Some({a})
    BY FS_EmptySet, FS_Singleton DEF Some
  <1>2. \A S, T : Some(S) /\ Some(T) => Some(S \cup T)
    BY SomeSets
  <1>3. CASE op.kind = "transfer"
    <2>1. Required(op) = [active |-> {op.from}, owner |-> {}] /\ op.from \in Accounts
      BY <1>3 DEF Required, WellFormed
    <2>2. QED
      BY <1>1, <2>1 DEF Needs
  <1>4. CASE op.kind = "account_update"
    <2>1. Required(op) = [active |-> {}, owner |-> {op.account}] /\ op.account \in Accounts
      BY <1>4 DEF Required, WellFormed
    <2>2. QED
      BY <1>1, <2>1 DEF Needs
  <1>5. CASE op.kind = "proposal_create"
    <2>1. Required(op) = [active |-> {op.payer}, owner |-> {}] /\ op.payer \in Accounts
      BY <1>5 DEF Required, WellFormed
    <2>2. QED
      BY <1>1, <2>1 DEF Needs
  <1>6. CASE op.kind = "proposal_update"
    <2>1. /\ Required(op) = [active |-> {op.payer} \cup op.add.active \cup op.remove.active,
                             owner |-> op.add.owner \cup op.remove.owner]
          /\ op.payer \in Accounts
          /\ Some(op.add.active) /\ Some(op.add.owner) /\ Some(op.remove.active) /\ Some(op.remove.owner)
      BY <1>6 DEF Required, WellFormed
    <2>2. Some({op.payer} \cup op.add.active)
      BY <1>1, <1>2, <2>1
    <2>3. Some(({op.payer} \cup op.add.active) \cup op.remove.active) /\ Some(op.add.owner \cup op.remove.owner)
      BY <1>2, <2>1, <2>2
    <2>4. QED
      BY <2>1, <2>3 DEF Needs
  <1>7. CASE op.kind = "proposal_delete"
    <2>1. /\ Required(op) = [active |-> IF op.owner THEN {} ELSE {op.payer},
                             owner |-> IF op.owner THEN {op.payer} ELSE {}]
          /\ op.payer \in Accounts
      BY <1>7 DEF Required, WellFormed
    <2>2. QED
      BY <1>1, <2>1 DEF Needs
  <1>8. QED
    BY <1>3, <1>4, <1>5, <1>6, <1>7 DEF WellFormed

\* What all the operations of a proposal require.
LEMMA RequiredOfNeeds ==
  ASSUME NEW ops, IsSeq(ops), \A i \in DOMAIN ops : WellFormed(ops[i])
  PROVE  Some(RequiredOf(ops, "active")) /\ Some(RequiredOf(ops, "owner"))
  <1>1. IsFiniteSet(DOMAIN ops)
    <2>1. Len(ops) \in Nat /\ DOMAIN ops = 1 .. Len(ops)
      BY DEF IsSeq
    <2>2. QED
      BY <2>1, FS_Interval
  <1>2. ASSUME NEW class \in {"active", "owner"}
        PROVE  Some(RequiredOf(ops, class))
    <2> DEFINE f == [i \in DOMAIN ops |-> Required(ops[i])[class]]
    <2>1. \A i \in DOMAIN ops : Some(Required(ops[i])[class])
      <3> TAKE i \in DOMAIN ops
      <3>1. Needs(Required(ops[i]))
        BY RequiredNeeds
      <3>2. QED
        BY <3>1 DEF Needs
    <2>2. \A i \in DOMAIN ops : f[i] = Required(ops[i])[class]
      OBVIOUS
    <2>3. RequiredOf(ops, class) = UNION {f[i] : i \in DOMAIN ops}
      BY DEF RequiredOf
    <2> HIDE DEF f
    <2>4. IsFiniteSet(UNION {f[i] : i \in DOMAIN ops})
      BY <1>1, <2>1, <2>2, FiniteUnion DEF Some
    <2>5. UNION {f[i] : i \in DOMAIN ops} \subseteq Accounts
      BY <2>1, <2>2 DEF Some
    <2>6. QED
      BY <2>3, <2>4, <2>5 DEF Some
  <1>3. QED
    BY <1>2

\* Fewer proposals, and the same authorities and past.
LEMMA SameAuthorities ==
  ASSUME NEW d, AuthDb(d), NEW e, AuthsType(e.auths), e.ran = d.ran, e.proposals \subseteq d.proposals
  PROVE  AuthDb(e)
  BY DEF AuthDb

\* Removing a proposal.
LEMMA RemovedAuth ==
  ASSUME NEW d, IsDb(d), AuthDb(d), NEW id
  PROVE  AuthDb(Removed(d, id))
  <1>1. /\ Removed(d, id).auths = d.auths /\ Removed(d, id).ran = d.ran
        /\ Removed(d, id).proposals \subseteq d.proposals
    BY DEF Removed, IsDb
  <1>2. QED
    BY <1>1, SameAuthorities DEF AuthDb

\* Creating a proposal: what it requires covers its operations, though an account
\* that has to approve as owner is not asked to approve as active.
LEMMA CreatedAuth ==
  ASSUME NEW d, IsDb(d), AuthDb(d), NEW c \in Proposable
  PROVE  AuthDb(Created(d, c))
  <1> DEFINE own == RequiredOf(c.ops, "owner")
             act == RequiredOf(c.ops, "active")
             p == [id |-> d.next_id, ops |-> c.ops, expiration |-> now + c.lifetime,
                   reviewed |-> c.review # NoReview,
                   review_period_time |-> now + c.lifetime - c.review,
                   required |-> [active |-> act \ own, owner |-> own],
                   available |-> Nobody]
             e == Created(d, c)
  <1>1. e = [d EXCEPT !.proposals = @ \cup {p}, !.next_id = @ + 1]
    BY DEF Created
  <1>2. IsSeq(c.ops) /\ \A i \in DOMAIN c.ops : WellFormed(c.ops[i])
    BY OperationsAssumption DEF IsSeq
  <1>3. Some(act) /\ Some(own)
    BY <1>2, RequiredOfNeeds
  <1>4. \A i \in DOMAIN c.ops : Required(c.ops[i]).active \subseteq act /\ Required(c.ops[i]).owner \subseteq own
    BY DEF RequiredOf
  <1> HIDE DEF act, own, e
  <1>5. p.ops = c.ops /\ p.required = [active |-> act \ own, owner |-> own] /\ p.available = Nobody
    OBVIOUS
  <1> HIDE DEF p
  <1>6. Entitled(p)
    <2>1. Needs(p.required)
      <3>1. Some(act \ own)
        BY <1>3, SomeSets
      <3>2. p.required.active = act \ own /\ p.required.owner = own
        BY <1>5
      <3>3. QED
        BY <1>3, <3>1, <3>2 DEF Needs
    <2>2. Needs(p.available)
      BY <1>3, <1>5, SomeSets DEF Needs, Nobody
    <2>3. ApprovedBy(p.required) = {<<a, "active">> : a \in act \ own} \cup {<<a, "owner">> : a \in own}
      BY <1>5 DEF ApprovedBy
    <2>4. CoversAll(p.ops, ApprovedBy(p.required))
      <3>1. ASSUME NEW i \in DOMAIN c.ops
            PROVE  Covered(c.ops[i], ApprovedBy(p.required))
        BY <1>4, <2>3 DEF Covered
      <3>2. QED
        BY <1>5, <3>1 DEF CoversAll
    <2>5. QED
      BY <2>1, <2>2, <2>4 DEF Entitled
  <1>7. e.auths = d.auths /\ e.ran = d.ran /\ e.proposals = d.proposals \cup {p}
    BY <1>1 DEF IsDb
  <1>8. QED
    BY <1>6, <1>7 DEF AuthDb, e

\* Updating the approvals of a proposal.
LEMMA UpdatedAuth ==
  ASSUME NEW d, DbInv(d, now), AuthDb(d), NEW op, WellFormed(op), op.kind = "proposal_update", Exists(d, op.proposal)
  PROVE  AuthDb(Updated(d, op))
  <1> DEFINE p == Find(d, op.proposal)
             a == [c \in {"active", "owner", "keys"} |-> (p.available[c] \cup op.add[c]) \ op.remove[c]]
             q == [p EXCEPT !.available = a]
             P == {x \in d.proposals : x.id # q.id} \cup {q}
             e == Updated(d, op)
  <1>1. p \in d.proposals
    BY FindProposal
  <1>2. e = [d EXCEPT !.proposals = P]
    BY DEF Updated, Replaced
  <1>3. /\ a.active = (p.available.active \cup op.add.active) \ op.remove.active
        /\ a.owner = (p.available.owner \cup op.add.owner) \ op.remove.owner
    OBVIOUS
  <1> HIDE DEF p, a, q, P, e
  <1>4. Needs(p.available) /\ Entitled(p)
    BY <1>1 DEF AuthDb, Entitled
  <1>5. Some(op.add.active) /\ Some(op.add.owner)
    BY DEF WellFormed
  <1>6. Some(p.available.active \cup op.add.active) /\ Some(p.available.owner \cup op.add.owner)
    BY <1>4, <1>5, SomeSets DEF Needs
  <1>7. Needs(a)
    <2> DEFINE S == p.available.active \cup op.add.active
               T == p.available.owner \cup op.add.owner
    <2>1. Some(S \ op.remove.active) /\ Some(T \ op.remove.owner)
      <3> HIDE DEF S, T
      <3>1. Some(S) /\ Some(T)
        BY <1>6 DEF S, T
      <3>2. QED
        BY <3>1, SomeSets
    <2>2. a.active = S \ op.remove.active /\ a.owner = T \ op.remove.owner
      BY <1>3
    <2> HIDE DEF S, T
    <2>3. Some(a.active) /\ Some(a.owner)
      BY <2>1, <2>2, Zenon
    <2>4. QED
      BY <2>3 DEF Needs
  <1>8. q.ops = p.ops /\ q.required = p.required /\ q.available = a
    BY <1>1 DEF DbInv, ProposalInv, IsProposal, q
  <1>9. Entitled(q)
    BY <1>4, <1>7, <1>8 DEF Entitled
  <1>10. e.auths = d.auths /\ e.ran = d.ran /\ e.proposals = P
    BY <1>2 DEF DbInv, IsDb
  <1>11. QED
    BY <1>9, <1>10 DEF AuthDb, e, P

\* An operation that is applied.
LEMMA AppliedAuth ==
  ASSUME NEW d, DbInv(d, now), AuthDb(d), NEW op, WellFormed(op), NEW keys, Evaluates(d, op, keys)
  PROVE  AuthDb(Applied(d, op))
  <1>0. IsDb(d)
    BY DEF DbInv
  <1>1. CASE op.kind = "transfer"
    <2> DEFINE e == [d EXCEPT !.balance = Transferred(@, op)]
    <2>1. Applied(d, op) = e
      BY <1>1 DEF Applied
    <2>2. e.auths = d.auths /\ e.proposals = d.proposals /\ e.ran = d.ran
      BY <1>0 DEF IsDb
    <2> HIDE DEF e
    <2>3. QED
      BY <2>1, <2>2 DEF AuthDb
  <1>2. CASE op.kind = "account_update"
    <2> DEFINE auths == [d.auths EXCEPT ![op.account].active = op.active]
               e == [d EXCEPT !.auths = auths]
    <2>1. Applied(d, op) = e
      BY <1>2 DEF Applied
    <2>2. op.account \in Accounts /\ op.active \in Authority
      BY <1>2 DEF WellFormed
    <2>3. AuthsType(auths)
      <3>1. AuthsType(d.auths)
        BY DEF AuthDb
      <3>2. QED
        BY <2>2, <3>1 DEF AuthsType, Classes
    <2> HIDE DEF auths
    <2>4. e.auths = auths /\ e.proposals = d.proposals /\ e.ran = d.ran
      BY <1>0 DEF IsDb
    <2> HIDE DEF e
    <2>5. QED
      BY <2>1, <2>3, <2>4, SameAuthorities
  <1>3. CASE op.kind = "proposal_create"
    <2>1. Applied(d, op) = Created(d, op.content) /\ op.content \in Proposable
      BY <1>3 DEF Applied, WellFormed
    <2>2. QED
      BY <1>0, <2>1, CreatedAuth
  <1>4. CASE op.kind = "proposal_update"
    <2>1. Applied(d, op) = Updated(d, op) /\ Exists(d, op.proposal)
      BY <1>4 DEF Applied, Evaluates, CanUpdate
    <2>2. QED
      BY <1>4, <2>1, UpdatedAuth
  <1>5. CASE op.kind = "proposal_delete"
    <2>1. Applied(d, op) = Removed(d, op.proposal)
      BY <1>5 DEF Applied
    <2>2. QED
      BY <1>0, <2>1, RemovedAuth
  <1>6. QED
    BY <1>1, <1>2, <1>3, <1>4, <1>5 DEF WellFormed

----------------------------------------------------------------------------
(* The authority of the genesis account.                                   *)

\* The sum of the weights of the votes, at least one for each.
VoteWeight(m) == Max({m.weight, 1})
VotesStep(tally, g, T) == IF T = {} THEN 0 ELSE g[T \ {Max(T)}] + VoteWeight(tally[Max(T)])
VotesSeen(tally, g) == g = [T \in SUBSET DOMAIN tally |-> VotesStep(tally, g, T)]
Votes(tally) == (CHOOSE g : VotesSeen(tally, g))[DOMAIN tally]

\* update_active_delegates: half of the votes and one.
LEMMA VotesUnfold ==
  ASSUME NEW tally
  PROVE  GenesisAuthority(tally) =
           [c \in Classes |-> [threshold |-> Votes(tally) \div 2 + 1,
                               auths |-> [i \in DOMAIN tally |-> [who |-> tally[i].who, weight |-> VoteWeight(tally[i])]]]]
  BY DEF GenesisAuthority, FoldLeft, MapThenFoldSet, Votes, VotesSeen, VotesStep, VoteWeight

\* Weights and their sum are natural numbers.
LEMMA VotesType ==
  ASSUME NEW tally \in Seq(Members)
  PROVE  Votes(tally) \in Nat /\ \A i \in DOMAIN tally : VoteWeight(tally[i]) \in Nat
  <1> DEFINE S == DOMAIN tally
             st == [x \in S |-> [n \in Nat |-> n + VoteWeight(tally[x])]]
  <1>1. IsFiniteSet(S) /\ S \subseteq Nat
    <2>1. Len(tally) \in Nat /\ S = 1 .. Len(tally)
      OBVIOUS
    <2>2. IsFiniteSet(1 .. Len(tally)) /\ 1 .. Len(tally) \subseteq Nat
      BY <2>1, FS_Interval
    <2>3. QED
      BY <2>1, <2>2
  <1>2. ASSUME NEW i \in S
        PROVE  VoteWeight(tally[i]) \in Nat
    <2>1. tally[i] \in Members
      OBVIOUS
    <2> DEFINE w == tally[i].weight
    <2>2. w \in Nat
      BY <2>1 DEF Members
    <2> HIDE DEF w
    <2>3. {w, 1} \subseteq 0 .. w + 1 /\ w + 1 \in Nat /\ {w, 1} # {}
      BY <2>2
    <2>4. Max({w, 1}) \in {w, 1}
      <3> DEFINE T == {w, 1}
                 n == w + 1
      <3> HIDE DEF T, n
      <3> QED
        BY <2>3, MaxIn DEF T, n
    <2>5. QED
      BY <2>2, <2>4 DEF VoteWeight, w
  <1>3. st \in [S -> [Nat -> Nat]] /\ \A x \in S : \A n \in Nat : st[x][n] = n + VoteWeight(tally[x])
    BY <1>2
  <1> HIDE DEF st, S
  <1>4. 0 \in Nat
    OBVIOUS
  <1>5. PICK g : Folded(st, 0, S, g) /\ g = [T \in SUBSET S |-> g[T]] /\ \A T \in SUBSET S : g[T] \in Nat
    BY <1>1, <1>3, <1>4, FoldsExist
  <1>6. ASSUME NEW T \in SUBSET S
        PROVE  g[T] = VotesStep(tally, g, T)
    <2>1. g[T] = FoldStep(st, 0, g, T)
      BY <1>5 DEF Folded
    <2>2. CASE T = {}
      BY <2>1, <2>2 DEF FoldStep, VotesStep
    <2>3. CASE T # {}
      <3> DEFINE x == Max(T)
      <3>1. x \in S
        BY <1>1, <2>3, MaxOfFinite
      <3>2. g[T] = st[x][g[T \ {x}]]
        BY <2>1, <2>3 DEF FoldStep
      <3> HIDE DEF x
      <3>3. g[T \ {x}] \in Nat
        BY <1>5
      <3>4. g[T] = g[T \ {x}] + VoteWeight(tally[x])
        BY <1>3, <3>1, <3>2, <3>3
      <3>5. QED
        BY <2>3, <3>4 DEF VotesStep, x
    <2>4. QED
      BY <2>2, <2>3
  <1>7. VotesSeen(tally, g)
    BY <1>5, <1>6 DEF VotesSeen, S
  <1> DEFINE h == CHOOSE h : VotesSeen(tally, h)
             G == {T \in SUBSET S : h[T] \in Nat}
  <1>8. VotesSeen(tally, h)
    BY <1>7
  <1>9. Votes(tally) = h[S]
    BY DEF Votes, S
  <1> HIDE DEF h
  <1>10. ASSUME NEW T \in SUBSET S, \A x \in T : T \ {x} \in G
         PROVE  T \in G
    <2>1. h[T] = VotesStep(tally, h, T)
      BY <1>8 DEF VotesSeen, S
    <2>2. CASE T = {}
      BY <2>1, <2>2 DEF VotesStep
    <2>3. CASE T # {}
      <3>1. Max(T) \in T
        BY <1>1, <2>3, MaxOfFinite
      <3>2. h[T \ {Max(T)}] \in Nat /\ VoteWeight(tally[Max(T)]) \in Nat
        BY <1>2, <1>10, <3>1
      <3>3. QED
        BY <2>1, <2>3, <3>2 DEF VotesStep
    <2>4. QED
      BY <2>2, <2>3
  <1>11. \A T \in SUBSET S : T \in G
    <2> HIDE DEF G
    <2> QED
      BY <1>1, <1>10, SubsetInduction
  <1>12. QED
    BY <1>2, <1>9, <1>11 DEF S

\* What the votes give to the genesis account is an authority.
LEMMA GenesisType ==
  ASSUME NEW tally \in Tallies
  PROVE  GenesisAuthority(tally) \in [Classes -> Authority]
  <1> DEFINE v == Votes(tally)
             m == [i \in DOMAIN tally |-> [who |-> tally[i].who, weight |-> VoteWeight(tally[i])]]
  <1>1. tally \in Seq(Members)
    BY AuthoritiesAssumption
  <1>2. v \in Nat /\ \A i \in DOMAIN tally : VoteWeight(tally[i]) \in Nat
    BY <1>1, VotesType
  <1>3. Len(tally) \in Nat /\ DOMAIN tally = 1 .. Len(tally) /\ \A i \in DOMAIN tally : tally[i] \in Members
    BY <1>1
  <1>4. \A i \in DOMAIN tally : [who |-> tally[i].who, weight |-> VoteWeight(tally[i])] \in Members
    BY <1>2, <1>3 DEF Members
  <1>5. m \in [1 .. Len(tally) -> Members]
    BY <1>3, <1>4
  <1>6. m \in Seq(Members)
    <2> HIDE DEF m
    <2> DEFINE n == Len(tally)
    <2>1. n \in Nat
      BY <1>3
    <2> HIDE DEF n
    <2>2. m \in [1 .. n -> Members]
      BY <1>5 DEF n
    <2>3. QED
      BY <2>1, <2>2
  <1> HIDE DEF m, v
  <1>7. v \div 2 + 1 \in Nat
    BY <1>2
  <1>8. [threshold |-> v \div 2 + 1, auths |-> m] \in Authority
    BY <1>6, <1>7 DEF Authority
  <1>9. QED
    BY <1>8, VotesUnfold DEF m, v

----------------------------------------------------------------------------
(* The steps.                                                              *)

\* Before the first transaction.
LEMMA InitAuth == Init => AuthInv
  <1> SUFFICES ASSUME Init
               PROVE  AuthInv
    OBVIOUS
  <1>1. PICK a \in InitialAuths :
          db = [auths |-> a, balance |-> Balances, proposals |-> {}, next_id |-> 1,
                transactions |-> {}, accepted |-> {}, ran |-> <<>>]
    BY DEF Init
  <1>2. db.auths = a /\ db.proposals = {} /\ db.ran = <<>> /\ AuthsType(a)
    BY <1>1, AuthoritiesAssumption DEF AuthsType
  <1>3. DOMAIN <<>> = {}
    OBVIOUS
  <1>4. AuthDb(db)
    BY <1>2, <1>3 DEF AuthDb
  <1>5. QED
    BY <1>3, <1>4 DEF AuthInv, Init

\* A transaction or a block starts.
LEMMA FirstAuth ==
  ASSUME NEW f, f.kind # "proposal", AuthDb(f.saved)
  PROVE  \A k \in DOMAIN <<f>> : AuthFrame(<<f>>[k])
  <1>1. \A k \in DOMAIN <<f>> : <<f>>[k] = f
    OBVIOUS
  <1>2. QED
    BY <1>1 DEF AuthFrame

\* push_transaction
LEMMA PushTransactionAuth ==
  ASSUME ProposalsInv, AuthInv, NEW op, NEW keys, NEW x, push_transaction(op, keys, x)
  PROVE  AuthInv'
  <1> DEFINE trx == [op |-> op, expiration |-> x]
             f == Frame("transaction", 0, <<op>>, db, keys, {})
  <1>1. /\ db' = [db EXCEPT !.transactions = @ \cup {trx}, !.accepted = @ \cup {trx}]
        /\ stack' = <<f>> /\ refused' = refused
    BY DEF push_transaction
  <1>2. IsDb(db) /\ AuthDb(db) /\ refused = FALSE
    BY DEF ProposalsInv, DbInv, AuthInv
  <1>3. db'.auths = db.auths /\ db'.proposals = db.proposals /\ db'.ran = db.ran
    BY <1>1, <1>2 DEF IsDb
  <1>4. AuthDb(db')
    BY <1>2, <1>3 DEF AuthDb
  <1>5. f.kind = "transaction" /\ f.saved = db
    BY DEF Frame
  <1> HIDE DEF f
  <1>6. \A k \in DOMAIN stack' : AuthFrame(stack'[k])
    BY <1>1, <1>2, <1>5, FirstAuth
  <1>7. QED
    BY <1>1, <1>2, <1>4, <1>6 DEF AuthInv

\* apply_block: the genesis account may get another authority.
LEMMA ApplyBlockAuth ==
  ASSUME ProposalsInv, AuthInv, apply_block
  PROVE  AuthInv'
  <1> DEFINE f == Frame("block", 0, <<>>, db, {}, {})
  <1>1. PICK auths \in {db.auths} \cup {[db.auths EXCEPT ![Genesis] = GenesisAuthority(t)] : t \in Tallies} :
          db' = clear_expired_transactions([db EXCEPT !.auths = auths], now')
    BY DEF apply_block
  <1>2. stack' = <<f>> /\ refused' = refused
    BY DEF apply_block
  <1>3. IsDb(db) /\ AuthDb(db) /\ AuthsType(db.auths) /\ refused = FALSE
    BY DEF ProposalsInv, DbInv, AuthInv, AuthDb
  <1>4. AuthsType(auths)
    <2>1. CASE auths = db.auths
      BY <1>3, <2>1
    <2>2. CASE auths # db.auths
      <3>1. PICK t \in Tallies : auths = [db.auths EXCEPT ![Genesis] = GenesisAuthority(t)]
        BY <1>1, <2>2
      <3>2. GenesisAuthority(t) \in [Classes -> Authority]
        BY GenesisType
      <3>3. QED
        BY <1>3, <3>1, <3>2 DEF AuthsType
    <2>3. QED
      BY <2>1, <2>2
  <1> DEFINE e == [db EXCEPT !.auths = auths]
  <1>5. IsDb(e) /\ e.auths = auths /\ e.proposals = db.proposals /\ e.ran = db.ran
    BY <1>3 DEF IsDb
  <1>6. db' = e \/ db' = [e EXCEPT !.transactions = {}]
    BY <1>1 DEF clear_expired_transactions
  <1> HIDE DEF e
  <1>7. db'.auths = auths /\ db'.proposals = db.proposals /\ db'.ran = db.ran
    BY <1>5, <1>6 DEF IsDb
  <1>8. AuthDb(db')
    BY <1>3, <1>4, <1>7 DEF AuthDb
  <1>9. f.kind = "block" /\ f.saved = db
    BY DEF Frame
  <1> HIDE DEF f
  <1>10. \A k \in DOMAIN stack' : AuthFrame(stack'[k])
    BY <1>2, <1>3, <1>9, FirstAuth
  <1>11. QED
    BY <1>2, <1>3, <1>8, <1>10 DEF AuthInv

\* The next operation of a proposal passes the authority check.
LEMMA TopPasses ==
  ASSUME ProposalsInv, AuthInv, HasOperation, Top.kind = "proposal"
  PROVE  Authorities.ok = TRUE /\ Top.approved \subseteq Authorities.known /\ Authorities.known \in SUBSET Approvals
  <1> DEFINE r == check_required_authorities(db.auths, Top.keys, TRUE, Operation, Top.approved)
  <1>1. StackInv(db, stack, now) /\ ~ Idle
    BY DEF ProposalsInv, HasOperation
  <1>2. Len(stack) \in DOMAIN stack /\ Top = stack[Len(stack)] /\ FrameInv(db, Top, now)
    BY <1>1, TopFrame
  <1>3. IsSeq(Top.todo) /\ Top.todo # <<>>
    BY <1>2 DEF HasOperation, FrameInv
  <1>4. Operation = Top.todo[1] /\ 1 \in DOMAIN Top.todo
    BY <1>3, TailSeq DEF Operation
  <1>5. WellFormed(Operation)
    BY <1>2, <1>4 DEF FrameInv
  <1>6. AuthFrame(Top) /\ AuthsType(db.auths)
    BY <1>2 DEF AuthInv, AuthDb
  <1>7. Top.approved \in SUBSET Approvals /\ Covered(Operation, Top.approved)
    BY <1>4, <1>6 DEF AuthFrame, CoversAll
  <1>8. Needs(Required(Operation))
    BY <1>5, RequiredNeeds
  <1>9. r.ok = TRUE /\ Top.approved \subseteq r.known /\ r.known \in SUBSET Approvals
    BY <1>6, <1>7, <1>8, CoveredPasses
  <1>10. Authorities = r
    <2>1. (Top.kind = "proposal") = TRUE
      OBVIOUS
    <2>2. QED
      BY <2>1 DEF Authorities
  <1>11. QED
    BY <1>9, <1>10

\* A proposal starts only when it is approved.
LEMMA StartsAuth ==
  ASSUME NEW d, DbInv(d, now), AuthDb(d), NEW p \in d.proposals, is_authorized_to_execute(d, p)
  PROVE  AuthFrame(push_proposal(d, p))
  <1> DEFINE f == push_proposal(d, p)
  <1>1. f.kind = "proposal" /\ f.id = p.id /\ f.todo = p.ops /\ f.saved = d /\ f.approved = ApprovedBy(p.required)
    BY DEF push_proposal, Frame
  <1> HIDE DEF f
  <1>2. Entitled(p) /\ AuthsType(d.auths)
    BY DEF AuthDb
  <1>3. Approved(d.auths, p)
    BY <1>2, AuthorizedApproved DEF Entitled
  <1>4. Find(d, p.id) = p
    BY FindUnique
  <1>5. ApprovedBy(p.required) \in SUBSET Approvals
    BY <1>2 DEF Entitled, Needs, Some, ApprovedBy, Approvals, Classes
  <1>6. QED
    BY <1>1, <1>2, <1>3, <1>4, <1>5 DEF AuthFrame, Entitled, f

\* Frames come and go at the end of the stack.
LEMMA AppendedAuth ==
  ASSUME NEW s, IsSeq(s), NEW f, AuthFrame(f), \A k \in DOMAIN s : AuthFrame(s[k])
  PROVE  \A k \in DOMAIN Append(s, f) : AuthFrame(Append(s, f)[k])
  <1> DEFINE r == Append(s, f)
             n == Len(s)
  <1>1. /\ n \in Nat /\ DOMAIN s = 1 .. n /\ DOMAIN r = 1 .. n + 1
        /\ \A i \in 1 .. n : r[i] = s[i]
        /\ r[n + 1] = f
    BY AppendSeq
  <1> HIDE DEF r, n
  <1>2. \A i \in 1 .. n + 1 : i \in 1 .. n \/ i = n + 1
    BY <1>1
  <1>3. QED
    BY <1>1, <1>2 DEF r

\* The last frame goes.
LEMMA PoppedAuth ==
  ASSUME AuthInv, IsSeq(stack), stack # <<>>
  PROVE  \A k \in DOMAIN Front(stack) : AuthFrame(Front(stack)[k])
  <1> DEFINE r == Front(stack)
             n == Len(stack)
  <1>1. /\ n \in Nat \ {0} /\ DOMAIN stack = 1 .. n /\ DOMAIN r = 1 .. n - 1
        /\ \A i \in 1 .. n - 1 : r[i] = stack[i]
    BY FrontSeq
  <1> HIDE DEF r, n
  <1>2. \A i \in 1 .. n - 1 : i \in 1 .. n
    BY <1>1
  <1>3. QED
    BY <1>1, <1>2 DEF r, AuthInv

\* apply_operation: the approvals found are added to those of the frame, and a
\* proposal that is run at once is approved.
LEMMA ApplyOperationAuth ==
  ASSUME ProposalsInv, AuthInv, apply_operation
  PROVE  AuthInv'
  <1> DEFINE d == Applied(db, Operation)
             f == [Top EXCEPT !.todo = Tail(@), !.approved = Authorities.known]
             frames == Append(Below, f)
             runs == RunsAfter(d, Operation)
             new == {push_proposal(d, p) : p \in runs}
  <1>1. /\ HasOperation /\ ~ Idle /\ Evaluates(db, Operation, Top.keys)
        /\ db' = d /\ stack' = frames \o SetToSeq(new) /\ refused' = refused
    BY DEF apply_operation, HasOperation
  <1>2. now \in Nat /\ DbInv(db, now) /\ StackInv(db, stack, now) /\ AuthDb(db) /\ refused = FALSE
    BY DEF ProposalsInv, AuthInv
  <1>3. WellFormed(Operation) /\ DbInv(d, now)
    BY <1>1, RunningStay
  <1>4. AuthDb(d)
    BY <1>1, <1>2, <1>3, AppliedAuth
  <1>5. /\ stack # <<>> /\ IsSeq(stack) /\ Len(stack) \in DOMAIN stack /\ Top = stack[Len(stack)]
        /\ FrameInv(db, Top, now) /\ AuthFrame(Top)
    BY <1>1, <1>2, TopFrame DEF AuthInv
  <1>6. f.kind = Top.kind /\ f.id = Top.id /\ f.saved = Top.saved /\ f.todo = Tail(Top.todo)
        /\ f.approved = Authorities.known
    <2>1. IsFrame(Top)
      BY <1>5 DEF FrameInv
    <2> DEFINE todo == Tail(Top.todo)
               approved == Authorities.known
    <2>2. f = Advanced(Top, todo, approved)
      BY DEF Advanced
    <2> HIDE DEF f, todo, approved
    <2>3. f.kind = Top.kind /\ f.id = Top.id /\ f.saved = Top.saved /\ f.todo = todo
      BY <2>1, <2>2, AdvancedFrame
    <2>4. f.approved = approved
      <3> DEFINE h == [Top EXCEPT !.todo = todo]
      <3>1. h = [kind |-> Top.kind, id |-> Top.id, todo |-> todo, saved |-> Top.saved,
                 keys |-> Top.keys, approved |-> Top.approved]
        BY <2>1 DEF IsFrame
      <3>2. f = [h EXCEPT !.approved = approved]
        BY <2>2 DEF Advanced
      <3> HIDE DEF h
      <3>3. QED
        BY <3>1, <3>2
    <2>5. QED
      BY <2>3, <2>4 DEF todo, approved
  <1> HIDE DEF d, f
  <1>7. AuthFrame(f)
    <2>1. ASSUME Top.kind = "proposal"
          PROVE  f.approved \in SUBSET Approvals /\ CoversAll(f.todo, f.approved)
      <3>1. Top.approved \subseteq f.approved /\ f.approved \in SUBSET Approvals
        BY <1>1, <1>6, <2>1, TopPasses
      <3>2. CoversAll(Top.todo, Top.approved)
        BY <1>5, <2>1 DEF AuthFrame
      <3>3. IsSeq(Top.todo) /\ Top.todo # <<>>
        BY <1>1, <1>5 DEF HasOperation, FrameInv
      <3>4. /\ DOMAIN Top.todo = 1 .. Len(Top.todo) /\ Len(Top.todo) \in Nat
            /\ DOMAIN f.todo = 1 .. Len(Top.todo) - 1
            /\ \A i \in 1 .. Len(Top.todo) - 1 : f.todo[i] = Top.todo[i + 1]
        BY <1>6, <3>3, TailSeq
      <3>5. \A i \in DOMAIN f.todo : i + 1 \in DOMAIN Top.todo /\ f.todo[i] = Top.todo[i + 1]
        BY <3>4
      <3>6. \A op : Covered(op, Top.approved) => Covered(op, f.approved)
        BY <3>1 DEF Covered
      <3>7. QED
        BY <3>1, <3>2, <3>5, <3>6 DEF CoversAll
    <2>2. QED
      BY <1>5, <1>6, <2>1 DEF AuthFrame
  <1>8. IsSeq(frames) /\ \A k \in DOMAIN frames : AuthFrame(frames[k])
    <2> DEFINE b == Below
               n == Len(stack)
    <2>1. IsSeq(b) /\ n \in Nat \ {0} /\ Len(b) = n - 1 /\ \A i \in 1 .. n - 1 : b[i] = stack[i]
          /\ DOMAIN stack = 1 .. n
      BY <1>5, FrontSeq DEF Below
    <2> HIDE DEF b, n
    <2>2. /\ IsSeq(Append(b, f)) /\ DOMAIN Append(b, f) = 1 .. (n - 1) + 1
          /\ \A i \in 1 .. n - 1 : Append(b, f)[i] = b[i]
          /\ Append(b, f)[(n - 1) + 1] = f
      BY <2>1, AppendSeq
    <2>3. \A k \in 1 .. (n - 1) + 1 : k \in 1 .. n - 1 \/ k = (n - 1) + 1
      BY <2>1
    <2>4. \A i \in 1 .. n - 1 : AuthFrame(stack[i])
      BY <2>1 DEF AuthInv
    <2>5. QED
      BY <1>7, <2>1, <2>2, <2>3, <2>4 DEF b
  <1> HIDE DEF frames
  <1>9. \A k \in DOMAIN stack' : AuthFrame(stack'[k])
    <2>1. CASE runs = {}
      <3>1. SetToSeq(new) = <<>>
        BY <2>1, SetToSeqSmall
      <3>2. stack' = frames
        BY <1>1, <1>8, <3>1, ConcatEmptySeq DEF IsSeq
      <3>3. QED
        BY <1>8, <3>2
    <2>2. CASE runs # {}
      <3>1. PICK p : p \in runs
        BY <2>2
      <3>2. p \in d.proposals /\ p.id = Operation.proposal /\ is_authorized_to_execute(d, p)
        BY <3>1 DEF RunsAfter
      <3>3. \A q \in runs : q = p
        BY <1>3, <3>1, <3>2 DEF RunsAfter, DbInv
      <3> DEFINE g == push_proposal(d, p)
      <3>4. new = {g}
        BY <3>1, <3>3
      <3>5. AuthFrame(g)
        BY <1>3, <1>4, <3>2, StartsAuth
      <3> HIDE DEF g
      <3>6. stack' = Append(frames, g)
        <4>1. stack' = frames \o <<g>>
          BY <1>1, <3>4, SetToSeqSmall
        <4>2. frames \in Seq(ToSet(frames) \cup {g}) /\ g \in ToSet(frames) \cup {g}
          BY <1>8 DEF IsSeq
        <4>3. QED
          BY <4>1, <4>2, AppendIsConcat
      <3>7. QED
        BY <1>8, <3>5, <3>6, AppendedAuth
    <2>3. QED
      BY <2>1, <2>2
  <1>10. QED
    BY <1>1, <1>2, <1>4, <1>9 DEF AuthInv

\* operation_throws: a proposal is never refused an authority.
LEMMA OperationThrowsAuth ==
  ASSUME ProposalsInv, AuthInv, operation_throws
  PROVE  AuthInv'
  <1>1. /\ HasOperation /\ ~ Idle /\ stack' = Front(stack)
        /\ db' = Removed(Top.saved, Top.id) \/ db' = Top.saved
        /\ refused' = (refused \/ (Top.kind = "proposal" /\ ~ Authorities.ok))
    BY DEF operation_throws, HasOperation, Below
  <1>2. StackInv(db, stack, now) /\ refused = FALSE
    BY DEF ProposalsInv, AuthInv
  <1>3. /\ stack # <<>> /\ IsSeq(stack) /\ Len(stack) \in DOMAIN stack /\ Top = stack[Len(stack)]
        /\ FrameInv(db, Top, now)
    BY <1>1, <1>2, TopFrame
  <1>4. AuthDb(Top.saved) /\ IsDb(Top.saved)
    BY <1>3 DEF AuthInv, AuthFrame, FrameInv, DbInv
  <1>5. AuthDb(db')
    BY <1>1, <1>4, RemovedAuth
  <1>6. Top.kind = "proposal" => Authorities.ok = TRUE
    BY <1>1, TopPasses
  <1>7. refused' = FALSE
    BY <1>1, <1>2, <1>6
  <1>8. \A k \in DOMAIN stack' : AuthFrame(stack'[k])
    BY <1>1, <1>3, PoppedAuth
  <1>9. QED
    BY <1>5, <1>7, <1>8 DEF AuthInv

\* session_merged: what ran was approved when it started.
LEMMA SessionMergedAuth ==
  ASSUME ProposalsInv, AuthInv, session_merged
  PROVE  AuthInv'
  <1> DEFINE p == Find(Top.saved, Top.id)
             run == [proposal |-> p, auths |-> Top.saved.auths, at |-> now]
             e == Removed(db, Top.id)
  <1>1. /\ ~ Idle /\ Top.kind # "block" /\ stack' = Front(stack) /\ refused' = refused
        /\ db' = IF Top.kind = "transaction" THEN db ELSE [e EXCEPT !.ran = Append(@, run)]
    BY DEF session_merged, Below
  <1>2. StackInv(db, stack, now) /\ refused = FALSE /\ AuthDb(db) /\ DbInv(db, now)
    BY DEF ProposalsInv, AuthInv
  <1>3. /\ stack # <<>> /\ IsSeq(stack) /\ Len(stack) \in DOMAIN stack /\ Top = stack[Len(stack)]
        /\ FrameInv(db, Top, now) /\ AuthFrame(Top)
    BY <1>1, <1>2, TopFrame DEF AuthInv
  <1>4. \A k \in DOMAIN stack' : AuthFrame(stack'[k])
    BY <1>1, <1>3, PoppedAuth
  <1>5. CASE Top.kind = "transaction"
    BY <1>1, <1>2, <1>4, <1>5 DEF AuthInv
  <1>6. CASE Top.kind = "proposal"
    <2>1. Approved(Top.saved.auths, p)
      BY <1>3, <1>6 DEF AuthFrame
    <2>2. run.proposal = p /\ run.auths = Top.saved.auths
      OBVIOUS
    <2>3. db' = [e EXCEPT !.ran = Append(@, run)]
      BY <1>1, <1>6
    <2>4. DbInv(e, now) /\ AuthDb(e) /\ e.ran = db.ran
      BY <1>2, RemovedInv, RemovedAuth DEF DbInv
    <2> HIDE DEF p, run, e
    <2>5. db'.auths = e.auths /\ db'.proposals = e.proposals /\ db'.ran = Append(e.ran, run)
      BY <2>3, <2>4 DEF DbInv, IsDb
    <2>6. IsSeq(e.ran) /\ \A i \in DOMAIN e.ran : Approved(e.ran[i].auths, e.ran[i].proposal)
      BY <2>4 DEF DbInv, AuthDb
    <2> DEFINE m == Len(e.ran)
    <2>7. /\ m \in Nat /\ DOMAIN e.ran = 1 .. m /\ DOMAIN db'.ran = 1 .. m + 1
          /\ db'.ran[m + 1] = run /\ \A i \in 1 .. m : db'.ran[i] = e.ran[i]
      BY <2>5, <2>6, AppendSeq
    <2> HIDE DEF m
    <2>8. \A i \in 1 .. m + 1 : i \in 1 .. m \/ i = m + 1
      BY <2>7
    <2>9. \A i \in DOMAIN db'.ran : Approved(db'.ran[i].auths, db'.ran[i].proposal)
      BY <2>1, <2>2, <2>6, <2>7, <2>8
    <2>10. AuthDb(db')
      BY <2>4, <2>5, <2>9 DEF AuthDb
    <2>11. QED
      BY <1>1, <1>2, <1>4, <2>10 DEF AuthInv
  <1>7. QED
    BY <1>1, <1>3, <1>5, <1>6 DEF FrameInv

\* clear_expired_proposals runs an expired proposal only if it is approved.
LEMMA ClearExpiredAuth ==
  ASSUME ProposalsInv, AuthInv, clear_expired_proposals
  PROVE  AuthInv'
  <1> DEFINE expired == {p \in db.proposals : p.expiration <= now}
             p == FirstExpiring(expired)
  <1>1. /\ ~ Idle /\ refused' = refused
        /\ \/ expired = {} /\ stack' = <<>> /\ db' = db
           \/ /\ expired # {} /\ is_authorized_to_execute(db, p)
              /\ stack' = Append(stack, push_proposal(db, p)) /\ db' = db
           \/ expired # {} /\ db' = Removed(db, p.id) /\ stack' = stack
    BY DEF clear_expired_proposals, FirstExpiring
  <1>2. StackInv(db, stack, now) /\ refused = FALSE /\ AuthDb(db) /\ DbInv(db, now) /\ IsDb(db)
    BY DEF ProposalsInv, AuthInv, DbInv
  <1>3. \A k \in DOMAIN stack : AuthFrame(stack[k])
    BY DEF AuthInv
  <1>4. CASE expired = {} /\ stack' = <<>> /\ db' = db
    <2>1. DOMAIN <<>> = {}
      OBVIOUS
    <2>2. QED
      BY <1>1, <1>2, <1>4, <2>1 DEF AuthInv
  <1>5. CASE /\ expired # {} /\ is_authorized_to_execute(db, p)
             /\ stack' = Append(stack, push_proposal(db, p)) /\ db' = db
    <2>1. p \in db.proposals
      <3>1. \A q \in expired : q.expiration = now /\ q.id \in Nat
        <4>1. \A q \in expired : ProposalInv(db, q, now) /\ q.expiration <= now
          BY <1>2 DEF DbInv
        <4>2. now \in Nat
          BY DEF ProposalsInv
        <4>3. QED
          BY <4>1, <4>2 DEF ProposalInv
      <3>2. \A q, r \in expired : q.id = r.id => q = r
        BY <1>2 DEF DbInv
      <3>3. expired # {} /\ expired \subseteq db.proposals
        BY <1>5
      <3> HIDE DEF expired
      <3>4. QED
        BY <3>1, <3>2, <3>3, FirstExpired
    <2> HIDE DEF p
    <2>2. AuthFrame(push_proposal(db, p))
      BY <1>2, <1>5, <2>1, StartsAuth
    <2>3. \A k \in DOMAIN stack' : AuthFrame(stack'[k])
      BY <1>2, <1>3, <1>5, <2>2, AppendedAuth DEF StackInv
    <2>4. QED
      BY <1>1, <1>2, <1>5, <2>3 DEF AuthInv
  <1>6. CASE expired # {} /\ db' = Removed(db, p.id) /\ stack' = stack
    <2>1. AuthDb(db')
      BY <1>2, <1>6, RemovedAuth
    <2>2. QED
      BY <1>1, <1>2, <1>3, <1>6, <2>1 DEF AuthInv
  <1>7. QED
    BY <1>1, <1>4, <1>5, <1>6

----------------------------------------------------------------------------
(* Theorems.                                                               *)

\* Every step keeps the invariant.
LEMMA AuthStep ==
  ASSUME ProposalsInv, AuthInv, [Next]_vars
  PROVE  AuthInv'
  <1>1. ASSUME NEW op, NEW keys, NEW t, push_transaction(op, keys, t)
        PROVE  AuthInv'
    BY <1>1, PushTransactionAuth
  <1>2. CASE apply_block
    BY <1>2, ApplyBlockAuth
  <1>3. CASE apply_operation
    BY <1>3, ApplyOperationAuth
  <1>4. CASE operation_throws
    BY <1>4, OperationThrowsAuth
  <1>5. CASE session_merged
    BY <1>5, SessionMergedAuth
  <1>6. CASE clear_expired_proposals
    BY <1>6, ClearExpiredAuth
  <1>7. CASE UNCHANGED vars
    BY <1>7 DEF vars, AuthInv
  <1>8. QED
    BY <1>1, <1>2, <1>3, <1>4, <1>5, <1>6, <1>7 DEF Next, Step

\* The inductive invariant holds of every behaviour.
THEOREM AuthorityInvariant == Spec => []AuthInv
  <1>1. ProposalsInv /\ AuthInv /\ [Next]_vars => AuthInv'
    BY AuthStep
  <1>2. QED
    BY <1>1, InitAuth, ProposalsInvariant, PTL DEF Spec

\* For every tree of authorities, depth limit and sequence of approvals and
\* withdrawals: whatever ran had, when it started, approvals that grant every
\* authority it requires.  check_authority's cache of approvals, its order and its
\* depth limit grant nothing that the authorities as they are meant do not.
THEOREM OnlyApprovedRuns == Spec => []OnlyApproved
  <1>1. AuthInv => OnlyApproved
    BY DEF AuthInv, AuthDb, Approved, OnlyApproved
  <1>2. QED
    BY <1>1, AuthorityInvariant, PTL

\* For every set of operations: a proposal that is authorised never fails an
\* authority check, whatever it and the proposals it runs change on the way.
THEOREM ApprovalsAlwaysSuffice == Spec => []ApprovalsSuffice
  <1>1. AuthInv => ApprovalsSuffice
    BY DEF AuthInv, ApprovalsSuffice
  <1>2. QED
    BY <1>1, AuthorityInvariant, PTL

=============================================================================
