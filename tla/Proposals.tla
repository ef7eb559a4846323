----------------------------- MODULE Proposals -----------------------------
(***************************************************************************)
(* Transactions and proposed transactions of the chain database: who has   *)
(* to authorise an operation, how the approvals of a proposal are given    *)
(* and withdrawn, when its operations run, and how proposals and the       *)
(* records of transactions expire.                                         *)
(*                                                                         *)
(* A proposal runs inside the operation that approved it, or inside the    *)
(* block it expires in; its operations may approve other proposals, which  *)
(* then run inside it.  stack holds a frame for the transaction or block   *)
(* and one for each proposal being run in it; a frame is an undo session,  *)
(* and saved is the database an exception goes back to.                    *)
(***************************************************************************)
EXTENDS Integers, FiniteSetsExt, SequencesExt

CONSTANTS
    Accounts,          \* natural numbers, 0 is the genesis account
    Keys,              \* numbers too
    InitialAuths,      \* account -> [owner, active], the choices at the start
    Tallies,           \* votes of the delegates: [who, weight] sequences
    Balances,          \* account -> amount
    Proposable,        \* [ops, lifetime, review] of a proposal that may be made
    Operations,        \* other operations that a user may send
    SignatureSets,     \* sets of keys a transaction may be signed with
    Expirations,       \* times at which transactions expire
    MaxTrxLifetime,    \* maximum_time_until_expiration
    MaxLifetime,       \* maximum_proposal_lifetime
    GenesisReview,     \* genesis_proposal_review_period
    ForkingWindow,     \* maximum_undo_history * block_interval
    MaxDepth,          \* BTS_MAX_SIG_CHECK_DEPTH
    MaxProposals,      \* bound: proposals created
    MaxTransactions,   \* bound: transactions accepted
    MaxTime            \* bound: seconds

Genesis == 0
NoReview == 0
Classes == {"owner", "active"}

ASSUME ProposalsAssumption ==
    /\ Accounts \subseteq Nat /\ Genesis \in Accounts /\ Keys \cap Accounts = {}
    /\ {MaxDepth, MaxLifetime, GenesisReview, ForkingWindow, MaxTrxLifetime} \subseteq Nat
    /\ {MaxProposals, MaxTransactions, MaxTime} \subseteq Nat
    /\ \A c \in Proposable : c.ops # <<>> /\ c.lifetime \in Nat /\ c.review \in Nat
    /\ Expirations \subseteq Nat

\* authority: its members are accounts and keys that exist.
Members == [who : Accounts \cup Keys, weight : Nat]
Authority == [threshold : Nat, auths : Seq(Members)]

ASSUME AuthoritiesAssumption ==
    /\ InitialAuths \subseteq [Accounts -> [Classes -> Authority]]
    /\ Tallies \subseteq Seq(Members)

\* The operations of this module.  A proposal may propose another one.
Some(S) == S \subseteq Accounts /\ IsFiniteSet(S)
WellFormed(op) ==
    /\ op.kind \in {"transfer", "account_update", "proposal_create", "proposal_update",
                    "proposal_delete"}
    /\ op.kind = "transfer" => op.from \in Accounts
    /\ op.kind = "account_update" => op.account \in Accounts /\ op.active \in Authority
    /\ op.kind = "proposal_create" => op.payer \in Accounts /\ op.content \in Proposable
    /\ op.kind \in {"proposal_update", "proposal_delete"} => op.payer \in Accounts /\ op.proposal \in Nat
    /\ op.kind = "proposal_update" => Some(op.add.active) /\ Some(op.add.owner)
                                      /\ Some(op.remove.active) /\ Some(op.remove.owner)

ASSUME OperationsAssumption ==
    /\ \A op \in Operations : WellFormed(op)
    /\ \A c \in Proposable :
         /\ c.payer \in Accounts /\ c.ops \in Seq(ToSet(c.ops))
         /\ \A i \in DOMAIN c.ops : WellFormed(c.ops[i])

VARIABLES
    now,       \* head_block_time
    db,        \* accounts, proposals and transaction objects, and what has run
    stack,     \* the frames of the transaction or block in progress
    refused    \* a proposal that was authorised failed an authority check

vars == <<now, db, stack, refused>>

Idle == stack = <<>>
Pending == now + 1                       \* _pending_block.timestamp

----------------------------------------------------------------------------
(* Authorities.                                                            *)

\* get_required_auth of each operation
Required(op) ==
    CASE op.kind = "transfer" -> [active |-> {op.from}, owner |-> {}]
      [] op.kind = "account_update" -> [active |-> {}, owner |-> {op.account}]
      [] op.kind = "proposal_create" -> [active |-> {op.payer}, owner |-> {}]
      [] op.kind = "proposal_update" ->
           [active |-> {op.payer} \cup op.add.active \cup op.remove.active,
            owner |-> op.add.owner \cup op.remove.owner]
      [] op.kind = "proposal_delete" ->
           [active |-> IF op.owner THEN {} ELSE {op.payer},
            owner |-> IF op.owner THEN {op.payer} ELSE {}]

RequiredOf(ops, class) == UNION {Required(ops[i])[class] : i \in DOMAIN ops}

\* Mutant: one vote short is enough.
Sufficient_but_one(weight, authority) == weight + 1 >= authority.threshold

Sufficient(weight, authority) == weight >= authority.threshold

\* The accounts, with a class, that are known to approve.
Approvals == Accounts \X Classes

\* A member of the authority of account a adds its weight, or none.
Counted(authority, a, class, s, weight, known) ==
    LET w == s.weight + weight
        ok == Sufficient(w, authority)
    IN  [weight |-> w, ok |-> ok, done |-> ok, throws |-> FALSE,
         known |-> IF ok THEN known \cup {<<a, class>>} ELSE known]

\* The loop over the members.  A member below the depth limit ends the check,
\* whatever the other members say; deeper has the answers one level down.
CheckMember(authority, keys, a, class, depth, deeper, s, m) ==
    LET sub == deeper[m.who][s.known]
        counted(yes, known) == Counted(authority, a, class, s, IF yes THEN m.weight ELSE 0, known)
    IN  CASE s.done -> s
          [] ~ s.done /\ m.who \in Keys -> counted(m.who \in keys, s.known)
          [] ~ s.done /\ m.who \notin Keys /\ <<m.who, class>> \in s.known -> counted(TRUE, s.known)
          [] ~ s.done /\ m.who \notin Keys /\ <<m.who, class>> \notin s.known /\ depth = MaxDepth ->
               [s EXCEPT !.done = TRUE]
          [] OTHER -> IF sub.throws THEN [sub EXCEPT !.done = TRUE] ELSE counted(sub.ok, sub.known)

\* An exception is thrown on the genesis account unless the transaction is proposed.
CheckAccount(authority, keys, proposed, a, class, depth, deeper, known) ==
    LET start == [weight |-> 0, ok |-> FALSE, done |-> FALSE, throws |-> FALSE, known |-> known]
    IN  CASE <<a, class>> \in known -> [start EXCEPT !.ok = TRUE]
          [] <<a, class>> \notin known /\ a = Genesis /\ ~ proposed -> [start EXCEPT !.throws = TRUE]
          [] OTHER -> FoldLeft(LAMBDA s, m : CheckMember(authority, keys, a, class, depth, deeper, s, m),
                               start, authority.auths)

\* check_authority of one account, with the approvals known so far.
check_authority(auths, keys, proposed, class, account, approved) ==
    LET check[d \in 0 .. MaxDepth] ==
          [a \in Accounts |-> [known \in SUBSET Approvals |->
             CheckAccount(auths[a][class], keys, proposed, a, class, d,
                          IF d = MaxDepth THEN <<>> ELSE check[d + 1], known)]]
    IN  check[0][account][approved]

\* The loop over the accounts of a flat_set, from the least on.
ForEach(op(_, _), base, S) == MapThenFoldSet(LAMBDA a, s : op(s, a), base, LAMBDA a : a, Max, S)

\* The answer for one account, given those before it: one refusal is enough.
Verify(auths, keys, proposed, class, s, a) ==
    LET r == check_authority(auths, keys, proposed, class, a, s.known)
    IN  IF ~ s.ok THEN s ELSE [ok |-> r.ok, throws |-> r.throws, known |-> r.known]

\* The active authority may be given by the owner.
VerifyActive(auths, keys, proposed, s, a) ==
    LET r == Verify(auths, keys, proposed, "active", s, a)
    IN  IF ~ s.ok \/ r.ok \/ r.throws THEN r
        ELSE Verify(auths, keys, proposed, "owner", [r EXCEPT !.ok = TRUE], a)

Start(known) == [ok |-> TRUE, throws |-> FALSE, known |-> known]

\* check_required_authorities.  The approvals found are kept for the rest of the
\* transaction.
check_required_authorities(auths, keys, proposed, op, approved) ==
    ForEach(LAMBDA s, a : Verify(auths, keys, proposed, "owner", s, a),
            ForEach(LAMBDA s, a : VerifyActive(auths, keys, proposed, s, a),
                    Start(approved), Required(op).active),
            Required(op).owner)

\* is_authorized_to_execute: only what was approved counts, each class for itself.
ApprovedBy(approvals) ==
    {<<a, "active">> : a \in approvals.active} \cup {<<a, "owner">> : a \in approvals.owner}

is_authorized_to_execute(d, p) ==
    ForEach(LAMBDA s, a : Verify(d.auths, p.available.keys, TRUE, "owner", s, a),
            ForEach(LAMBDA s, a : Verify(d.auths, p.available.keys, TRUE, "active", s, a),
                    Start(ApprovedBy(p.available)), p.required.active),
            p.required.owner).ok

\* update_active_delegates: the genesis account is ruled by the majority of votes.
GenesisAuthority(tally) ==
    LET weight(m) == Max({m.weight, 1})
        total == FoldLeft(LAMBDA s, m : s + weight(m), 0, tally)
        authority == [threshold |-> total \div 2 + 1,
                      auths |-> [i \in DOMAIN tally |-> [who |-> tally[i].who, weight |-> weight(tally[i])]]]
    IN  [c \in Classes |-> authority]

----------------------------------------------------------------------------
(* The database.                                                           *)

Nobody == [active |-> {}, owner |-> {}, keys |-> {}]

Find(d, id) == CHOOSE p \in d.proposals : p.id = id
Exists(d, id) == \E p \in d.proposals : p.id = id
Removed(d, id) == [d EXCEPT !.proposals = {p \in @ : p.id # id}]
Replaced(d, p) == [d EXCEPT !.proposals = {q \in @ : q.id # p.id} \cup {p}]

Init ==
    /\ now = 1
    /\ \E a \in InitialAuths :
         db = [auths |-> a, balance |-> Balances, proposals |-> {}, next_id |-> 1,
               transactions |-> {}, accepted |-> {}, ran |-> <<>>]
    /\ stack = <<>>
    /\ refused = FALSE

Top == Last(stack)
Below == Front(stack)

Frame(kind, id, ops, d, keys, approved) ==
    [kind |-> kind, id |-> id, todo |-> ops, saved |-> d, keys |-> keys, approved |-> approved]

\* Mutant: the owner authorities are not passed on.
push_proposal_active(d, p) ==
    Frame("proposal", p.id, p.ops, d, {}, {<<a, "active">> : a \in p.required.active})

\* push_proposal: the required authorities are taken as given.
push_proposal(d, p) ==
    Frame("proposal", p.id, p.ops, d, {}, ApprovedBy(p.required))

----------------------------------------------------------------------------
(* Operations.                                                             *)

\* proposal_create_evaluator.  That a proposal speaks only of proposals that
\* exist is an assumption about users; the code does not check it.
RefersBack(d, ops) ==
    \A i \in DOMAIN ops : ops[i].kind \in {"proposal_update", "proposal_delete"} => Exists(d, ops[i].proposal)

CanCreate(d, c) ==
    /\ c.lifetime > 0 /\ c.lifetime <= MaxLifetime
    /\ c.review = NoReview \/ c.review < c.lifetime
    /\ Genesis \in RequiredOf(c.ops, "active") \cup RequiredOf(c.ops, "owner")
         => c.review # NoReview /\ c.review >= GenesisReview
    /\ d.next_id <= MaxProposals /\ RefersBack(d, c.ops)

Created(d, c) ==
    LET owner == RequiredOf(c.ops, "owner")
        p == [id |-> d.next_id, ops |-> c.ops, expiration |-> now + c.lifetime, reviewed |-> c.review # NoReview,
              review_period_time |-> now + c.lifetime - c.review,
              required |-> [active |-> RequiredOf(c.ops, "active") \ owner, owner |-> owner],
              available |-> Nobody]
    IN  [d EXCEPT !.proposals = @ \cup {p}, !.next_id = @ + 1]

\* proposal_update_evaluator
CanUpdate(d, op, keys) ==
    /\ Exists(d, op.proposal)
    /\ LET p == Find(d, op.proposal)
       IN  /\ p.reviewed /\ now >= p.review_period_time => op.add.active = {} /\ op.add.owner = {}
           /\ op.remove.active \subseteq p.available.active
           /\ op.remove.owner \subseteq p.available.owner
    /\ op.add.keys \cup op.remove.keys \subseteq keys

Updated(d, op) ==
    LET p == Find(d, op.proposal)
        change(c) == (p.available[c] \cup op.add[c]) \ op.remove[c]
    IN  Replaced(d, [p EXCEPT !.available = [c \in {"active", "owner", "keys"} |-> change(c)]])

\* The proposals that an operation runs at once: none that has a review period.
RunsAfter(d, op) ==
    {p \in d.proposals : /\ op.kind = "proposal_update" /\ p.id = op.proposal
                         /\ ~ p.reviewed /\ is_authorized_to_execute(d, p)}

\* proposal_delete_evaluator
CanDelete(d, op) ==
    /\ Exists(d, op.proposal)
    /\ op.payer \in Find(d, op.proposal).required[IF op.owner THEN "owner" ELSE "active"]

Evaluates(d, op, keys) ==
    CASE op.kind = "transfer" -> d.balance[op.from] >= op.amount
      [] op.kind = "account_update" -> TRUE
      [] op.kind = "proposal_create" -> CanCreate(d, op.content)
      [] op.kind = "proposal_update" -> CanUpdate(d, op, keys)
      [] op.kind = "proposal_delete" -> CanDelete(d, op)

\* transfer_evaluator
Transferred(balance, op) ==
    LET paid == [balance EXCEPT ![op.from] = @ - op.amount]
    IN  [paid EXCEPT ![op.to] = @ + op.amount]

Applied(d, op) ==
    CASE op.kind = "transfer" -> [d EXCEPT !.balance = Transferred(@, op)]
      [] op.kind = "account_update" -> [d EXCEPT !.auths[op.account].active = op.active]
      [] op.kind = "proposal_create" -> Created(d, op.content)
      [] op.kind = "proposal_update" -> Updated(d, op)
      [] op.kind = "proposal_delete" -> Removed(d, op.proposal)

----------------------------------------------------------------------------
(* Transactions and blocks.                                                *)

\* push_transaction, apply_transaction: neither a duplicate nor expired, and
\* recorded until it has expired.
push_transaction(op, keys, expiration) ==
    LET trx == [op |-> op, expiration |-> expiration]
    IN  /\ Idle /\ Cardinality(db.accepted) < MaxTransactions
        /\ trx \notin db.transactions
        /\ expiration <= Pending + MaxTrxLifetime /\ Pending <= expiration
        /\ db' = [db EXCEPT !.transactions = @ \cup {trx}, !.accepted = @ \cup {trx}]
        /\ stack' = <<Frame("transaction", 0, <<op>>, db, keys, {})>>
        /\ UNCHANGED <<now, refused>>

\* Mutant: the records go one second too early.
clear_expired_transactions_early(d, t) ==
    IF \A x \in d.transactions : t + 1 - x.expiration >= ForkingWindow
    THEN [d EXCEPT !.transactions = {}] ELSE d

\* clear_expired_transactions takes the record that expires last until it finds
\* one that may not go: all of them or none.
clear_expired_transactions(d, t) ==
    IF \A x \in d.transactions : t - x.expiration >= ForkingWindow
    THEN [d EXCEPT !.transactions = {}] ELSE d

\* apply_block, its transactions apart: a maintenance block counts the votes.
apply_block ==
    /\ Idle /\ now < MaxTime
    /\ now' = now + 1
    /\ \E auths \in {db.auths} \cup {[db.auths EXCEPT ![Genesis] = GenesisAuthority(t)] : t \in Tallies} :
         db' = clear_expired_transactions([db EXCEPT !.auths = auths], now')
    /\ stack' = <<Frame("block", 0, <<>>, db, {}, {})>>
    /\ UNCHANGED refused

----------------------------------------------------------------------------
(* Steps of a transaction or block in progress.                            *)

HasOperation == ~ Idle /\ Top.todo # <<>>
Operation == Head(Top.todo)
Authorities ==
    check_required_authorities(db.auths, Top.keys, Top.kind = "proposal", Operation, Top.approved)

apply_operation ==
    LET d == Applied(db, Operation)
        frames == Append(Below, [Top EXCEPT !.todo = Tail(@), !.approved = Authorities.known])
    IN  /\ HasOperation /\ Authorities.ok /\ Evaluates(db, Operation, Top.keys)
        /\ db' = d
        /\ stack' = frames \o SetToSeq({push_proposal(d, p) : p \in RunsAfter(d, Operation)})
        /\ UNCHANGED <<now, refused>>

\* Mutant: a proposal that fails at its expiration is not removed.
operation_throws_kept ==
    /\ HasOperation /\ ~ (Authorities.ok /\ Evaluates(db, Operation, Top.keys))
    /\ db' = Top.saved
    /\ stack' = Below
    /\ UNCHANGED <<now, refused>>

\* An exception: the session is undone.  It ends a transaction; around a proposal
\* it is caught, by the operation that ran it, which goes on, or by
\* clear_expired_proposals, which removes the proposal.
operation_throws ==
    /\ HasOperation /\ ~ (Authorities.ok /\ Evaluates(db, Operation, Top.keys))
    /\ db' = IF Below # <<>> /\ Last(Below).kind = "block" THEN Removed(Top.saved, Top.id) ELSE Top.saved
    /\ stack' = Below
    /\ refused' = (refused \/ (Top.kind = "proposal" /\ ~ Authorities.ok))
    /\ UNCHANGED now

\* Mutant: a proposal that ran is left to expire.
session_merged_kept ==
    LET p == Find(Top.saved, Top.id)
        run == [proposal |-> p, auths |-> Top.saved.auths, at |-> now]
    IN  /\ ~ Idle /\ Top.kind # "block" /\ Top.todo = <<>>
        /\ db' = IF Top.kind = "transaction" THEN db ELSE [db EXCEPT !.ran = Append(@, run)]
        /\ stack' = Below
        /\ UNCHANGED <<now, refused>>

\* The session of a transaction or of a proposal is merged; a proposal that ran
\* is removed.
session_merged ==
    LET p == Find(Top.saved, Top.id)
        run == [proposal |-> p, auths |-> Top.saved.auths, at |-> now]
    IN  /\ ~ Idle /\ Top.kind # "block" /\ Top.todo = <<>>
        /\ db' = IF Top.kind = "transaction" THEN db
                 ELSE [Removed(db, Top.id) EXCEPT !.ran = Append(@, run)]
        /\ stack' = Below
        /\ UNCHANGED <<now, refused>>

\* An iteration of clear_expired_proposals.
clear_expired_proposals ==
    LET expired == {p \in db.proposals : p.expiration <= now}
        p == CHOOSE p \in expired : \A q \in expired \ {p} :
               p.expiration < q.expiration \/ (p.expiration = q.expiration /\ p.id < q.id)
    IN  /\ ~ Idle /\ Top.kind = "block"
        /\ \/ expired = {} /\ stack' = <<>> /\ UNCHANGED db
           \/ /\ expired # {} /\ is_authorized_to_execute(db, p)
              /\ stack' = Append(stack, push_proposal(db, p))
              /\ UNCHANGED db
           \/ /\ expired # {} /\ ~ is_authorized_to_execute(db, p)
              /\ db' = Removed(db, p.id)
              /\ UNCHANGED stack
        /\ UNCHANGED <<now, refused>>

Step ==
    \/ apply_operation
    \/ operation_throws
    \/ session_merged
    \/ clear_expired_proposals

Next ==
    \/ \E op \in Operations \cup {[kind |-> "proposal_create", payer |-> c.payer, content |-> c] : c \in Proposable},
          keys \in SignatureSets, t \in Expirations : push_transaction(op, keys, t)
    \/ apply_block
    \/ Step

\* Weak fairness of Step, which is enabled unless Idle.
Spec == Init /\ [][Next]_vars /\ ([]<>Idle \/ []<><<Step>>_vars)
=============================================================================
