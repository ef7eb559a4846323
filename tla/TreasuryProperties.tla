-------------------------- MODULE TreasuryProperties --------------------------
(***************************************************************************)
(* What the core asset, vesting balances and withdrawal permissions        *)
(* promise.                                                                *)
(***************************************************************************)
EXTENDS Treasury

\* Everything that somebody holds or is still owed.
Vesting(s) == [i \in DOMAIN s.vesting |-> s.vesting[i].balance]

Held(s) ==
    Total(s.balance) + Total(Vesting(s)) + Total(s.accumulated_income)
    + s.witness_budget + s.accumulated_fees

\* The supply is what accounts, vesting balances, witnesses, the budget and the
\* fees hold, but for what process_budget forfeits of the witness budget, and
\* never more than the reserve allows: fees, cashback, budget, worker pay and
\* burning neither make nor lose a share.
SupplyAccounted ==
    /\ Held(db) + db.forfeited = db.current_supply
    /\ db.current_supply <= MaxSupply
    /\ \A i \in DOMAIN db.vesting : db.vesting[i].balance >= 0
    /\ \A w \in Witnesses : db.accumulated_income[w] >= 0
    /\ db.witness_budget >= 0

\* However deposits and withdrawals are mixed, no share leaves a vesting balance
\* before it, or another one, was held for the vesting period; and what was left
\* alone for that period can be withdrawn whole.
VestsOverTime ==
    \A i \in DOMAIN db.vesting :
        LET v == db.vesting[i]
        IN  /\ v.credit >= 0
            /\ v.vesting_seconds > 0 /\ db.time - v.touched >= v.vesting_seconds =>
                 get_allowed_withdraw(v, db.time) = v.balance

\* operations.hpp: "The maximum amount authorized_account is allowed to withdraw
\* in a given withdrawal period".  No sequence of claims takes more than the
\* limit in one period, counted from the start that was agreed last.
WithinLimit == \A i \in Permissions : db.permissions[i].taken <= db.permissions[i].limit
=============================================================================
