----------------------------- MODULE MCTreasury -----------------------------
(***************************************************************************)
(* Treasury with the genesis account, a prime account that is a witness    *)
(* and a worker, and one more account.  A day lasts two seconds, a        *)
(* maintenance interval three.                                             *)
(***************************************************************************)
EXTENDS TreasuryProperties, TLC

CONSTANTS genesis, alice, bob, wit

MCReferrer == genesis :> genesis @@ alice :> bob @@ bob :> genesis
MCWitnessAccount == wit :> alice
MCDeposits == genesis :> 0 @@ alice :> 24 @@ bob :> 12

MCFees == [op \in {"transfer", "asset_burn", "vesting_balance_create", "vesting_balance_withdraw",
                   "witness_withdraw_pay", "worker_create", "withdraw_permission_create",
                   "withdraw_permission_update", "withdraw_permission_claim",
                   "withdraw_permission_delete"} |-> 4]
          @@ "global_parameters_update" :> 0

MCParameters ==
    [witness_percent_of_fee |-> 1, burn_percent_of_fee |-> 1,
     max_bulk_discount_percent_of_fee |-> 2,
     bulk_discount_threshold_min |-> 3, bulk_discount_threshold_max |-> 5,
     cashback_vesting_period_seconds |-> 2, witness_pay_per_block |-> 1,
     worker_budget_per_day |-> 4, maintenance_interval |-> 3]

MCNewParameters ==
    {[MCParameters EXCEPT !.cashback_vesting_period_seconds = 3, !.witness_pay_per_block = 0]}

MCTransferOps == {[from |-> alice, to |-> genesis, amount |-> 4]}
MCBurnOps == {[payer |-> alice, amount |-> 8]}
MCVestingOps == {[creator |-> bob, owner |-> alice, amount |-> 4, vesting_seconds |-> 2]}
MCWorkerOps ==
    {[owner |-> alice, daily_pay |-> 3, begin |-> 4, end |-> 20, refund |-> refund, days |-> 1] :
        refund \in BOOLEAN}
MCPermissionOps ==
    {[from |-> alice, to |-> bob, limit |-> 4, period |-> 2, periods |-> 1]}
=============================================================================
