------------------------------ MODULE Accounts ------------------------------
(***************************************************************************)
(* The part of the platform's database that a wallet call works on         *)
(* (services/platform/app/models.py), as the wallet's own transactions and *)
(* the capability calls that pay with them both see it.                    *)
(***************************************************************************)

CONSTANTS
  Users,           \* rows of the users table
  Costs,           \* cost_per_call values of the catalog
  TopUps,          \* amounts posted to /api/wallet/topup
  InitialBalance,  \* wallet_balance of a new user
  MinInt, MaxInt   \* range of an SQL integer column

VARIABLES
  balance,  \* users.wallet_balance
  ledger,   \* committed wallet_transactions rows of each user, oldest first
  req       \* the latest wallet call of each session
=============================================================================
