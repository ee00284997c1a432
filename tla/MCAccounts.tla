----------------------------- MODULE MCAccounts -----------------------------
(* Accounts with its accounts as model values, which are interchangeable    *)
(* when all of them are admins at first.                                    *)
EXTENDS Accounts, TLC

Symmetry == Permutations(Account)
=============================================================================
