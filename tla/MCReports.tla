---------------------------- MODULE MCReports -------------------------------
(* Reports with symmetry in the ids of rows, its kinds of transactions, and *)
(* balances of which one is an overdraft.                                   *)
EXTENDS Reports, TLC

IdSymmetry == Permutations(Ids)
CashBalances == {-6, 0, 6, 12, 15}
TwoExpensesOneIncome == {<<"expense", "cogs">>, <<"expense", "rd">>, <<"income", "subscription">>}
=============================================================================
