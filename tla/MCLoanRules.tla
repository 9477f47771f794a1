----------------------------- MODULE MCLoanRules -----------------------------
EXTENDS LoanRules

CONSTANT Incomes, Prices, Areas, Cash

\* Every profile over the boundary incomes; the other amounts are fixed.
MCApplicants ==
  {NoApplicant} \cup
  [homeless : BOOLEAN, income : Incomes, newlywed : BOOLEAN, firstBuyer : BOOLEAN,
   children : 0..2, newborn : BOOLEAN, dual : BOOLEAN, single : BOOLEAN,
   cash : Cash, budget : {300}, debt : {0}, reserveBps : {0}]

MCListings ==
  [trade : {1, 3}, price : Prices, area : Areas, sidoCapital : BOOLEAN,
   address : {"capital", "other"}, management : {0}]

\* Interest of a month and a 360th of the principal, a little below the annuity.
MCMonthlyPayment(principal, rate) == (principal * rate) \div 120000 + principal \div 360

=============================================================================
