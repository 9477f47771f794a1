SPECIFICATION LoanSpec
CONSTANTS
  NoApplicant = NoApplicant
  NotSet = NotSet
  Applicants <- MCApplicants
  Listings <- MCListings
  MonthlyPayment <- MCMonthlyPayment
  Incomes = {5000, 6000, 7000, 7500, 8500, 9000, 10000, 13000, 20000, 20001}
  Prices = {0, 20000, 30000, 40000, 50000, 60000, 60001, 90000}
  Areas = {0, 6000, 8500, 8501}
  Cash = {18000}
INVARIANTS
  CandidatesCoverEligible
  ConditionIsThePlan
  CandidatesCoverAffordable
