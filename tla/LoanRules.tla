------------------------------ MODULE LoanRules ------------------------------
(***************************************************************************)
(* The policy-loan rules and the two prefilters the search puts before      *)
(* them.  evaluator.py judges one listing for one applicant, in Python.     *)
(* candidate_plan.py derives limits from the applicant alone, which the     *)
(* search turns into SQL, so that the evaluator sees few rows.  The limits  *)
(* are written down twice, in two files, and a listing the SQL leaves out   *)
(* is never judged: what must hold is that the prefilter loses nothing.     *)
(* purchase_affordability_service.py and its bound on the price are the     *)
(* same situation once more.                                                *)
(*                                                                          *)
(* Amounts are in units of 10,000 won, areas in hundredths of a square      *)
(* metre, rates in hundredths of a percent.                                 *)
(***************************************************************************)
EXTENDS Integers, FiniteSets, FiniteSetsExt

CONSTANTS
  NoApplicant,            \* the search is made without a profile
  NotSet,                 \* available_cash or the monthly budget is missing
  Applicants,             \* the profiles that occur
  Listings,               \* the rows that occur
  MonthlyPayment(_, _)    \* _monthly_payment: the annuity for a principal and a rate

Sale == 1
Trades == 1..4            \* 매매, 전세, 월세, 단기임대

Profile ==
  [homeless : BOOLEAN, income : Nat, newlywed : BOOLEAN, firstBuyer : BOOLEAN,
   children : Nat, newborn : BOOLEAN, dual : BOOLEAN, single : BOOLEAN,
   cash : Nat \cup {NotSet}, budget : Nat \cup {NotSet}, debt : Nat, reserveBps : Nat]

\* sidoCapital: sido_code is 11, 28 or 41.  address: none at all, one that names
\* Seoul, Gyeonggi or Incheon, or another one.
Row ==
  [trade : Trades, price : Nat, area : Nat, sidoCapital : BOOLEAN,
   address : {"none", "capital", "other"}, management : Nat]

ASSUME LoanAssumption ==
  /\ NoApplicant \notin Profile
  /\ NotSet \notin Nat
  /\ Applicants \subseteq Profile \cup {NoApplicant}
  /\ Listings \subseteq Row

VARIABLE applicant        \* the profile the next search is made with

loanVars == <<applicant>>

-----------------------------------------------------------------------------
(* The evaluator. `applicant and applicant.x` is false without a profile.   *)

Newlywed(a) == a # NoApplicant /\ a.newlywed
ManyChildren(a) == a # NoApplicant /\ a.children >= 2
FirstBuyer(a) == a # NoApplicant /\ a.firstBuyer
Single(a) == a # NoApplicant /\ a.single
Special(a) == Newlywed(a) \/ ManyChildren(a)

CapitalArea(l) == l.address \in {"none", "capital"}
Rental(l) == l.trade # Sale

Smaller(x, y) == IF x <= y THEN x ELSE y

\* Every product answers in this order: is enough known, does the listing fit,
\* is there a profile at all, does the person fit.
Status(known, listingFits, a, personFits) ==
  CASE ~known -> "UNKNOWN"
    [] known /\ ~listingFits -> "INELIGIBLE"
    [] known /\ listingFits /\ a = NoApplicant -> "PROPERTY_ELIGIBLE"
    [] OTHER -> IF personFits THEN "ELIGIBLE" ELSE "INELIGIBLE"

Result(product, status, loan, rate) ==
  [product |-> product, status |-> status, loan |-> loan, rate |-> rate]

IsEligible(result) == result.status \in {"ELIGIBLE", "PROPERTY_ELIGIBLE"}

\* The share of the price that may be lent, in percent.
LoanToValue(l, a) == IF ~CapitalArea(l) /\ FirstBuyer(a) THEN 80 ELSE 70

DidimdolIncome(a) ==
  CASE Newlywed(a) -> 8500
    [] ~Newlywed(a) /\ (FirstBuyer(a) \/ ManyChildren(a)) -> 7000
    [] OTHER -> 6000

DidimdolLoan(l, a) ==
  LET raw == (l.price * LoanToValue(l, a)) \div 100 - (IF CapitalArea(l) THEN 5500 ELSE 0)
      cap == CASE Single(a) -> IF FirstBuyer(a) THEN 20000 ELSE 15000
               [] ~Single(a) /\ Special(a) -> 32000
               [] OTHER -> IF FirstBuyer(a) THEN 24000 ELSE 20000
  IN  Smaller(cap, IF raw > 0 THEN raw ELSE 0)

DidimdolRate(a) ==
  CASE a = NoApplicant -> 265
    [] a # NoApplicant /\ a.income <= 2000 -> 215
    [] a # NoApplicant /\ a.income > 2000 /\ a.income <= 4000 -> 245
    [] a # NoApplicant /\ a.income > 4000 /\ a.income <= 6000 -> 265
    [] OTHER -> 300

evaluate_didimdol(l, a) ==
  LET fits == /\ l.area <= (IF Single(a) THEN 6000 ELSE 8500)
              /\ l.price <= (IF Single(a) THEN 30000
                             ELSE IF Special(a) THEN 60000 ELSE 50000)
  IN  Result("DIDIMDOL",
             Status(l.trade = Sale /\ l.price > 0 /\ l.area > 0, fits, a,
                    a # NoApplicant /\ a.homeless /\ a.income <= DidimdolIncome(a)),
             DidimdolLoan(l, a), DidimdolRate(a))

BogumjariIncome(a) ==
  CASE a # NoApplicant /\ a.children >= 2 -> 10000
    [] a # NoApplicant /\ a.children = 1 -> 9000
    [] a # NoApplicant /\ a.children = 0 /\ a.newlywed -> 8500
    [] OTHER -> 7000

evaluate_bogumjari(l, a) ==
  LET cap == CASE FirstBuyer(a) -> 42000
               [] ~FirstBuyer(a) /\ ManyChildren(a) -> 40000
               [] OTHER -> 36000
  IN  Result("BOGUMJARI",
             Status(l.trade = Sale /\ l.price > 0, l.price <= 60000, a,
                    a # NoApplicant /\ a.income <= BogumjariIncome(a)),
             Smaller(cap, (l.price * LoanToValue(l, a)) \div 100), 395)

NeonatalFits(a) ==
  /\ a # NoApplicant
  /\ a.newborn
  /\ a.income <= (IF a.dual THEN 20000 ELSE 13000)

evaluate_neonatal_purchase(l, a) ==
  Result("NEONATAL_PURCHASE",
         Status(l.trade = Sale /\ l.price > 0 /\ l.area > 0,
                l.area <= 8500 /\ l.price <= 90000, a, NeonatalFits(a)),
         Smaller(40000, (l.price * LoanToValue(l, a)) \div 100), 250)

evaluate_neonatal_rent(l, a) ==
  Result("NEONATAL_RENT",
         Status(Rental(l) /\ l.price > 0 /\ l.area > 0,
                l.area <= 8500 /\ l.price <= (IF CapitalArea(l) THEN 50000 ELSE 40000),
                a, NeonatalFits(a)),
         Smaller(24000, (l.price * 80) \div 100), 200)

BeotimmokDeposit(l, a) ==
  IF Special(a) THEN (IF CapitalArea(l) THEN 40000 ELSE 30000)
                ELSE (IF CapitalArea(l) THEN 30000 ELSE 20000)

BeotimmokLoan(l, a) ==
  IF Special(a)
    THEN Smaller(IF CapitalArea(l) THEN 25000 ELSE 16000, (l.price * 80) \div 100)
    ELSE Smaller(IF CapitalArea(l) THEN 12000 ELSE 8000, (l.price * 70) \div 100)

evaluate_beotimmok(l, a) ==
  Result("BEOTIMMOK",
         Status(Rental(l) /\ l.price > 0 /\ l.area > 0,
                l.area <= 8500 /\ l.price <= BeotimmokDeposit(l, a), a,
                a # NoApplicant /\ a.income <= (IF Special(a) THEN 7500 ELSE 5000)),
         BeotimmokLoan(l, a),
         CASE a # NoApplicant /\ a.income <= 2000 -> 180
           [] a # NoApplicant /\ a.income > 4000 -> 240
           [] OTHER -> 210)

\* What _is_loan_eligible asks for. evaluate_neonatal_rent is not among it: no
\* caller in the application uses that rule.
SearchResults(l, a) ==
  {evaluate_didimdol(l, a), evaluate_bogumjari(l, a),
   evaluate_neonatal_purchase(l, a), evaluate_beotimmok(l, a)}

is_loan_eligible(l, a) == \E r \in SearchResults(l, a) : IsEligible(r)

-----------------------------------------------------------------------------
(* The candidate plan: limits from the applicant alone.                     *)

AnyArea == 0              \* max_exclusive_area_x100 is None

CapitalCandidate(l) == l.sidoCapital \/ l.address \in {"none", "capital"}

PlanDidimdolIncome(a) ==
  CASE a.newlywed -> 8500
    [] ~a.newlywed /\ (a.firstBuyer \/ a.children >= 2) -> 7000
    [] OTHER -> 6000

PlanBogumjariIncome(a) ==
  CASE a.children >= 2 -> 10000
    [] a.children = 1 -> 9000
    [] a.children = 0 /\ a.newlywed -> 8500
    [] OTHER -> 7000

PlanNeonatalOneIncome(a) == a.newborn /\ a.income <= 13000

PlanNeonatal(a) == a.newborn /\ a.income <= (IF a.dual THEN 20000 ELSE 13000)

SaleLimits(a) ==
  (IF a.homeless /\ a.income <= PlanDidimdolIncome(a)
     THEN IF a.single
            THEN {[price |-> 30000, area |-> 6000]}
            ELSE {[price |-> IF a.newlywed \/ a.children >= 2 THEN 60000 ELSE 50000,
                   area |-> 8500]}
     ELSE {})
  \cup (IF a.income <= PlanBogumjariIncome(a)
          THEN {[price |-> 60000, area |-> AnyArea]} ELSE {})
  \cup (IF PlanNeonatal(a) THEN {[price |-> 90000, area |-> 8500]} ELSE {})

RentLimits(a) ==
  LET special == a.newlywed \/ a.children >= 2
  IN  (IF PlanNeonatal(a) THEN {[capital |-> 50000, elsewhere |-> 40000]} ELSE {})
      \cup (IF a.income <= (IF special THEN 7500 ELSE 5000)
              THEN IF special THEN {[capital |-> 40000, elsewhere |-> 30000]}
                              ELSE {[capital |-> 30000, elsewhere |-> 20000]}
              ELSE {})

Branch(trades, capital, elsewhere, area) ==
  [trades |-> trades, capital |-> capital, elsewhere |-> elsewhere, area |-> area]

SaleBranch(limits) ==
  LET price == Max({m.price : m \in limits})
      area == IF \A m \in limits : m.area # AnyArea
                THEN Max({m.area : m \in limits}) ELSE AnyArea
  IN  Branch({Sale}, price, price, area)

RentBranch(limits) ==
  Branch({2, 3, 4}, Max({m.capital : m \in limits}), Max({m.elsewhere : m \in limits}), 8500)

\* LoanCandidatePlan.for_applicant: no branch for what nothing is lent for.
Plan(a) ==
  IF a = NoApplicant
    THEN {Branch({Sale}, 90000, 90000, AnyArea), Branch({2, 3, 4}, 50000, 40000, 8500)}
    ELSE {SaleBranch(m) : m \in {SaleLimits(a)} \ {{}}}
         \cup {RentBranch(m) : m \in {RentLimits(a)} \ {{}}}

\* LoanCandidateBranch.matches and LoanCandidatePlan.matches.
BranchMatches(b, l) ==
  /\ l.trade \in b.trades
  /\ l.price > 0
  /\ l.price <= (IF CapitalCandidate(l) THEN b.capital ELSE b.elsewhere)
  /\ b.area # AnyArea => l.area > 0 /\ l.area <= b.area

PlanMatches(a, l) == \E b \in Plan(a) : BranchMatches(b, l)

SqlConditionEverywhere(b, l) ==
  /\ l.trade \in b.trades
  /\ l.price > 0
  /\ l.price <= b.capital
  /\ b.area # AnyArea => l.area > 0 /\ l.area <= b.area

\* _loan_candidate_condition: the same limits as one SQL condition. An or_() of
\* no branch at all restricts nothing, but then no query is made (eligible rows
\* and groups return before), or the map judges every row.
SqlCondition(b, l) ==
  /\ l.trade \in b.trades
  /\ l.price > 0
  /\ IF b.capital = b.elsewhere
       THEN l.price <= b.capital
       ELSE l.price <= b.elsewhere \/ (CapitalCandidate(l) /\ l.price <= b.capital)
  /\ b.area # AnyArea => l.area > 0 /\ l.area <= b.area

SqlCandidate(a, l) == \E b \in Plan(a) : SqlCondition(b, l)

-----------------------------------------------------------------------------
(* Affordability: cash and monthly budget with the largest loan, the        *)
(* cheapest of those of the same size.                                      *)

LargestWithoutFirstHome == 40000

MAX_SUPPORTED_PURCHASE_LOAN == 42000

Lenders(l, a) == {r \in SearchResults(l, a) : IsEligible(r) /\ r.loan > 0}

SelectedAmount(l, a) ==
  IF Lenders(l, a) = {} THEN 0 ELSE Max({r.loan : r \in Lenders(l, a)})

SelectedRate(l, a) ==
  IF Lenders(l, a) = {} THEN 0
  ELSE Min({r.rate : r \in {s \in Lenders(l, a) : s.loan = SelectedAmount(l, a)}})

\* Rounded up, as ROUND_CEILING does.
ClosingCostReserve(price, bps) == (price * bps + 9999) \div 10000

RequiredCash(l, a) ==
  (IF l.price > SelectedAmount(l, a) THEN l.price - SelectedAmount(l, a) ELSE 0)
  + ClosingCostReserve(l.price, a.reserveBps)

MonthlyCost(l, a) ==
  MonthlyPayment(SelectedAmount(l, a), SelectedRate(l, a)) + l.management + a.debt

\* calculate(...).is_affordable is True. A profile without cash or budget is
\* refused by _validate_purchase_affordability_profile before any row is read.
is_purchase_affordable(l, a) ==
  /\ a # NoApplicant
  /\ a.cash # NotSet /\ a.budget # NotSet
  /\ l.trade = Sale /\ l.price > 0
  /\ a.cash >= RequiredCash(l, a)
  /\ MonthlyCost(l, a) <= a.budget

\* _purchase_candidate_rows
PurchaseCandidate(l, a) ==
  l.trade = Sale /\ l.price <= a.cash + MAX_SUPPORTED_PURCHASE_LOAN

-----------------------------------------------------------------------------
(* The only state is the profile: what a file or a cookie holds, or none,   *)
(* as when the service is called without one.                               *)

LoanInit == applicant \in Applicants

\* The settings form saves a whole new profile. It does not ask for the two
\* incomes nor for the household, which fall back to their defaults.
SaveProfile ==
  \E a \in Applicants \ {NoApplicant} :
    /\ ~a.dual
    /\ ~a.single
    /\ applicant' = a

LoanNext == SaveProfile

LoanSpec == LoanInit /\ [][LoanNext]_loanVars

-----------------------------------------------------------------------------
(* Properties *)

\* The SQL prefilter of the loan search loses nothing: every listing the
\* evaluator finds eligible, for the profile of the search, is a candidate
\* (candidate_plan.py restates the limits of evaluator.py).  It would also lose
\* nothing if the rental rule for newborns were asked.
CandidatesCoverEligible ==
  \A l \in Listings :
    is_loan_eligible(l, applicant) \/ IsEligible(evaluate_neonatal_rent(l, applicant))
      => SqlCandidate(applicant, l)

\* The SQL condition and LoanCandidatePlan.matches are two writings of one plan.
ConditionIsThePlan ==
  \A l \in Listings : SqlCandidate(applicant, l) <=> PlanMatches(applicant, l)

\* The price bound of the affordability search, cash plus the largest loan any
\* product grants, loses no affordable listing.
CandidatesCoverAffordable ==
  \A l \in Listings :
    is_purchase_affordable(l, applicant) => PurchaseCandidate(l, applicant)

=============================================================================
