----------------------------- MODULE FinanceAdvice -----------------------------
(***************************************************************************)
(* The finance tools: the tax regimes, the business plan with its verdict, *)
(* the comparison of cities and the repayment schedule of a loan           *)
(* (app/lib/finance, app/api/v1/finance.py).  A request is answered from   *)
(* what it brings and nothing is kept, so a step is one question with its  *)
(* answer.  Floating-point numbers and decimals are taken to be exact;     *)
(* every rounding to whole so'm and to tenths is there.                    *)
(***************************************************************************)
EXTENDS Integers, Sequences, FiniteSets

CONSTANTS
    Sectors,        \* benchmarks: gross margin in percent, average check, other costs, capacity per head
    Cities,         \* locations, in the order a comparison names them
    City,           \* their salaries, and utilities index in percent
    Rents, Staff, Capitals, Revenues,      \* what entrepreneurs enter, per month
    SelfEmployedCap, TurnoverCap,          \* of a year's turnover
    Loans, Rates, MaxTerm                  \* loans, annual rates in percent, months

ASSUME FinanceAssumption ==
    \* The catalogue's margins are between 18 and 65 %; all that matters is that none is below
    \* the 4 % of the turnover tax.
    /\ \A s \in Sectors : s.margin \in 4 .. 99 /\ s.other \in Nat /\ {s.check, s.capacity} \subseteq Nat \ {0}
    /\ Cities \in Seq(DOMAIN City) /\ Cities # << >>
    /\ \A c \in DOMAIN City : {City[c].salary, City[c].index} \subseteq Nat
    /\ Rents \cup Staff \cup Capitals \cup Revenues \cup Rates \subseteq Nat
    /\ {SelfEmployedCap, TurnoverCap, MaxTerm} \subseteq Nat /\ Loans \subseteq Nat \ {0}

VARIABLES question, answer

financeVars == <<question, answer>>

Nothing == [kind |-> "none"]
AtLeastZero(x) == IF x > 0 THEN x ELSE 0
CeilDiv(a, b) == -((-a) \div b)

\* a/b to the nearest whole number, a half upwards (quantize) or to the even one (round).
RoundHalfUp(a, b) == (2 * a + b) \div (2 * b)
RoundHalfEven(a, b) ==
    LET n == RoundHalfUp(a, b) IN IF 2 * a + b = 2 * b * n /\ n % 2 = 1 THEN n - 1 ELSE n

-----------------------------------------------------------------------------
(* Taxes: whole so'm, cut off. *)

Percent(amount, rate) == (amount * rate) \div 100
SocialTax(t) == Percent(t.payroll, 12)

TaxOf(regime, t) ==
    SocialTax(t) +
    CASE regime = "self_employed" -> Percent(t.revenue, 1)
      [] regime = "turnover" -> Percent(t.revenue, 4)
      [] regime = "general" ->
           Percent(AtLeastZero(t.revenue - t.goods), 12)
           + Percent(AtLeastZero(t.revenue - t.goods - t.payroll - t.costs), 15)

Eligible(regime, t) ==
    CASE regime = "self_employed" -> t.individual /\ t.revenue <= SelfEmployedCap
      [] regime = "turnover" -> t.revenue <= TurnoverCap
      [] regime = "general" -> TRUE

Regimes == <<"self_employed", "turnover", "general">>

\* The first of the cheapest, and what it saves against the dearest.
CompareRegimes(t) ==
    LET open == {i \in DOMAIN Regimes : Eligible(Regimes[i], t)}
        tax(i) == TaxOf(Regimes[i], t)
        best == CHOOSE i \in open : \A j \in open : tax(i) < tax(j) \/ (tax(i) = tax(j) /\ i <= j)
        worst == CHOOSE i \in open : \A j \in open : tax(j) <= tax(i)
    IN  [regime |-> Regimes[best], annual |-> tax(best), monthly |-> tax(best) \div 12, savings |-> tax(worst) - tax(best)]

-----------------------------------------------------------------------------
(* The business plan. *)

Payroll(p, city) == City[city].salary * p.staff
OtherCosts(p, city) == Percent(p.sector.other, City[city].index)
FixedCosts(p, city) == p.rent + Payroll(p, city) + OtherCosts(p, city)

\* Revenue at which the margin covers the fixed costs, its purchases, and customers a day of 26.
BreakEven(p, city) == (100 * FixedCosts(p, city)) \div p.sector.margin
BreakEvenUnits(p, city) == BreakEven(p, city) \div p.sector.check
CustomersPerDay(p, city) == CeilDiv(BreakEvenUnits(p, city), 26)

Capacity(p) == (IF p.staff > 1 THEN p.staff ELSE 1) * p.sector.capacity
\* Without an expectation the plan is 80 % of the capacity.
PlannedRevenue(p) == IF p.expected = {} THEN Percent(Capacity(p), 80) ELSE CHOOSE r \in p.expected : TRUE
\* In tenths of a percent.
Utilisation(p, city) == RoundHalfEven(1000 * BreakEven(p, city), Capacity(p))

TaxInputs(p, city) ==
    [revenue |-> 12 * PlannedRevenue(p), goods |-> 12 * Percent(PlannedRevenue(p), 100 - p.sector.margin),
     payroll |-> 12 * Payroll(p, city), costs |-> 12 * (p.rent + OtherCosts(p, city)), individual |-> p.individual]

NetProfit(p, city) ==
    Percent(PlannedRevenue(p), p.sector.margin) - FixedCosts(p, city) - CompareRegimes(TaxInputs(p, city)).monthly

NoPayback == -1
Payback(p, city) ==
    IF NetProfit(p, city) > 0 /\ p.capital > 0 THEN CeilDiv(p.capital, NetProfit(p, city)) ELSE NoPayback

Verdict(p, city) ==
    CASE NetProfit(p, city) <= 0 \/ Utilisation(p, city) > 900 -> "unprofitable"
      [] OTHER -> IF Utilisation(p, city) > 600 \/ Payback(p, city) > 24 THEN "tight" ELSE "viable"

Recommendations(p, city) ==
    {r \in {"rent or staff", "capital or margin", "regime", "cheaper place", "preferential"} :
        CASE r = "rent or staff" -> Payback(p, city) = NoPayback
          [] r = "capital or margin" -> Payback(p, city) > 48
          [] r = "regime" -> CompareRegimes(TaxInputs(p, city)).savings > 0
          [] r = "cheaper place" -> 10 * p.rent > 4 * FixedCosts(p, city)
          [] r = "preferential" -> p.sector.preferential}

CityPlan(p, city) ==
    [city |-> city, fixed |-> FixedCosts(p, city), breakEven |-> BreakEven(p, city), perDay |-> CustomersPerDay(p, city),
     planned |-> PlannedRevenue(p), net |-> NetProfit(p, city), payback |-> Payback(p, city), verdict |-> Verdict(p, city),
     tax |-> CompareRegimes(TaxInputs(p, city)), recommendations |-> Recommendations(p, city)]

ForGood == 10000
PaybackRank(plan) == IF plan.payback = NoPayback THEN ForGood ELSE plan.payback
VerdictRank(verdict) == CASE verdict = "viable" -> 0 [] verdict = "tight" -> 1 [] OTHER -> 2

\* The first of the cities with the best verdict and, among those, the fastest payback.
BestPlan(plans) ==
    LET better(i, j) == \/ VerdictRank(plans[i].verdict) < VerdictRank(plans[j].verdict)
                        \/ plans[i].verdict = plans[j].verdict /\ PaybackRank(plans[i]) < PaybackRank(plans[j])
    IN  plans[CHOOSE i \in DOMAIN plans :
                \A j \in DOMAIN plans : ~ better(j, i) /\ (j < i => better(i, j))]

-----------------------------------------------------------------------------
(* Loans.  Amounts of a schedule are whole multiples of 1/Scale. *)

\* Mutant: the months of grace are not taken off the term.
RepayMonthsAll(q) == q.months

RepayMonths(q) == q.months - q.grace

\* A rate of a month, rate/1200, as a fraction in its lowest terms.
Reduced(rate) ==
    LET d == CHOOSE d \in 1 .. 1200 : (rate * d) % 1200 = 0 /\ \A e \in 1 .. d - 1 : (rate * e) % 1200 # 0
    IN  [k |-> (rate * d) \div 1200, d |-> d]
Power(b, n) == LET f[i \in 0 .. n] == IF i = 0 THEN 1 ELSE b * f[i - 1] IN f[n]
Growth(q) == LET r == Reduced(q.rate) IN Power(r.k + r.d, RepayMonths(q)) - Power(r.d, RepayMonths(q))

ScaleOf(q) ==
    LET n == RepayMonths(q) IN
    IF q.rate = 0 THEN n ELSE Power(Reduced(q.rate).d, n) * (IF q.method = "annuity" THEN Growth(q) ELSE n)

Interest(q, balance) == LET r == Reduced(q.rate) IN (balance * r.k) \div r.d

\* The fixed instalment of an annuity, the fixed share of the principal otherwise.
Annuity(q) ==
    LET r == Reduced(q.rate) IN
    IF q.rate = 0 THEN q.principal
    ELSE q.principal * Power(r.k + r.d, RepayMonths(q)) * r.k * Power(r.d, RepayMonths(q) - 1)

PaymentRow(q, principal, interest, balance) ==
    [payment |-> RoundHalfUp(principal + interest, ScaleOf(q)), principal |-> RoundHalfUp(principal, ScaleOf(q)),
     interest |-> RoundHalfUp(interest, ScaleOf(q)), balance |-> RoundHalfUp(AtLeastZero(balance), ScaleOf(q))]

\* The principal that the instalment of a month pays; the last one pays what is left.
PrincipalPart(q, i, balance) ==
    IF i = RepayMonths(q) THEN balance
    ELSE IF q.method = "annuity" THEN Annuity(q) - Interest(q, balance)
    ELSE (q.principal * ScaleOf(q)) \div RepayMonths(q)

\* The balance after i instalments.
Balances(q) ==
    LET b[i \in 0 .. RepayMonths(q)] ==
          IF i = 0 THEN q.principal * ScaleOf(q) ELSE b[i - 1] - PrincipalPart(q, i, b[i - 1])
    IN  b

Schedule(q) ==
    LET b == Balances(q)
        grace == [i \in 1 .. q.grace |-> PaymentRow(q, 0, Interest(q, b[0]), b[0])]
        repay == [i \in 1 .. RepayMonths(q) |->
                    PaymentRow(q, PrincipalPart(q, i, b[i - 1]), Interest(q, b[i - 1]), b[i])]
    IN  grace \o repay

SumOf(rows, field) == LET s[i \in 0 .. Len(rows)] == IF i = 0 THEN 0 ELSE s[i - 1] + rows[i][field] IN s[Len(rows)]

Credit(q) ==
    LET rows == Schedule(q) IN
    [schedule |-> rows, monthly |-> rows[q.grace + 1].payment, last |-> rows[Len(rows)].payment,
     total |-> SumOf(rows, "payment"), interest |-> SumOf(rows, "interest")]

\* The share of the revenue, in tenths of a percent: 20 % is tight, 30 % dangerous.
CreditLoad(payment, revenue) ==
    IF revenue <= 0 THEN "danger"
    ELSE LET load == RoundHalfEven(1000 * payment, revenue) IN
         IF load >= 300 THEN "danger" ELSE IF load >= 200 THEN "warning" ELSE "safe"

-----------------------------------------------------------------------------
FinanceInit == question = Nothing /\ answer = Nothing

PostBusinessPlan(p) ==
    /\ question = Nothing /\ question' = p
    /\ answer' = [plans |-> [i \in DOMAIN Cities |-> CityPlan(p, Cities[i])],
                  best |-> BestPlan([i \in DOMAIN Cities |-> CityPlan(p, Cities[i])]).city]

PostCredit(q) ==
    /\ question = Nothing /\ q.grace < q.months /\ question' = q
    /\ answer' = [credit |-> Credit(q), loads |-> [r \in Revenues \ {0} |-> CreditLoad(Credit(q).monthly, r)]]

PostTax(t) == question = Nothing /\ question' = t /\ answer' = CompareRegimes(t)

PlanRequests ==
    [kind : {"plan"}, sector : Sectors, staff : Staff, rent : Rents, capital : Capitals,
     expected : {{}} \cup {{r} : r \in Revenues}, individual : BOOLEAN]

CreditRequests ==
    [kind : {"credit"}, principal : Loans, rate : Rates, months : 1 .. MaxTerm, grace : 0 .. MaxTerm - 1,
     method : {"annuity", "differentiated"}]

TaxRequests ==
    [kind : {"tax"}, revenue : Revenues, goods : Rents, payroll : Rents, costs : Rents, individual : BOOLEAN]

FinanceNext ==
    \/ \E t \in TaxRequests : PostTax(t)
    \/ \E p \in PlanRequests : PostBusinessPlan(p)
    \/ \E q \in CreditRequests : PostCredit(q)

FinanceSpec == FinanceInit /\ [][FinanceNext]_financeVars

-----------------------------------------------------------------------------
Planned == question.kind = "plan"
Worse(a, b) == VerdictRank(a) >= VerdictRank(b)

\* A higher rent never leads to a better verdict, in no city, nor to a higher profit: the tax
\* it saves is less than the rent, but for a som of rounding, whatever regime is chosen
\* (build_business_plan).
RentNeverHelps ==
    Planned => \A i \in DOMAIN Cities, rent \in Rents :
        rent > question.rent =>
            LET dearer == [question EXCEPT !.rent = rent] IN
            /\ Worse(Verdict(dearer, Cities[i]), answer.plans[i].verdict)
            /\ NetProfit(dearer, Cities[i]) <= answer.plans[i].net
            /\ rent > question.rent + 1 => NetProfit(dearer, Cities[i]) < answer.plans[i].net

\* More turnover leaves less after tax, by more than a rounding, only when it costs the
\* business a regime (calculate_tax_regimes).
TurnoverPays ==
    Planned /\ question.expected # {} => \A i \in DOMAIN Cities, r \in Revenues :
        LET more == [question EXCEPT !.expected = {r}]
            now == answer.plans[i]
        IN  r > PlannedRevenue(question) /\ NetProfit(more, Cities[i]) < now.net - 1
            => 12 * r > (IF now.tax.regime = "self_employed" THEN SelfEmployedCap ELSE TurnoverCap)

\* The city called best earns most of those with its verdict that pay back at all, but for the
\* rounding of the payback to months, when there is a capital to be paid back.  A city that
\* takes more than ForGood months ranks behind one that never does (compare_locations).
BestEarnsMost ==
    Planned /\ question.capital > 0 =>
        LET best == CHOOSE i \in DOMAIN Cities : Cities[i] = answer.best IN
        \A i \in DOMAIN Cities :
            /\ VerdictRank(answer.plans[best].verdict) <= VerdictRank(answer.plans[i].verdict)
            /\ answer.plans[i].verdict = answer.plans[best].verdict /\ answer.plans[i].net > 0
               /\ answer.plans[i].payback < ForGood
               => /\ answer.plans[best].net > 0
                  /\ \/ answer.plans[best].net >= answer.plans[i].net
                     \/ answer.plans[best].payback = answer.plans[i].payback

Borrowed == question.kind = "credit"

\* A schedule has the months of the loan, ends at zero, never owes more than before, and
\* its payments are the principal and the interest, but for the roundings.
LoanIsRepaid ==
    Borrowed =>
        LET rows == answer.credit.schedule
            near(x, y) == 2 * (x - y) <= Len(rows) /\ 2 * (y - x) <= Len(rows)
        IN  /\ Len(rows) = question.months /\ rows[Len(rows)].balance = 0
            /\ \A i \in 2 .. Len(rows) : rows[i].balance <= rows[i - 1].balance
            /\ near(SumOf(rows, "principal"), question.principal)
            /\ answer.credit.total - question.principal - answer.credit.interest \in -Len(rows) .. Len(rows)

LoadRank(level) == CASE level = "safe" -> 0 [] level = "warning" -> 1 [] OTHER -> 2

\* What the credit load advises helps: a longer term, or a smaller loan, never makes it worse;
\* and equal shares of the principal never cost more interest than an annuity, roundings included.
AdviceHelps ==
    Borrowed => \A q \in CreditRequests :
        /\ q.method = question.method /\ q.rate = question.rate /\ q.grace = question.grace
           /\ q.months >= question.months /\ q.principal <= question.principal
           => \A r \in DOMAIN answer.loads : LoadRank(CreditLoad(Credit(q).monthly, r)) <= LoadRank(answer.loads[r])
        /\ q = [question EXCEPT !.method = "differentiated"]
           => Credit(q).interest <= answer.credit.interest

\* Higher costs never raise the tax of the regime to choose (calculate_tax_regimes).
CostsNeverTax ==
    question.kind = "tax" => \A t \in TaxRequests :
        /\ t.revenue = question.revenue /\ t.payroll = question.payroll /\ t.individual = question.individual
        /\ t.goods >= question.goods /\ t.costs >= question.costs
        => CompareRegimes(t).annual <= answer.annual

\* What the finance tools tell an entrepreneur fits together.
FinanceHolds == RentNeverHelps /\ TurnoverPays /\ CostsNeverTax /\ BestEarnsMost /\ LoanIsRepaid /\ AdviceHelps
=============================================================================
