------------------------------- MODULE Pricing --------------------------------
(***************************************************************************)
(* What a group order costs: JS.calculateFeeGroupOrder, one request at a   *)
(* time, for a service of one extension and one zone.  The dates are       *)
(* priced in a loop over one shared service object, the promotions take    *)
(* their part of the whole, and the whole is split over the dates again,   *)
(* from which the orders, the deposits and the taxes are made.  Amounts    *)
(* are dong, as in the code; Math.round is Round, half up.                 *)
(***************************************************************************)
EXTENDS Integers, Sequences, Functions

CONSTANTS
    Payloads,     \* what is asked for, and the tables it is priced by
    NoPromotion

(* unit is percent (of value, at most max) or amount (max).                *)
Promotions == [unit : {"percent", "amount"}, value : Nat, max : Nat]

ASSUME PricingAssumption ==
    \A p \in Payloads :
        /\ p.dates \in Seq([rush : Nat, holiday : Nat]) /\ p.dates # <<>>  \* surcharges in percent
        /\ p.price \in Nat          \* price of the extension in the area, or its own
        /\ p.count \in Nat \ {0}
        /\ p.area \in BOOLEAN       \* has the extension a fee for the city?
        /\ p.code \in Promotions \cup {NoPromotion}
        /\ p.event \in Promotions \cup {NoPromotion}
        /\ p.service_fee \in Seq(Nat) /\ p.service_fee # <<>>
        /\ p.tip \in Nat
        /\ p.vat \in Nat            \* value_added_tax of the service, in percent
        /\ p.platform \in Nat       \* percentPlatformFee

VARIABLES
    payload,
    price,       \* price field of the service object all dates share
    infoJob,
    at

vars == <<payload, price, infoJob, at>>

N == Len(payload.dates)

(* Math.round(n / d) and Math.ceil(n / d)                                  *)
Round(n, d) == (2 * n + d) \div (2 * d)
Ceil(n, d) == -((-n) \div d)

Total(field) == FoldFunction(LAMBDA d, sum : d[field] + sum, 0, infoJob.date)

Init ==
    /\ payload \in Payloads
    /\ price = payload.price
    /\ infoJob = [date |-> <<>>, initial_fee |-> 0, code |-> 0, event |-> 0, final_fee |-> 0]
    /\ at = "dates"

-----------------------------------------------------------------------------
(* Mutant of Surcharge: rounded to the nearest thousand.                   *)
SurchargeRound(fee, percent) == Round(fee * percent, 100000) * 1000

Surcharge(fee, percent) == Ceil(fee * percent, 100000) * 1000

(* The fee of the next date.  Without a fee of the area there are no       *)
(* surcharges, and the price is read from the shared service object, into  *)
(* which the fee of the date is written back.                              *)
PriceDate ==
    /\ at = "dates"
    /\ LET date == payload.dates[Len(infoJob.date) + 1]
           base == (IF payload.area THEN payload.price ELSE price) * payload.count
           rush == base + Surcharge(base, date.rush)
           fee == IF payload.area THEN rush + Surcharge(rush, date.holiday) ELSE base
       IN  /\ price' = fee
           /\ infoJob' = [infoJob EXCEPT
                !.date = Append(@, [initial_fee |-> fee, code |-> 0, event |-> 0, final_fee |-> 0,
                                    platform_fee |-> 0, shift_income |-> 0, value_added_tax |-> 0]),
                !.initial_fee = @ + fee]
           /\ at' = IF Len(infoJob'.date) = N THEN "promotions" ELSE "dates"
    /\ UNCHANGED payload

(* PRO.calculateCodePromotion rounds to thousands once,                    *)
CodeDiscount(promotion, initial_fee) ==
    IF promotion = NoPromotion THEN 0
    ELSE IF promotion.unit = "percent" /\ initial_fee * promotion.value <= promotion.max * 100
         THEN Round(initial_fee * promotion.value, 100000) * 1000
         ELSE Round(promotion.max, 1000) * 1000

(* PRO.calculateEventPromotion to units before.                            *)
EventDiscount(promotion, initial_fee) ==
    IF promotion = NoPromotion THEN 0
    ELSE IF promotion.unit = "percent" /\ initial_fee * promotion.value <= promotion.max * 100
         THEN Round(Round(initial_fee * promotion.value, 100), 1000) * 1000
         ELSE Round(promotion.max, 1000) * 1000

(* JS.calculateFinalFee                                                    *)
FinalFee(job) ==
    job.initial_fee + payload.tip * N - job.code - job.event
      + FoldFunction(+, 0, payload.service_fee)

(* Mutant of Promote: the whole is not cut off at nothing.                 *)
PromoteBelowZero ==
    /\ at = "promotions"
    /\ LET job == [infoJob EXCEPT !.code = CodeDiscount(payload.code, infoJob.initial_fee),
                                  !.event = EventDiscount(payload.event, infoJob.initial_fee)]
       IN  infoJob' = [job EXCEPT !.final_fee = FinalFee(job)]
    /\ at' = "split"
    /\ UNCHANGED <<payload, price>>

(* The discounts are taken from the whole, which is not less than nothing. *)
Promote ==
    /\ at = "promotions"
    /\ LET job == [infoJob EXCEPT !.code = CodeDiscount(payload.code, infoJob.initial_fee),
                                  !.event = EventDiscount(payload.event, infoJob.initial_fee)]
       IN  infoJob' = [job EXCEPT !.final_fee = IF FinalFee(job) < 0 THEN 0 ELSE FinalFee(job)]
    /\ at' = "split"
    /\ UNCHANGED <<payload, price>>

(* Mutant of Share: the rest is lost.                                      *)
ShareFloor(discount, i) == ((discount \div 1000) \div N) * 1000

(* JS.calculateDiscountPerDate, in thousands: the loop takes one from the  *)
(* discount until it can be divided, the last date gets those as well.     *)
Share(discount, i) ==
    LET thousands == discount \div 1000 IN
    (thousands \div N + IF i = N THEN thousands % N ELSE 0) * 1000

Split ==
    /\ at = "split"
    /\ infoJob' = [infoJob EXCEPT !.date =
           [i \in DOMAIN @ |-> [@[i] EXCEPT !.code = IF N > 1 THEN Share(infoJob.code, i) ELSE infoJob.code,
                                            !.event = IF N > 1 THEN Share(infoJob.event, i) ELSE infoJob.event]]]
    /\ at' = "fees"
    /\ UNCHANGED <<payload, price>>

(* Mutant of DateFees: the service fee is asked on every date.             *)
DateFeesRepeated(date, i) ==
    LET final_fee == date.initial_fee + payload.service_fee[1] + payload.tip - date.code - date.event
        tax == Round(final_fee * payload.vat, 100 * (100 + payload.vat)) * 100
        subtotal_fee == date.initial_fee - tax
        platform_fee == Round(subtotal_fee * payload.platform, 10000) * 100
    IN  [date EXCEPT !.final_fee = final_fee, !.value_added_tax = tax, !.platform_fee = platform_fee,
                     !.shift_income = subtotal_fee - platform_fee]

(* Fees of one order: the tax is the part of the final fee, what is left   *)
(* of the initial fee is divided with the collaborator.                    *)
DateFees(date, i) ==
    LET final_fee == date.initial_fee + (IF i = 1 THEN payload.service_fee[1] ELSE 0)
                       + payload.tip - date.code - date.event
        tax == Round(final_fee * payload.vat, 100 * (100 + payload.vat)) * 100
        subtotal_fee == date.initial_fee - tax
        platform_fee == Round(subtotal_fee * payload.platform, 10000) * 100
    IN  [date EXCEPT !.final_fee = final_fee, !.value_added_tax = tax, !.platform_fee = platform_fee,
                     !.shift_income = subtotal_fee - platform_fee]

Charge ==
    /\ at = "fees"
    /\ infoJob' = [infoJob EXCEPT !.date = [i \in DOMAIN @ |-> DateFees(@[i], i)]]
    /\ at' = "done"
    /\ UNCHANGED <<payload, price>>

Next == PriceDate \/ Promote \/ Split \/ Charge

Spec == Init /\ [][Next]_vars
-----------------------------------------------------------------------------
(* Properties                                                              *)

Amounts == [initial_fee : Nat, code : Nat, event : Nat, final_fee : Int,
            platform_fee : Int, shift_income : Int, value_added_tax : Int]

(* The fees of every date are priced once, none is negative before the     *)
(* discounts.                                                              *)
TypeOK ==
    /\ price \in Nat
    /\ infoJob \in [date : Seq(Amounts), initial_fee : Nat, code : Nat, event : Nat, final_fee : Nat]
    /\ Len(infoJob.date) <= N /\ (at # "dates" => Len(infoJob.date) = N)
    /\ at \in {"dates", "promotions", "split", "fees", "done"}

(* The orders of a group cost together what the customer is asked for.     *)
(* They do not where there is more than one service fee (the first order   *)
(* takes the first only, JS:1441) or where the discounts are more than all *)
(* fees (only the sum is cut off at zero, JS:1407).                        *)
FeesAddUp ==
    at = "done" /\ Len(payload.service_fee) = 1 /\ FinalFee(infoJob) >= 0
      => Total("final_fee") = infoJob.final_fee

(* Nothing of a discount is lost or given twice by the split (JS:1668),    *)
(* and only the last order gets more than the others, less than a thousand *)
(* for each date.                                                          *)
DiscountsAddUp ==
    at \in {"fees", "done"} =>
        /\ Total("code") = infoJob.code /\ Total("event") = infoJob.event
        /\ \A i \in 1..N : /\ infoJob.date[i].code <= infoJob.date[N].code
                           /\ infoJob.date[N].code - infoJob.date[i].code < 1000 * N

(* What a date costs for itself: the price of what is asked for and, where *)
(* the area has a fee, each surcharge on what it is raised from, in full   *)
(* thousands and at most all of it.                                        *)
FeeOfDate(date) ==
    LET base == payload.price * payload.count
        Thousands(x, percent) ==
            CHOOSE t \in 0..((x * percent) \div 100000 + 1) : /\ t * 100000 >= x * percent
                                                               /\ (t - 1) * 100000 < x * percent
        rush == base + 1000 * Thousands(base, date.rush)
    IN  IF payload.area THEN rush + 1000 * Thousands(rush, date.holiday) ELSE base

(* A date costs what it costs for itself, whatever was priced before it.   *)
(* It does not for a counted extension without a fee of the area, as the   *)
(* fee of the date before is the price of the next (JS:1244, JS:1356).     *)
DatesPricedAlone ==
    payload.area \/ payload.count = 1 =>
        \A i \in 1..Len(infoJob.date) : infoJob.date[i].initial_fee = FeeOfDate(payload.dates[i])
=============================================================================
