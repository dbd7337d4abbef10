------------------------------ MODULE MCPricing -------------------------------
EXTENDS Pricing

CONSTANT MaxDates

Dates == UNION {[1..n -> [rush : {0, 15}, holiday : {0, 30}]] : n \in 1..MaxDates}

MCPayloads ==
    [dates : Dates, price : {67000, 200000}, count : {1, 3}, area : BOOLEAN,
     code : {NoPromotion, [unit |-> "percent", value |-> 15, max |-> 70000],
             [unit |-> "amount", value |-> 0, max |-> 250000]},
     event : {NoPromotion, [unit |-> "percent", value |-> 7, max |-> 40000]},
     service_fee : {<<2000>>, <<2000, 3500>>}, tip : {0, 10500}, vat : {8}, platform : {20}]
=============================================================================
