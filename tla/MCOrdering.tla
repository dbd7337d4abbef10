------------------------------ MODULE MCOrdering ------------------------------
EXTENDS Ordering

CONSTANTS r1, r2, r3, c1, c2

Payload(customer, dates, method, code_promotion, assign) ==
    [customer |-> customer, dates |-> dates, method |-> method, code |-> code_promotion, assign |-> assign]

(* Three uses of the code, one of which exceeds the limit_count of the     *)
(* event; or one use, beside two orders without a code.                    *)
MCPayloads ==
    {[r \in Requests |-> CASE r = r1 -> Payload(c1, 1, "point", TRUE, FALSE)
                           [] r = r2 -> Payload(c1, 2, "point", TRUE, TRUE)
                           [] r = r3 -> Payload(c2, 3, "cash", TRUE, FALSE)],
     [r \in Requests |-> CASE r = r1 -> Payload(c1, 2, "point", FALSE, TRUE)
                           [] r = r2 -> Payload(c1, 1, "point", TRUE, FALSE)
                           [] r = r3 -> Payload(c2, 2, "online", FALSE, FALSE)]}
=============================================================================
