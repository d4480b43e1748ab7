----------------------------- MODULE MCRowRules -----------------------------
(* Configs of up to three columns of every type, and fields around their   *)
(* limits.                                                                 *)
EXTENDS RowRules

C(name, type, nullable, required, format, precision, scale) ==
    [name |-> name, type |-> type, nullable |-> nullable, required |-> required,
     format |-> format, precision |-> precision, scale |-> scale]

Id(name) == C(name, "string", FALSE, TRUE, None, None, None)
Amount(nullable, p, s) == C("amount", "decimal", nullable, TRUE, None, p, s)
Day(type, format) == C("order_date", type, TRUE, TRUE, format, None, None)
Extra(type, nullable) == C("extra", type, nullable, FALSE, None, None, None)

MCRawConfigs ==
    {<<Id("customer_id"), Amount(TRUE, 3, 2), Day("date", "ymd")>>,
     <<Day("timestamp", "iso"), Id("customer_id"), Extra("boolean", TRUE)>>,
     <<Id("order_id"), Id("customer_id"), Amount(FALSE, 2, 2)>>,
     <<Extra("integer", FALSE), Id("customer_id")>>,
     <<Id("customer_id"), Amount(TRUE, 2, 3)>>,
     <<Id("customer_id"), Amount(TRUE, 0, 0)>>,
     <<Id("customer_id"), Amount(TRUE, None, 2)>>,
     <<Id("customer_id"), Day("date", None)>>,
     <<Id("customer_id"), Id("customer_id")>>,
     <<Id("customer_id"), C("extra", "integer", TRUE, TRUE, None, 3, None)>>}

MCFields ==
    {Empty, Text(0), Bit, Truth, Time("ymd"), Time("iso"), Value("NaN", 0, 0, None, 0)}
    \cup {Number(n, e) : n \in {1, 3}, e \in {-3, -2, 0, 2}}
=============================================================================
