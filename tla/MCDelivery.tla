----------------------------- MODULE MCDelivery -----------------------------
(***************************************************************************)
(* Instances of Delivery for TLC.                                          *)
(***************************************************************************)
EXTENDS Delivery

CONSTANTS f, g

MCNameBytes == [fn \in Functions |-> IF fn = f THEN 6 ELSE 70]
MCKindOf == [fn \in Functions |-> IF fn = f THEN "Method" ELSE "Internal"]

MCProbe(method, path, token) ==
    [method |-> method, path |-> path, body |-> Truncated, from |-> [addr |-> "harness"],
     headers |-> [authorization |-> token, content_type |-> "text/plain"]]

MCProbes ==
    {MCProbe("GET", "/debug/batches", "none"),
     MCProbe("GET", "/debug/connection_count", "none"),
     MCProbe("GET", "/debug/last_request_headers", "none"),
     MCProbe("POST", "/debug/reset", "none"),
     MCProbe("PUT", "/v1/ingest", AuthToken),
     MCProbe("GET", "/nowhere", "none"),
     MCProbe("POST", "/v1/ingest", "wrong"),
     MCProbe("POST", "/v1/ingest", AuthToken)}

=============================================================================
