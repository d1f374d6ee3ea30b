--------------------------- MODULE MCTrustedList ---------------------------
(***************************************************************************)
(* A registry with two providers of one scheme, a service of the first and *)
(* its certificate, and room for one row more of each kind.                *)
(***************************************************************************)
EXTENDS TrustedList

CONSTANTS p1, p2, p3, v1, v2, c1, e1, e2, e3

Row(seq, texts, dates, special, active) ==
    [seq |-> seq, special |-> special,
     issue |-> [second |-> "d1", fraction |-> IF dates THEN "some" ELSE "zero"],
     next |-> IF dates THEN [second |-> "d2", fraction |-> "zero"] ELSE NoDate,
     texts |-> texts, pointers |-> IF dates THEN {"k1", "k2"} ELSE {"k1"},
     active |-> active]

MCForms == {Row(2, {"scheme_names", "distribution_points"}, FALSE, {"approach"}, TRUE),
            Row(3, {"legal_notices"}, TRUE, {"tsl_id"}, FALSE)}

MCAddressOf == [e \in {e1, e2, e3} |->
    CASE e = e1 -> {"street", "locality"} [] e = e2 -> {"locality", "country"} [] OTHER -> {}]

MCStart ==
    {[scheme |-> [s \in Schemes |-> IF s = 1 THEN Row(1, {"operator_names", "legal_notices"}, TRUE, {}, TRUE)
                                    ELSE Unused],
      provider |-> [p \in Providers |->
          CASE p = p1 -> [scheme |-> 1, entity |-> e1, active |-> TRUE]
            [] p = p2 -> [scheme |-> 1, entity |-> e2, active |-> TRUE]
            [] OTHER -> Unused],
      details |-> [p \in Providers |-> IF p = p1 THEN Details ELSE IF p = p2 THEN {"name"} ELSE {}],
      service |-> [v \in Services |->
          IF v = v1 THEN [provider |-> p1, status |-> "granted", active |-> TRUE] ELSE Unused],
      parts |-> [v \in Services |->
          IF v = v1 THEN {"name", "qualifications", "supply_points"} ELSE {}],
      cert |-> [c \in Certs |-> Unused]]}

MCDetailForms == {{"mail"}}
MCPartForms == {{"name", "history", "history_extensions", "definition_uris"}}
MCProviderOrders == {[extra |-> {"trade", "initial"}, raw |-> {"trade"}]}
MCServiceOrders ==
    {[extra |-> {"mail"}, raw |-> {"service_name"}, status |-> "withdrawn", pem |-> "other"]}
MCDirectories == {[seq |-> 1, special |-> {"language"}, texts |-> {"scheme_names"}]}

=============================================================================
