--------------------------- MODULE MCRelyingParty ---------------------------
(***************************************************************************)
(* Two legal entities.  The first has a registered entity with an intended *)
(* use, and room for another entity and two more uses; an administrator    *)
(* may move the entity to the second.  The two credentials of the          *)
(* use meet the criteria only together.                                    *)
(***************************************************************************)
EXTENDS RelyingParty

CONSTANTS u1, u2, u3, k1, k2, k3, l1, l2

All == DOMAIN EntitlementArcs

Row(l, status, host, supports) ==
    [legal |-> l, status |-> status, domain |-> [host |-> host], instance |-> "i",
     supports |-> supports]
MCEntityRows == {Row(l1, "active", "h", {"s"}), Row(l2, "suspended", "none", {})}

MCIdentifiersOf == [l \in {l1, l2} |-> IF l = l1 THEN {"id1"} ELSE {}]

Cred(format, claims, meta) == [format |-> format, claims |-> claims, meta |-> meta]
Partial == {Cred("sd-jwt", {"name"}, {}), Cred("mdoc", {}, {"word"})}
Full    == Cred("mdoc", {"name"}, {"word"})
MCCredentials == Partial \cup {Full}

MCBodies ==
    {[purposes |-> <<"en">>, policies |-> <<[uri |-> "x", primary |-> FALSE]>>,
      credentials |-> <<Full>>],
     [purposes |-> <<"en", "en">>, policies |-> <<[uri |-> "y", primary |-> TRUE]>>,
      credentials |-> <<Full>>]}

Asked(id, u, format, claim, meta, uri) ==
    [id |-> id, use |-> u, format |-> format, claim |-> claim, meta |-> meta, uri |-> uri]
MCCriteria ==
    {Asked("id1", Nothing, "mdoc", "name", "word", "x"),
     Asked("id2", Nothing, Nothing, Nothing, Nothing, Nothing)}

Legal(type, person, primary) ==
    [type |-> type, person |-> person, natural |-> IF type = "natural_person" THEN "n" ELSE "none",
     primary |-> primary, country |-> "none", contact |-> {"mail"}]
Vat == [type |-> "VAT_NUMBER", digits |-> "1", country |-> "SE"]
MCLegalRows ==
    {Legal("legal_person", "acme", Vat), Legal("legal_person", "acme", NoValue),
     Legal("natural_person", "none", Vat)}

MCEntitlementLists == {<<"Service_Provider", "QEAA_Provider">>}

Attr(a, v) == [attr |-> a, value |-> v]
OrgAttrs == <<Attr("C", <<"SE">>), Attr("organizationIdentifier", <<"VAT", "SE", "1">>)>>
MCRequests ==
    {[key |-> "P-256", subject |-> <<Attr("O", <<"other">>)>> \o OrgAttrs \o <<Attr("O", <<"acme">>)>>],
     [key |-> "P-256", subject |-> OrgAttrs \o <<Attr("O", <<"acme">>), Attr("O", <<"other">>)>>],
     [key |-> "P-256", subject |-> <<Attr("C", <<"SE">>), Attr("serialNumber", <<"VAT", "SE", "1">>)>>],
     [key |-> "P-384", subject |-> OrgAttrs \o <<Attr("O", <<"acme">>)>>]}

MCStart ==
    [entity |-> [e \in Entities |-> IF e = 2 THEN Row(l1, "active", "h", {"s"}) ELSE Unused],
     use |-> [u \in Uses |-> IF u = u1 THEN [entity |-> 2, start |-> 1, end |-> Nothing] ELSE Unused],
     policy |-> [k \in Policies |-> IF k = k1 THEN "x" ELSE Unused],
     purposes |-> [u \in Uses |-> IF u = u1 THEN {"en"} ELSE {}],
     privacy |-> [u \in Uses |-> IF u = u1 THEN {[policy |-> k1, primary |-> TRUE]} ELSE {}],
     creds |-> [u \in Uses |-> IF u = u1 THEN Partial ELSE {}],
     today |-> 1,
     legal |-> [l \in Legals |-> Legal("legal_person", "acme", Vat)],
     entitlements |-> [e \in Entities |-> IF e = 2 THEN All ELSE {}]]

Form(start, end, langs) == [start |-> start, end |-> end, langs |-> langs]
MCUseForms == {Form(2, Nothing, {"en"}), Form(1, 2, {})}

Symmetry ==
    Permutations(Workers) \cup Permutations(Issuers)
    \cup Permutations({u2, u3}) \cup Permutations({k2, k3})

=============================================================================
