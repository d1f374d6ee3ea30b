--------------------------- MODULE TrustedListXml ---------------------------
(***************************************************************************)
(* What the three XML generators of the TSL generator write of a row, and  *)
(* what the importers read back.  A row is a record of the columns and of  *)
(* the related rows that the generators treat differently; an element is   *)
(* the record of what it contains.  A field is "special" that holds an XML *)
(* metacharacter: written unescaped, it leaves a document no parser takes. *)
(***************************************************************************)
EXTENDS Naturals, FiniteSets

Formats == {"standard", "gotrust", "etsi"}

\* Texts of a scheme, each empty or not: a column, and five tables.
SchemeTexts == {"distribution_points", "operator_names", "scheme_names",
                "information_uris", "community_rules", "legal_notices"}
Addresses == {"street", "locality", "region", "postal_code", "country"}

\* Related rows of a service beside its names and certificates.
Supply     == {"supply_points", "definition_uris"}
Extensions == {"qualifications", "additional_service_info"}
History    == {"history", "history_extensions"}
Parts      == Supply \cup Extensions \cup History

(***************************************************************************)
(* The fields of a scheme that some generator writes as they are.          *)
(* "language" is the language of one of its texts, "pointers" the type,    *)
(* territory, MIME type or certificate of a pointer.  What is written as   *)
(* it is of providers and services is in TrustedList!Unescaped.            *)
(***************************************************************************)

GoTrustUnescaped == {"tsl_type", "approach", "territory", "language", "pointers"}
EtsiUnescaped    == {"tsl_id", "territory", "language", "pointers"}
SpecialFields    == GoTrustUnescaped \cup EtsiUnescaped

\* An instant: the second, and whether there is a fraction of it.
Seconds == {"d1", "d2", "now"}
Dates   == [second : Seconds, fraction : {"zero", "some"}]
NoDate  == [second |-> "none", fraction |-> "zero"]

(***************************************************************************)
(* Standard format: ElementTree escapes every text; isoformat() dates      *)
(***************************************************************************)

\* Stored dates are in UTC, and isoformat() says so as +00:00.
IsoFormat(d) == [second |-> d.second, fraction |-> d.fraction, zone |-> "offset"]

\* Names, URIs, rules and notices, one element per list that has rows.
StandardScheme(r) ==
    [seq |-> r.seq, special |-> r.special, texts |-> r.texts, parses |-> TRUE]

\* One ServiceDigitalIdentity for all certificates of the pointer.
OneIdentity(certs) == IF certs = {} THEN {} ELSE {certs}

StandardDates(r) == [issued |-> IsoFormat(r.issue), next |-> IsoFormat(r.next)]

\* A postal address needs a street; its country falls back to SE.
Postal(a) == IF "street" \in a THEN a \cup {"country"} ELSE {}

\* TSPAddress is written even when it is empty.
StandardProvider(d, a) ==
    [names |-> d \cap {"name"}, trade |-> d \cap {"trade"}, postal |-> Postal(a),
     mail |-> d \cap {"mail"}, address |-> TRUE]

StandardService(v, q, c) ==
    [status |-> v.status, names |-> q \cap {"name"},
     identities |-> {[pem |-> x.pem, subject |-> "omitted"] : x \in c},
     parts |-> q \cap (Supply \cup {"history"}), wrapped |-> FALSE]

(***************************************************************************)
(* go-trust format: lines put together; some texts are not escaped         *)
(***************************************************************************)

\* The fraction is not written.
StrfTime(d) == [second |-> d.second, fraction |-> "zero", zone |-> "Z"]

GoTrustScheme(r) ==
    [seq |-> r.seq, special |-> r.special, texts |-> r.texts,
     parses |-> r.special \cap GoTrustUnescaped = {}]

GoTrustDates(r) == [issued |-> StrfTime(r.issue), next |-> StrfTime(r.next)]

\* TSPAddress only when there is something to write in it.
GoTrustProvider(d, a) ==
    [names |-> d \cap {"name"}, trade |-> d \cap {"trade"}, postal |-> Postal(a),
     mail |-> d \cap {"mail"}, address |-> "street" \in a \/ "mail" \in d]

GoTrustService(v, q, c) ==
    [status |-> v.status, names |-> q \cap {"name"},
     identities |-> {[pem |-> x.pem, subject |-> "omitted"] : x \in c},
     parts |-> q \cap (Supply \cup {"history"}), wrapped |-> FALSE]

(***************************************************************************)
(* ETSI TS 119 612 format                                                  *)
(***************************************************************************)

EtsiScheme(r) ==
    [seq |-> r.seq, special |-> r.special, texts |-> r.texts,
     parses |-> r.special \cap EtsiUnescaped = {}]

\* One ServiceDigitalIdentity per certificate of the pointer.
IdentityEach(certs) == {{k} : k \in certs}

EtsiDates(r) == [issued |-> StrfTime(r.issue), next |-> StrfTime(r.next)]

EtsiProvider(d, a) ==
    [names |-> d \cap {"name"}, trade |-> d \cap {"trade"}, postal |-> Postal(a),
     mail |-> d \cap {"mail"}, address |-> TRUE]

\* The certificate is taken from the PEM, the subject name and key identifier
\* from the columns extracted from a PEM when the row was first saved.
EtsiIdentity(x) == [pem |-> x.pem, subject |-> x.subject]

\* Mutant of EtsiHistory: without the extensions.
EtsiHistoryBare(q) == q \cap {"history"}

\* A former status, with its own identities and extensions (only here).
EtsiHistory(q) == IF "history" \in q THEN q \cap History ELSE {}

\* Supply points and definition URIs open the extensions element, and are not
\* written in it.
EtsiExtensions(q) ==
    [parts |-> q \cap Extensions, wrapped |-> q \cap (Supply \cup Extensions) # {}]

EtsiService(v, q, c) ==
    [status |-> v.status, names |-> q \cap {"name"},
     identities |-> {EtsiIdentity(x) : x \in c},
     parts |-> EtsiExtensions(q).parts \cup EtsiHistory(q),
     wrapped |-> EtsiExtensions(q).wrapped]

(***************************************************************************)
(* By format                                                               *)
(***************************************************************************)

SchemeElement(f, r) ==
    CASE f = "standard" -> StandardScheme(r)
      [] f = "gotrust"  -> GoTrustScheme(r)
      [] f = "etsi"     -> EtsiScheme(r)

Identities(f, certs) == IF f = "etsi" THEN IdentityEach(certs) ELSE OneIdentity(certs)

DatesElement(f, r) ==
    CASE f = "standard" -> StandardDates(r)
      [] f = "gotrust"  -> GoTrustDates(r)
      [] f = "etsi"     -> EtsiDates(r)

ProviderElement(f, d, a) ==
    CASE f = "standard" -> StandardProvider(d, a)
      [] f = "gotrust"  -> GoTrustProvider(d, a)
      [] f = "etsi"     -> EtsiProvider(d, a)

ServiceElement(f, v, q, c) ==
    CASE f = "standard" -> StandardService(v, q, c)
      [] f = "gotrust"  -> GoTrustService(v, q, c)
      [] f = "etsi"     -> EtsiService(v, q, c)

(***************************************************************************)
(* Import of a scheme                                                      *)
(***************************************************************************)

\* Mutant of ParseDatetime: of the dates in UTC, only those with a fraction.
ParseDatetimeFraction(t) ==
    IF t.zone = "Z" /\ t.fraction = "some"
    THEN [second |-> t.second, fraction |-> t.fraction] ELSE NoDate

\* _parse_datetime knows dates that end in Z or in nothing.  What it reads has no
\* zone; it is stored in the default one, which is UTC, too.
ParseDatetime(t) ==
    IF t.zone = "Z" THEN [second |-> t.second, fraction |-> t.fraction] ELSE NoDate

Now == [second |-> "now", fraction |-> "some"]

\* The fields that come back from a file, with the texts.
ReadBack == {"tsl_type", "approach", "territory", "language"}

\* Mutant of ImportedScheme: an issue date that cannot be read stays out.
ImportedSchemeUndated(h, d) ==
    [seq |-> h.seq, special |-> h.special \cap ReadBack,
     issue |-> ParseDatetime(d.issued), next |-> ParseDatetime(d.next),
     texts |-> h.texts \cap {"distribution_points"}, pointers |-> {}, active |-> TRUE]

\* The row import_tsl_from_xml creates: active, with the default Id, without the
\* pointers; an issue date that cannot be read becomes the present.
ImportedScheme(h, d) ==
    [seq |-> h.seq, special |-> h.special \cap ReadBack,
     issue |-> IF ParseDatetime(d.issued) = NoDate THEN Now ELSE ParseDatetime(d.issued),
     next |-> ParseDatetime(d.next), texts |-> h.texts \cap {"distribution_points"},
     pointers |-> {}, active |-> TRUE]

\* _import_multilang_names, _import_multilang_uris: every list that is there.
ImportedTexts(h) == h.texts \ {"distribution_points"}

\* import_scheme_from_yaml: the keys of scheme.yaml, defaults for the rest.
YamlScheme(y) ==
    [seq |-> y.seq, special |-> y.special, issue |-> Now, next |-> NoDate,
     texts |-> {}, pointers |-> {}, active |-> TRUE]

=============================================================================
