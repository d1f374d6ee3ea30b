--------------------------- MODULE IssuancePolicy ---------------------------
(***************************************************************************)
(* What an access certificate says, from the rows of the registered entity *)
(* and of its legal entity, and which signing requests are accepted.  The  *)
(* value of an attribute is a tuple of words up to case, which every       *)
(* comparison of the code folds.                                           *)
(***************************************************************************)
EXTENDS DerCodec, FiniteSets

NoValue == <<>>

\* Entitlement types and the last arc of their OIDs.
EntitlementArcs ==
    [Service_Provider |-> 1, QEAA_Provider |-> 2, Non_Q_EAA_Provider |-> 3,
     PUB_EAA_Provider |-> 4, PID_Provider |-> 5, QCert_for_ESeal_Provider |-> 6,
     QCert_for_ESig_Provider |-> 7, rQSealCDs_Provider |-> 8, rQSigCDs_Provider |-> 9,
     ESig_ESeal_Creation_Provider |-> 10]
QualifiedEntitlements ==
    {"QEAA_Provider", "QCert_for_ESeal_Provider", "QCert_for_ESig_Provider"}

EntitlementOid(t) == <<0, 4, 0, 19475, 1, EntitlementArcs[t]>>
QcComplianceOid   == <<0, 4, 0, 1862, 1, 1>>
QcTypeOid         == <<0, 4, 0, 1862, 1, 6>>
PolicyOid         == [NCP_n |-> 1, NCP_l |-> 2, QCP_n |-> 3, QCP_l |-> 4]

OrgIdPrefix ==
    "EUID" :> "EUID" @@ "VAT_NUMBER" :> "VAT" @@ "LEI" :> "LEI" @@ "EORI" :> "EORI"
    @@ "NATIONAL_BUSINESS_REG" :> "NTR" @@ "NATIONAL_TAX_REG" :> "TAX"
    @@ "SERIAL_NUMBER" :> "PAS" @@ "OTHER" :> "OTH"

\* Separators are dropped from the number; LEIs are global.
OrgIdentifier(id, country) ==
    <<OrgIdPrefix[id.type], IF id.type = "LEI" THEN "XG" ELSE country, id.digits>>

Country(l) ==
    IF l.primary # NoValue THEN l.primary.country
    ELSE IF l.country # "none" THEN l.country ELSE "XX"

\* Attribute by attribute; a name stands for itself.
BuildSubject(l) ==
    LET natural == l.type = "natural_person" /\ l.natural # "none"
        id      == IF l.primary = NoValue THEN NoValue ELSE OrgIdentifier(l.primary, Country(l))
        all == [C |-> <<Country(l)>>,
                O |-> IF natural \/ l.person = "none" THEN NoValue ELSE <<l.person>>,
                serialNumber |-> IF natural THEN id ELSE NoValue,
                organizationIdentifier |-> IF natural THEN NoValue ELSE id]
    IN [a \in {a \in DOMAIN all : all[a] # NoValue} |-> all[a]]

\* An attribute that is repeated keeps its last value.
CsrSubject(csr) ==
    [a \in {csr.subject[i].attr : i \in DOMAIN csr.subject} |->
        LET i == CHOOSE i \in DOMAIN csr.subject :
                    /\ csr.subject[i].attr = a
                    /\ \A j \in DOMAIN csr.subject : csr.subject[j].attr = a => j <= i
        IN csr.subject[i].value]

\* Names and common names are not compared.
CsrSubjectValid(csr, l) ==
    LET expected == BuildSubject(l)
        given    == CsrSubject(csr)
    IN \A a \in DOMAIN expected : a \in DOMAIN given /\ given[a] = expected[a]

CsrKeyValid(csr) == csr.key = "P-256"

\* The host of a domain URI, which may be a bare host or a URL; some URLs have none.
DomainUriHost(d) == IF d.host = "none" THEN {} ELSE {<<"DNS", d.host>>}

BuildSan(e, l, supports) ==
    DomainUriHost(e.domain) \cup {<<"URI", e.instance>>} \cup {<<"URI", s>> : s \in supports}
    \cup {<<"contact", c>> : c \in l.contact}

RequiresQualified(ents) == ents \cap QualifiedEntitlements # {}

GetPolicyOid(l, ents) ==
    LET natural == l.type = "natural_person"
    IN PolicyOid[IF RequiresQualified(ents) THEN IF natural THEN "QCP_n" ELSE "QCP_l"
                 ELSE IF natural THEN "NCP_n" ELSE "NCP_l"]

Statement(oid, more) == Tlv(48, Tlv(6, EncodeOid(oid)) \o more)

\* Compliance and type of a qualified certificate, then the entitlements that
\* have an OID, here in the order of their arcs; no extension if there are none.
BuildQcStatements(l, ents) ==
    LET qct   == Append(QcTypeOid, IF l.type = "natural_person" THEN 1 ELSE 2)
        head  == IF RequiresQualified(ents)
                 THEN Statement(QcComplianceOid, <<>>)
                          \o Statement(QcTypeOid, Tlv(48, Tlv(6, EncodeOid(qct))))
                 ELSE <<>>
        of(i) == {t \in ents \cap DOMAIN EntitlementArcs : EntitlementArcs[t] = i}
        all   == head \o FlattenSeq([i \in 1..Cardinality(DOMAIN EntitlementArcs) |->
                     IF of(i) = {} THEN <<>> ELSE Statement(<<0, 4, 0, 19475, 1, i>>, <<>>)])
    IN IF all = <<>> THEN <<>> ELSE Tlv(48, all)

\* The certificate takes its subject from the request.
Certificate(e, l, ents, supports, csr) ==
    [subject |-> csr.subject, san |-> BuildSan(e, l, supports),
     policy |-> GetPolicyOid(l, ents), qc |-> BuildQcStatements(l, ents)]

=============================================================================
