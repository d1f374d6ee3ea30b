---------------------------- MODULE RelyingParty ----------------------------
(***************************************************************************)
(* A relying party between its registration and its access certificates:   *)
(* the intended uses of IntendedUses, and next to them the requests that   *)
(* replace entitlements and those that issue certificates.  An issuance    *)
(* loads the entity with its legal entity in one query and the rest in the *)
(* next, and signs what it loaded.                                         *)
(***************************************************************************)
EXTENDS IntendedUses, IssuancePolicy

CONSTANTS
    Legals,         \* LegalEntity rows
    LegalRows,      \* what they may hold
    EntitlementLists,   \* lists of entitlements that a PUT sends
    Requests,       \* certificate signing requests
    Issuers         \* processes that serve issuances and PUTs

ASSUME PartyInputs ==
    /\ \A row \in EntityRows : row.legal \in Legals
    /\ \A row \in LegalRows : row.type \in {"legal_person", "natural_person"}
    /\ Start.legal \in [Legals -> LegalRows]
    /\ Start.entitlements \in [Entities -> SUBSET DOMAIN EntitlementArcs]
    /\ EntitlementLists \subseteq Seq(DOMAIN EntitlementArcs)
    /\ \A csr \in Requests : csr.subject \in Seq([attr : STRING, value : Seq(STRING)])

VARIABLES
    legal, entitlements,
    job,            \* the request each issuer serves
    cert            \* last certificate of each entity, with the rows it is from

partyVars == <<legal, entitlements, job, cert>>
vars == <<useVars, entity, req, answer, today, writes, partyVars>>

Idle == [at |-> "idle", entity |-> Nothing, row |-> Nothing, legal |-> Nothing,
         todo |-> <<>>, ents |-> {}, supports |-> {}, csr |-> Nothing]

Init ==
    /\ UsesInit
    /\ legal = Start.legal /\ entitlements = Start.entitlements
    /\ job = [x \in Issuers |-> Idle]
    /\ cert = [e \in Entities |-> Nothing]

Other == UNCHANGED <<useVars, entity, req, today>>

(***************************************************************************)
(* PUT /wrp: the entitlements are deleted, then created one by one         *)
(***************************************************************************)

PutDelete(x, e, new) ==
    /\ job[x] = Idle /\ Write
    /\ Present(entity, e)
    /\ entitlements' = [entitlements EXCEPT ![e] = {}]
    /\ job' = [job EXCEPT ![x] = [Idle EXCEPT !.at = "put", !.entity = e, !.todo = new]]
    /\ UNCHANGED <<legal, cert>> /\ Other

PutCreate(x) ==
    LET r == job[x]
    IN /\ r.at = "put" /\ r.todo # <<>> /\ Present(entity, r.entity)
       /\ entitlements' = [entitlements EXCEPT ![r.entity] = @ \cup {Head(r.todo)}]
       /\ job' = [job EXCEPT ![x].todo = Tail(@)]
       /\ UNCHANGED <<legal, cert, writes>> /\ Other

\* The PUT ends, fails as the entity is gone, or dies.
PutEnd(x) ==
    /\ job[x].at = "put"
    /\ job' = [job EXCEPT ![x] = Idle]
    /\ UNCHANGED <<legal, entitlements, cert, writes>> /\ Other

(***************************************************************************)
(* Issuance                                                                *)
(***************************************************************************)

IssueLoad(x, e, csr) ==
    /\ job[x] = Idle /\ Write
    /\ Present(entity, e)
    /\ job' = [job EXCEPT ![x] = [Idle EXCEPT !.at = "loaded", !.entity = e, !.csr = csr,
                   !.row = entity[e], !.legal = legal[entity[e].legal]]]
    /\ UNCHANGED <<legal, entitlements, cert>> /\ Other

Eligible(row, l) ==
    /\ row.status = "active" /\ row.domain.host # "empty" /\ row.instance # "none"
    /\ l.type = "legal_person" => l.primary # NoValue

Accepted(r) == Eligible(r.row, r.legal) /\ CsrSubjectValid(r.csr, r.legal) /\ CsrKeyValid(r.csr)

\* The entitlements and support URIs are read before the checks are made.
IssueRead(x) ==
    LET r == job[x]
    IN /\ r.at = "loaded"
       /\ job' = [job EXCEPT ![x] =
              IF Accepted(r)
              THEN [r EXCEPT !.at = "read", !.ents = entitlements[r.entity],
                        !.supports = IF Present(entity, r.entity) THEN entity[r.entity].supports ELSE {}]
              ELSE Idle]
       /\ UNCHANGED <<legal, entitlements, cert, writes>> /\ Other

\* Mutant of Signed: the statements are built from another query.
SignedAfresh(r) ==
    [Certificate(r.row, r.legal, r.ents, r.supports, r.csr) EXCEPT
        !.qc = BuildQcStatements(r.legal, entitlements[r.entity])]

\* Mutant of Signed: the policy is chosen for the legal entity as it is by now.
SignedLate(r) ==
    [Certificate(r.row, r.legal, r.ents, r.supports, r.csr) EXCEPT
        !.policy = GetPolicyOid(legal[r.row.legal], r.ents)]

Signed(r) == Certificate(r.row, r.legal, r.ents, r.supports, r.csr)

\* The certificate is stored for an entity that is still there, or not at all.
IssueSign(x) ==
    LET r == job[x]
    IN /\ r.at = "read"
       /\ cert' = IF Present(entity, r.entity)
                  THEN [cert EXCEPT ![r.entity] = [content |-> Signed(r), row |-> r.row, legal |-> r.legal]]
                  ELSE cert
       /\ job' = [job EXCEPT ![x] = Idle]
       /\ UNCHANGED <<legal, entitlements, writes>> /\ Other

(***************************************************************************)
(* Administration                                                          *)
(***************************************************************************)

AdminSaveLegal(l, row) ==
    /\ Write /\ row # legal[l]
    /\ legal' = [legal EXCEPT ![l] = row]
    /\ UNCHANGED <<entitlements, job, cert>> /\ Other

AdminSaveEntity(e, row) ==
    /\ Write /\ Present(entity, e) /\ row # entity[e]
    /\ entity' = [entity EXCEPT ![e] = row]
    /\ UNCHANGED <<useVars, req, today, partyVars>>

RemoveEntity(e) ==
    /\ DeleteEntity(e)
    /\ entitlements' = [entitlements EXCEPT ![e] = {}]
    /\ cert' = [cert EXCEPT ![e] = Nothing]
    /\ UNCHANGED <<legal, job>>

Issue ==
    \E x \in Issuers :
        \/ \E e \in Entities, new \in EntitlementLists : PutDelete(x, e, new)
        \/ PutCreate(x) \/ PutEnd(x)
        \/ \E e \in Entities, csr \in Requests : IssueLoad(x, e, csr)
        \/ IssueRead(x) \/ IssueSign(x)

Administer ==
    \/ \E l \in Legals, row \in LegalRows : AdminSaveLegal(l, row)
    \/ \E e \in Entities, row \in EntityRows : AdminSaveEntity(e, row)
    \/ \E e \in Entities : RemoveEntity(e)

Next ==
    \/ UsesNext /\ UNCHANGED partyVars
    \/ (Issue \/ Administer) /\ answer' = Nothing

Spec == Init /\ [][Next]_vars

(***************************************************************************)
(* Properties                                                              *)
(***************************************************************************)

\* Every variable has its type: the rows, what a request has loaded and has still
\* to do, and the certificates, whose statements are octets.
RelyingTypeOK ==
    /\ UsesTypeOK
    /\ legal \in [Legals -> LegalRows]
    /\ \A e \in Entities : entitlements[e] \subseteq DOMAIN EntitlementArcs
    /\ \A x \in Issuers :
        /\ job[x].at \in {"idle", "put", "loaded", "read"}
        /\ job[x].at # "idle" => job[x].entity \in Entities
        /\ job[x].at \in {"loaded", "read"} =>
               job[x].row \in EntityRows /\ job[x].legal \in LegalRows /\ job[x].csr \in Requests
        /\ job[x].todo \in Seq(DOMAIN EntitlementArcs)
        /\ job[x].ents \subseteq DOMAIN EntitlementArcs
    /\ \A e \in Entities : cert[e] # Nothing => cert[e].content.qc \in Seq(0..255)

Issued == {cert[e] : e \in {e \in Entities : cert[e] # Nothing}}

\* The statements that the certificate page decodes from a certificate are of a
\* qualified one (compliance, and a qualified entitlement) exactly when its policy
\* is; no statement comes twice, and each is that of an entitlement or one of the two.
QualifiedConsistent ==
    \A c \in Issued :
        LET lines == IF c.content.qc = <<>> THEN <<>> ELSE FormatQcStatements(c.content.qc)
            all   == {lines[i] : i \in DOMAIN lines}
            qualified == c.content.policy \in {PolicyOid.QCP_n, PolicyOid.QCP_l}
        IN /\ qualified <=> QcComplianceOid \in all
           /\ qualified <=> \E t \in QualifiedEntitlements : EntitlementOid(t) \in all
           /\ Len(lines) = Cardinality(all)
           /\ all \subseteq {QcComplianceOid, QcTypeOid}
                  \cup {EntitlementOid(t) : t \in DOMAIN EntitlementArcs}

\* A certificate is of one kind of person: under a policy for legal persons its
\* subject has an organizationIdentifier; under one for natural persons whose
\* identifier the registry knew it has a serialNumber (an organizationIdentifier if
\* they have no name there).  The subject is checked two queries before the
\* policy is chosen, and the legal entity may change its type in between.
OneKindOfPerson ==
    \A c \in Issued :
        LET given == {c.content.subject[i].attr : i \in DOMAIN c.content.subject}
        IN IF c.content.policy \in {PolicyOid.NCP_l, PolicyOid.QCP_l}
           THEN "organizationIdentifier" \in given
           ELSE c.legal.primary # NoValue =>
                    (IF c.legal.natural = "none" THEN "organizationIdentifier" ELSE "serialNumber")
                        \in given

=============================================================================
