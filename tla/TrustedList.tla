---------------------------- MODULE TrustedList ----------------------------
(***************************************************************************)
(* The trusted list of the member state (ETSI TS 119 612): the rows of the *)
(* TSL generator, the REST endpoints and admin forms that write them, the  *)
(* requests and the command that publish a scheme as XML, and the imports. *)
(* REST endpoints, generators and imports run in autocommit: a step is one *)
(* query or one commit, except that a generator reads a row together with  *)
(* what hangs on it.  An admin form, and a deletion with its cascade, is   *)
(* one transaction.                                                        *)
(***************************************************************************)
EXTENDS TrustedListXml

CONSTANTS
    Schemes,        \* TSLScheme rows: primary keys, in the order of created_at
    Providers,      \* TrustServiceProvider rows
    Services,       \* TrustService rows
    Certs,          \* ServiceCertificate rows
    Entities,       \* LegalEntity rows
    Workers,        \* processes that serve the REST endpoints
    Unused, Deleted,    \* in place of a row that is not there
    Nothing,
    Pems,           \* PEM texts that are sent, with what stands before BEGIN
    Malformed,      \* those that hold no certificate
    Breaking,       \* those with an XML metacharacter
    AddressOf,      \* the parts of each legal entity's address
    Start,          \* the rows the registry starts with
    SchemeForms,    \* rows an administrator saves a scheme as
    DetailForms,    \* rows an administrator leaves a provider with
    PartForms,      \* rows an administrator leaves a service with
    ProviderOrders, ServiceOrders,  \* what the two POSTs may choose
    Directories,    \* the TSL directories that are imported
    MaxWrites       \* bound on requests, admin saves, exports and imports

VARIABLES
    \* the database
    scheme,     \* TSLScheme row
    provider,   \* TrustServiceProvider row: scheme, entity, active
    details,    \* its names, trade names and electronic addresses
    service,    \* TrustService row: provider, status, active
    parts,      \* its names, supply points, definition URIs, extensions, history
    cert,       \* ServiceCertificate row: service, pem, subject
    req,        \* the request each worker serves
    \* generator, exported file, import
    pub,        \* the list that is put together
    queue,      \* its providers still to be written
    entries,    \* pairs of provider and service written
    listed,     \* the last list: its scheme and its pairs
    file,       \* the output file of export_tsl
    imp,        \* the import that is running
    \* history
    sure,       \* pairs eligible in every state since the list was begun
    seenProviders, seenServices,    \* providers, pairs of some state since
    cut,        \* rows known to be incomplete: see NamelessHasCause, IdentityMatchesPem
    writes

pubVars   == <<pub, queue, entries, listed>>
watchVars == <<sure, seenProviders, seenServices>>
rowVars   == <<scheme, provider, details, service, parts, cert>>
vars      == <<rowVars, req, pubVars, file, imp, watchVars, cut, writes>>

Statuses     == {"granted", "withdrawn"}
PointerCerts == {"k1", "k2"}

SchemeRow   == [seq : Nat, special : SUBSET SpecialFields, issue : Dates,
                next : Dates \cup {NoDate}, texts : SUBSET SchemeTexts,
                pointers : SUBSET PointerCerts, active : BOOLEAN]
ProviderRow == [scheme : Schemes, entity : Entities, active : BOOLEAN]
ServiceRow  == [provider : Providers, status : Statuses, active : BOOLEAN]
CertRow     == [service : Services, pem : Pems, subject : Pems \cup {Nothing}]
Details     == {"name", "trade", "mail"}
\* Among the names there is one whose language is special: the REST endpoints
\* take any five characters, the forms one of a list.
Raw         == {"raw_language"}
Named       == {"name", "trade", "service_name"}
\* History extensions hang on a history entry.
PartSets    == {q \in SUBSET (Parts \cup {"name"} \cup Raw) :
                    "history_extensions" \in q => "history" \in q}
Absent      == {Unused, Deleted}
Rows        == [scheme : [Schemes -> SchemeRow \cup Absent],
                provider : [Providers -> ProviderRow \cup Absent],
                details : [Providers -> SUBSET (Details \cup Raw)],
                service : [Services -> ServiceRow \cup Absent],
                parts : [Services -> PartSets],
                cert : [Certs -> CertRow \cup Absent]]

ASSUME TslSentinels ==
    /\ Unused # Deleted
    /\ {Unused, Deleted, Nothing} \cap
           (SchemeRow \cup ProviderRow \cup ServiceRow \cup CertRow
            \cup Schemes \cup Providers \cup Services \cup Certs \cup Pems) = {}
ASSUME TslInputs ==
    /\ Schemes \subseteq Nat /\ IsFiniteSet(Schemes) /\ MaxWrites \in Nat
    /\ Malformed \subseteq Pems /\ Breaking \subseteq Pems
    /\ AddressOf \in [Entities -> SUBSET Addresses]
    /\ Start \subseteq Rows
    /\ SchemeForms \subseteq SchemeRow
    /\ DetailForms \subseteq SUBSET Details
    /\ PartForms \subseteq {q \in PartSets : q \cap Raw = {}}
    /\ ProviderOrders \subseteq [extra : SUBSET {"trade", "mail", "initial"}, raw : SUBSET Named]
    /\ ServiceOrders \subseteq [extra : SUBSET {"trade", "mail"}, raw : SUBSET Named,
                                status : Statuses, pem : Pems \cup {Nothing}]
    /\ Directories \subseteq [seq : Nat, special : SUBSET SpecialFields,
                              texts : SUBSET SchemeTexts]

\* The subject of the certificate in a PEM.
SubjectOf(pem) == IF pem \in Malformed THEN Nothing ELSE pem

\* The rows the registry starts with have their names and subjects.
ASSUME TslStartNamed ==
    \A r \in Start :
        /\ \A p \in Providers : r.provider[p] \notin Absent => "name" \in r.details[p]
        /\ \A v \in Services : r.service[v] \notin Absent => "name" \in r.parts[v]
        /\ \A c \in Certs : r.cert[c] \notin Absent => r.cert[c].subject = SubjectOf(r.cert[c].pem)

Present(table, k) == table[k] \notin Absent

\* One organisation appears once per scheme: a constraint of the database.
Registered(s, e, p) ==
    \E q \in Providers \ {p} :
        Present(provider, q) /\ provider[q].scheme = s /\ provider[q].entity = e

ActiveProviders(s) ==
    {p \in Providers : Present(provider, p) /\ provider[p].scheme = s /\ provider[p].active}
ActiveServices(p) ==
    {v \in Services : Present(service, v) /\ service[v].provider = p /\ service[v].active}

CertsOf(v) == {cert[c] : c \in {c \in Certs : Present(cert, c) /\ cert[c].service = v}}

Newest(s) ==
    /\ Present(scheme, s) /\ scheme[s].active
    /\ \A t \in Schemes : t > s => ~(Present(scheme, t) /\ scheme[t].active)

NextKey(s) == scheme[s] = Unused /\ \A t \in Schemes : t < s => scheme[t] # Unused

(***************************************************************************)
(* Requests, lists and imports                                             *)
(***************************************************************************)

Free == [at |-> "free", todo |-> {}, raw |-> {}, status |-> "granted",
         scheme |-> Nothing, entity |-> Nothing, pem |-> Nothing,
         prov |-> Nothing, serv |-> Nothing, cert |-> Nothing, copy |-> Nothing]
NoList == [at |-> "idle", scheme |-> Nothing, row |-> Nothing, format |-> Nothing,
           text |-> "whole"]
NoFile == [text |-> "none", row |-> Nothing, format |-> Nothing]
NoImport == [at |-> "idle", row |-> Nothing, left |-> {}, into |-> Nothing]

InList   == pub.at \in {"providers", "services"}
Holders  == IF InList THEN ActiveProviders(pub.scheme) ELSE {}
Holdings == {h \in Providers \X Services : h[2] \in ActiveServices(h[1])}
Eligible == {h \in Holdings : h[1] \in Holders}

Init ==
    /\ \E r \in Start :
        /\ scheme = r.scheme /\ provider = r.provider /\ details = r.details
        /\ service = r.service /\ parts = r.parts /\ cert = r.cert
    /\ req = [w \in Workers |-> Free]
    /\ pub = NoList /\ queue = {} /\ entries = {}
    /\ listed = [scheme |-> Nothing, pairs |-> {}]
    /\ file = NoFile /\ imp = NoImport
    /\ sure = {} /\ seenProviders = {} /\ seenServices = {}
    /\ cut = {} /\ writes = 0

\* What a write leaves alone, beside the tables.
Quiet == UNCHANGED <<pubVars, file, imp>>
Write == writes < MaxWrites /\ writes' = writes + 1 /\ Quiet

(***************************************************************************)
(* REST: POST, PATCH and DELETE of providers and services                  *)
(***************************************************************************)

\* The inserts of a POST, in the order in which they are made.
InsertOrder == [provider |-> 1, name |-> 2, trade |-> 3, mail |-> 4, initial |-> 5,
                service |-> 6, service_name |-> 7, cert |-> 8]
Inserts == DOMAIN InsertOrder

\* Whether k is the next insert of a request.
Due(r, k) == k \in r.todo /\ \A j \in r.todo : InsertOrder[k] <= InsertOrder[j]

ProviderInserts(extra) == {"provider", "name"} \cup extra

\* Mutant of ServiceInserts: the service is created without its name.
ServiceInsertsUnnamed(pem) == {"service"} \cup IF pem = Nothing THEN {} ELSE {"cert"}

ServiceInserts(pem) ==
    {"service", "service_name"} \cup IF pem = Nothing THEN {} ELSE {"cert"}

\* The serializers look for the organisation in the scheme before the first insert.
Post(w, r) ==
    /\ req[w] = Free /\ Write
    /\ req' = [req EXCEPT ![w] = r]
    /\ UNCHANGED <<rowVars, cut>>

PostProvider(w, s, e, o) ==
    /\ Present(scheme, s) /\ ~Registered(s, e, Nothing)
    /\ Post(w, [Free EXCEPT !.at = "posting", !.scheme = s, !.entity = e, !.raw = o.raw,
                 !.todo = ProviderInserts(o.extra)])

\* An existing provider: the scheme the form names is not compared with its own.
PostService(w, p, o) ==
    /\ Present(provider, p)
    /\ Post(w, [Free EXCEPT !.at = "posting", !.prov = p, !.pem = o.pem,
                 !.status = o.status, !.raw = o.raw, !.todo = ServiceInserts(o.pem)])

PostServiceAndProvider(w, s, e, o) ==
    /\ Present(scheme, s) /\ ~Registered(s, e, Nothing)
    /\ Post(w, [Free EXCEPT !.at = "posting", !.scheme = s, !.entity = e, !.pem = o.pem,
                 !.status = o.status, !.raw = o.raw,
                 !.todo = ProviderInserts(o.extra) \cup ServiceInserts(o.pem)])

\* The next insert of a POST; each one is committed by itself.
Insert(w, k) == req[w].at = "posting" /\ Due(req[w], k) /\ Quiet /\ UNCHANGED writes

\* After the last insert the request is answered.
Inserted(w, k, r) ==
    req' = [req EXCEPT ![w] = IF r.todo = {k} THEN Free ELSE [r EXCEPT !.todo = @ \ {k}]]

InsertProvider(w) ==
    /\ Insert(w, "provider")
    /\ Present(scheme, req[w].scheme)
    /\ ~Registered(req[w].scheme, req[w].entity, Nothing)
    /\ \E p \in Providers :
        /\ provider[p] = Unused
        /\ provider' = [provider EXCEPT ![p] =
               [scheme |-> req[w].scheme, entity |-> req[w].entity, active |-> TRUE]]
        /\ Inserted(w, "provider", [req[w] EXCEPT !.prov = p])
    /\ UNCHANGED <<scheme, details, service, parts, cert, cut>>

\* The language of a name is stored as it was sent.
RawOf(r, k) == IF k \in r.raw THEN Raw ELSE {}

InsertDetail(w, k) ==
    /\ Insert(w, k)
    /\ Present(provider, req[w].prov)
    /\ details' = [details EXCEPT ![req[w].prov] = @ \cup {k} \cup RawOf(req[w], k)]
    /\ Inserted(w, k, req[w])
    /\ UNCHANGED <<scheme, provider, service, parts, cert, cut>>

\* The service form chooses the status.  The initial service of the provider form is
\* granted, the column's default; its service_name is asked for and dropped.
InsertService(w, k) ==
    /\ Insert(w, k)
    /\ Present(provider, req[w].prov)
    /\ \E v \in Services :
        /\ service[v] = Unused
        /\ service' = [service EXCEPT ![v] =
               [provider |-> req[w].prov, status |-> req[w].status, active |-> TRUE]]
        /\ Inserted(w, k, [req[w] EXCEPT !.serv = v])
        /\ cut' = IF k = "initial" THEN cut \cup {v} ELSE cut
    /\ UNCHANGED <<scheme, provider, details, parts, cert>>

InsertServiceName(w) ==
    /\ Insert(w, "service_name")
    /\ Present(service, req[w].serv)
    /\ parts' = [parts EXCEPT ![req[w].serv] =
           @ \cup {"name"} \cup RawOf(req[w], "service_name")]
    /\ Inserted(w, "service_name", req[w])
    /\ UNCHANGED <<scheme, provider, details, service, cert, cut>>

\* extract_metadata_from_pem: what cannot be loaded leaves the columns as they are.
ExtractMetadata(pem, subject) == IF pem \in Malformed THEN subject ELSE pem

\* Mutant of SubjectToSave: the metadata is left to the POST.
SubjectToSaveGiven(pem, subject) == subject

\* ServiceCertificate.save extracts the metadata while there is none.
SubjectToSave(pem, subject) ==
    IF subject = Nothing THEN ExtractMetadata(pem, subject) ELSE subject

SaveCert(c, v, pem, subject) ==
    cert' = [cert EXCEPT ![c] =
        [service |-> v, pem |-> pem, subject |-> SubjectToSave(pem, subject)]]

InsertCert(w) ==
    /\ Insert(w, "cert")
    /\ Present(service, req[w].serv)
    /\ \E c \in Certs :
        /\ cert[c] = Unused /\ SaveCert(c, req[w].serv, req[w].pem, Nothing)
        /\ req' = [req EXCEPT ![w] = [Free EXCEPT !.at = "cert", !.cert = c, !.copy = cert'[c]]]
    /\ UNCHANGED <<scheme, provider, details, service, parts, cut>>

\* The row an insert refers to is gone, or another one took the organisation.
Refused(r) ==
    \/ /\ Due(r, "provider")
       /\ ~Present(scheme, r.scheme) \/ Registered(r.scheme, r.entity, Nothing)
    \/ (\E k \in Details \cup {"service", "initial"} : Due(r, k)) /\ ~Present(provider, r.prov)
    \/ (\E k \in {"service_name", "cert"} : Due(r, k)) /\ ~Present(service, r.serv)

\* Nothing is rolled back: what was inserted stays.
Left(r) == {r.prov, r.serv} \ {Nothing}

Abort(w) ==
    /\ req[w].at = "posting" /\ Refused(req[w])
    /\ req' = [req EXCEPT ![w] = Free]
    /\ cut' = cut \cup Left(req[w])
    /\ Quiet /\ UNCHANGED <<rowVars, writes>>

Crash(w) ==
    /\ req[w] # Free
    /\ req' = [req EXCEPT ![w] = Free]
    /\ cut' = IF req[w].at = "posting" THEN cut \cup Left(req[w]) ELSE cut
    /\ Quiet /\ UNCHANGED <<rowVars, writes>>

\* PATCH of one writable field: the row is loaded and validated.
LoadProvider(w, p, row) ==
    /\ req[w] = Free /\ Write
    /\ Present(provider, p) /\ Present(scheme, row.scheme)
    /\ ~Registered(row.scheme, row.entity, p)
    /\ req' = [req EXCEPT ![w] = [Free EXCEPT !.at = "provider", !.prov = p, !.copy = row]]
    /\ UNCHANGED <<rowVars, cut>>

LoadService(w, v, row) ==
    /\ req[w] = Free /\ Write
    /\ Present(service, v) /\ Present(provider, row.provider)
    /\ req' = [req EXCEPT ![w] = [Free EXCEPT !.at = "service", !.serv = v, !.copy = row]]
    /\ UNCHANGED <<rowVars, cut>>

Save(w, at) ==
    /\ req[w].at = at
    /\ req' = [req EXCEPT ![w] = Free]
    /\ Quiet /\ UNCHANGED writes

\* save() writes every column, and inserts the row again if it is gone; the
\* database refuses a second row for the organisation and a missing scheme.
SaveProvider(w) ==
    /\ Save(w, "provider")
    /\ LET r == req[w] IN
        \/ /\ Present(scheme, r.copy.scheme)
           /\ ~Registered(r.copy.scheme, r.copy.entity, r.prov)
           /\ provider' = [provider EXCEPT ![r.prov] = r.copy]
           /\ cut' = IF Present(provider, r.prov) THEN cut ELSE cut \cup {r.prov}
        \/ /\ \/ ~Present(scheme, r.copy.scheme)
              \/ Registered(r.copy.scheme, r.copy.entity, r.prov)
           /\ UNCHANGED <<provider, cut>>
    /\ UNCHANGED <<scheme, details, service, parts, cert>>

SaveService(w) ==
    /\ Save(w, "service")
    /\ LET r == req[w] IN
        \/ /\ Present(provider, r.copy.provider)
           /\ service' = [service EXCEPT ![r.serv] = r.copy]
           /\ cut' = IF Present(service, r.serv) THEN cut ELSE cut \cup {r.serv}
        \/ /\ ~Present(provider, r.copy.provider)
           /\ UNCHANGED <<service, cut>>
    /\ UNCHANGED <<scheme, provider, details, parts, cert>>

\* The POST extracts the metadata once more and saves the certificate again.
SaveCertAgain(w) ==
    /\ Save(w, "cert")
    /\ LET r == req[w] IN
        \/ /\ Present(service, r.copy.service)
           /\ cert' = [cert EXCEPT ![r.cert] =
                  [r.copy EXCEPT !.subject = ExtractMetadata(r.copy.pem, @)]]
        \/ ~Present(service, r.copy.service) /\ UNCHANGED cert
    /\ UNCHANGED <<scheme, provider, details, service, parts, cut>>

\* Deletions cascade, in one transaction.
Cascade(ps, vs, cs) ==
    /\ Write
    /\ provider' = [p \in Providers |-> IF p \in ps THEN Deleted ELSE provider[p]]
    /\ details'  = [p \in Providers |-> IF p \in ps THEN {} ELSE details[p]]
    /\ service'  = [v \in Services |-> IF v \in vs THEN Deleted ELSE service[v]]
    /\ parts'    = [v \in Services |-> IF v \in vs THEN {} ELSE parts[v]]
    /\ cert'     = [c \in Certs |-> IF c \in cs THEN Deleted ELSE cert[c]]
    /\ UNCHANGED <<req, cut>>

ProvidersOf(s) == {p \in Providers : Present(provider, p) /\ provider[p].scheme = s}
ServicesOf(ps) == {v \in Services : Present(service, v) /\ service[v].provider \in ps}
CertsIn(vs)    == {c \in Certs : Present(cert, c) /\ cert[c].service \in vs}

DeleteScheme(s) ==
    /\ Present(scheme, s)
    /\ scheme' = [scheme EXCEPT ![s] = Deleted]
    /\ Cascade(ProvidersOf(s), ServicesOf(ProvidersOf(s)),
               CertsIn(ServicesOf(ProvidersOf(s))))

DeleteProvider(p) ==
    /\ Present(provider, p)
    /\ Cascade({p}, ServicesOf({p}), CertsIn(ServicesOf({p})))
    /\ UNCHANGED scheme

DeleteService(v) ==
    /\ Present(service, v)
    /\ Cascade({}, {v}, CertsIn({v}))
    /\ UNCHANGED scheme

DeleteCert(c) ==
    /\ Present(cert, c)
    /\ Cascade({}, {}, {c})
    /\ UNCHANGED scheme

(***************************************************************************)
(* Admin forms, each one transaction                                       *)
(***************************************************************************)

AdminSaveScheme(s, r) ==
    /\ Write
    /\ Present(scheme, s) \/ NextKey(s)
    /\ scheme' = [scheme EXCEPT ![s] = r]
    /\ UNCHANGED <<provider, details, service, parts, cert, req, cut>>

AdminSaveProvider(p, row, d) ==
    /\ Write
    /\ provider[p] # Deleted /\ Present(scheme, row.scheme)
    /\ ~Registered(row.scheme, row.entity, p)
    /\ provider' = [provider EXCEPT ![p] = row]
    /\ details' = [details EXCEPT ![p] = d]
    /\ cut' = IF "name" \in d THEN cut ELSE cut \cup {p}
    /\ UNCHANGED <<scheme, service, parts, cert, req>>

AdminSaveService(v, row, q) ==
    /\ Write
    /\ service[v] # Deleted /\ Present(provider, row.provider)
    /\ service' = [service EXCEPT ![v] = row]
    /\ parts' = [parts EXCEPT ![v] = q]
    /\ cut' = IF "name" \in q THEN cut ELSE cut \cup {v}
    /\ UNCHANGED <<scheme, provider, details, cert, req>>

\* The extracted fields are read-only in the form: another PEM does not change them.
Stored(c) == IF Present(cert, c) THEN cert[c].subject ELSE Nothing

AdminSaveCert(c, v, pem) ==
    /\ Write
    /\ cert[c] # Deleted /\ Present(service, v)
    /\ SaveCert(c, v, pem, Stored(c))
    /\ cut' = IF Stored(c) \in {Nothing, pem} THEN cut ELSE cut \cup {c}
    /\ UNCHANGED <<scheme, provider, details, service, parts, req>>

(***************************************************************************)
(* The generators: one query for the providers, one per provider for its   *)
(* services.  Readers do not disturb each other: one list at a time will do *)
(***************************************************************************)

\* What putting a list together leaves alone.
Reads == UNCHANGED <<rowVars, req, imp, cut, writes>>

OpenList(s) ==
    /\ pub = NoList
    /\ Present(scheme, s)
    /\ pub' = [NoList EXCEPT !.at = "providers", !.scheme = s]
    /\ Reads /\ UNCHANGED <<queue, entries, listed, file>>

\* GET of the XML of a scheme, and of the default scheme.
OpenRest(s) == Present(scheme, s) /\ scheme[s].active /\ OpenList(s)

\* Mutant of OpenDefault: the list of any active scheme.
OpenDefaultAny == \E s \in Schemes : OpenRest(s)

OpenDefault == \E s \in Schemes : Newest(s) /\ OpenList(s)

\* The admin's link (etsi) and its action (gotrust): a scheme, active or not.
OpenAdmin(s) == OpenList(s)

\* export_tsl; what it writes of the scheme is what it read here.
OpenExport(s, f) ==
    /\ pub = NoList
    /\ Present(scheme, s)
    /\ pub' = [NoList EXCEPT !.at = "providers", !.scheme = s, !.row = scheme[s], !.format = f]
    /\ writes < MaxWrites /\ writes' = writes + 1
    /\ UNCHANGED <<rowVars, req, imp, cut, queue, entries, listed, file>>

ListProviders ==
    /\ pub.at = "providers"
    /\ queue' = ActiveProviders(pub.scheme)
    /\ pub' = [pub EXCEPT !.at = "services"]
    /\ Reads /\ UNCHANGED <<entries, listed, file>>

\* go-trust writes the languages of names and the lines of a PEM as they are.
Unescaped(p) ==
    \/ details[p] \cap Raw # {}
    \/ \E v \in ActiveServices(p) :
        parts[v] \cap Raw # {} \/ \E x \in CertsOf(v) : x.pem \in Breaking

WriteOf(p) ==
    pub' = IF pub.format = "gotrust" /\ Unescaped(p) THEN [pub EXCEPT !.text = "broken"] ELSE pub

\* Mutant of ListServices: a service with a withdrawn status is left out.
ListServicesGranted(p) ==
    /\ pub.at = "services" /\ p \in queue
    /\ entries' = entries \cup
           {<<p, v>> : v \in {v \in ActiveServices(p) : service[v].status = "granted"}}
    /\ queue' = queue \ {p} /\ WriteOf(p)
    /\ Reads /\ UNCHANGED <<listed, file>>

ListServices(p) ==
    /\ pub.at = "services" /\ p \in queue
    /\ entries' = entries \cup {<<p, v>> : v \in ActiveServices(p)}
    /\ queue' = queue \ {p} /\ WriteOf(p)
    /\ Reads /\ UNCHANGED <<listed, file>>

Complete ==
    /\ pub.at = "services" /\ queue = {}
    /\ listed' = [scheme |-> pub.scheme, pairs |-> entries]
    /\ entries' = {}
    /\ pub' = IF pub.format # Nothing THEN [pub EXCEPT !.at = "truncate"] ELSE NoList
    /\ Reads /\ UNCHANGED <<queue, file>>

\* export_tsl_to_file opens the file for writing, which empties it.
TruncateFile ==
    /\ pub.at = "truncate"
    /\ file' = [NoFile EXCEPT !.text = "truncated"]
    /\ pub' = [pub EXCEPT !.at = "write"]
    /\ Reads /\ UNCHANGED <<queue, entries, listed>>

WriteFile ==
    /\ pub.at = "write"
    /\ file' = [text |-> pub.text, row |-> pub.row, format |-> pub.format]
    /\ pub' = NoList
    /\ Reads /\ UNCHANGED <<queue, entries, listed>>

ExportKilled ==
    /\ pub.at = "write"
    /\ pub' = NoList
    /\ Reads /\ UNCHANGED <<queue, entries, listed, file>>

(***************************************************************************)
(* Imports                                                                 *)
(***************************************************************************)

Import == UNCHANGED <<provider, details, service, parts, cert, req, pubVars, file, cut>>
StartImport ==
    /\ imp = NoImport /\ writes < MaxWrites /\ writes' = writes + 1
    /\ Import /\ UNCHANGED scheme

\* A file that is truncated, or not well formed, is refused before anything is created.
ReadXml ==
    LET h == SchemeElement(file.format, file.row)
        d == DatesElement(file.format, file.row)
    IN /\ StartImport
       /\ file.text = "whole" /\ h.parses
       /\ imp' = [at |-> "scheme", row |-> ImportedScheme(h, d),
                  left |-> ImportedTexts(h), into |-> Nothing]

ReadYaml(y) ==
    /\ StartImport
    /\ imp' = [at |-> "scheme", row |-> YamlScheme(y), left |-> y.texts, into |-> Nothing]

\* Committed at once, and active: the newest active scheme is the default one.
NewScheme ==
    /\ imp.at = "scheme"
    /\ \E s \in Schemes :
        /\ NextKey(s)
        /\ scheme' = [scheme EXCEPT ![s] = imp.row]
        /\ imp' = [imp EXCEPT !.at = "texts", !.into = s]
    /\ Import /\ UNCHANGED writes

ImportText(t) ==
    /\ imp.at = "texts" /\ t \in imp.left /\ Present(scheme, imp.into)
    /\ scheme' = [scheme EXCEPT ![imp.into].texts = @ \cup {t}]
    /\ imp' = [imp EXCEPT !.left = @ \ {t}]
    /\ Import /\ UNCHANGED writes

\* The scheme was deleted or the process killed; or all texts are there and the
\* providers follow.  Creating one raises, as the model has no column for the
\* address it is given: with providers or without, this is where the rows stay.
EndImport ==
    /\ imp.at = "texts"
    /\ imp' = NoImport
    /\ Import /\ UNCHANGED <<scheme, writes>>

(***************************************************************************)
(* Specification                                                           *)
(***************************************************************************)

\* A change of one writable field.
ProviderChanges(row) ==
    {[row EXCEPT !.scheme = s] : s \in Schemes} \cup {[row EXCEPT !.entity = e] : e \in Entities}
    \cup {[row EXCEPT !.active = ~@]}
ServiceChanges(row) ==
    {[row EXCEPT !.provider = p] : p \in Providers} \cup {[row EXCEPT !.status = x] : x \in Statuses}
    \cup {[row EXCEPT !.active = ~@]}

\* An administrator adds any active row, and changes at most one field at a time.
ProviderForms(p) ==
    IF Present(provider, p) THEN ProviderChanges(provider[p])
    ELSE {row \in ProviderRow : row.active}
ServiceForms(v) ==
    IF Present(service, v) THEN ServiceChanges(service[v])
    ELSE {row \in ServiceRow : row.active}

Request(w) ==
    \/ \E s \in Schemes, e \in Entities :
        \/ \E o \in ProviderOrders : PostProvider(w, s, e, o)
        \/ \E o \in ServiceOrders : PostServiceAndProvider(w, s, e, o)
    \/ \E p \in Providers :
        \/ \E o \in ServiceOrders : PostService(w, p, o)
        \/ /\ Present(provider, p)
           /\ \E row \in ProviderChanges(provider[p]) \ {provider[p]} : LoadProvider(w, p, row)
    \/ \E v \in Services :
        /\ Present(service, v)
        /\ \E row \in ServiceChanges(service[v]) \ {service[v]} : LoadService(w, v, row)

Serve(w) ==
    \/ InsertProvider(w) \/ \E k \in Details : InsertDetail(w, k)
    \/ \E k \in {"service", "initial"} : InsertService(w, k)
    \/ InsertServiceName(w) \/ InsertCert(w) \/ Abort(w)
    \/ SaveProvider(w) \/ SaveService(w) \/ SaveCertAgain(w)

Delete ==
    \/ \E s \in Schemes : DeleteScheme(s)
    \/ \E p \in Providers : DeleteProvider(p)
    \/ \E v \in Services : DeleteService(v)
    \/ \E c \in Certs : DeleteCert(c)

Administer ==
    \/ \E s \in Schemes, r \in SchemeForms : AdminSaveScheme(s, r)
    \/ \E p \in Providers, d \in DetailForms : \E row \in ProviderForms(p) : AdminSaveProvider(p, row, d)
    \/ \E v \in Services, q \in PartForms : \E row \in ServiceForms(v) : AdminSaveService(v, row, q)
    \/ \E c \in Certs, v \in Services, pem \in Pems : AdminSaveCert(c, v, pem)

Open ==
    \/ OpenDefault
    \/ \E s \in Schemes : OpenRest(s) \/ OpenAdmin(s)
    \/ \E s \in Schemes, f \in {"gotrust", "standard"} : OpenExport(s, f)

Generate == ListProviders \/ (\E p \in Providers : ListServices(p)) \/ Complete

Export == TruncateFile \/ WriteFile \/ ExportKilled

RunImport ==
    \/ ReadXml \/ (\E y \in Directories : ReadYaml(y))
    \/ NewScheme \/ (\E t \in SchemeTexts : ImportText(t)) \/ EndImport

Step ==
    \/ \E w \in Workers : Request(w) \/ Serve(w) \/ Crash(w)
    \/ Delete \/ Administer \/ Open \/ Generate \/ Export \/ RunImport

\* History: what was eligible since the list was begun.
Watch ==
    /\ sure' = IF ~InList' THEN {} ELSE IF InList THEN sure \cap Eligible' ELSE Eligible'
    /\ seenProviders' = IF ~InList' THEN {}
                        ELSE IF InList THEN seenProviders \cup Holders' ELSE Holders'
    /\ seenServices' = IF ~InList' THEN {}
                       ELSE IF InList THEN seenServices \cup Holdings' ELSE Holdings'

Next == Step /\ Watch

\* A request for a list runs to its end, and the default list is asked for again
\* and again.  An export may be killed, a POST or an import may stop anywhere.
Fairness ==
    /\ WF_vars((Generate \/ Export) /\ Watch)
    /\ SF_vars(OpenDefault /\ Watch)

Spec == Init /\ [][Next]_vars /\ Fairness

(***************************************************************************)
(* Properties                                                              *)
(***************************************************************************)

ReqType ==
    [at : {"free", "posting", "provider", "service", "cert"},
     todo : SUBSET Inserts, raw : SUBSET Named, status : Statuses,
     scheme : Schemes \cup {Nothing}, entity : Entities \cup {Nothing},
     pem : Pems \cup {Nothing}, prov : Providers \cup {Nothing},
     serv : Services \cup {Nothing}, cert : Certs \cup {Nothing},
     copy : ProviderRow \cup ServiceRow \cup CertRow \cup {Nothing}]

\* Every variable has its type: the columns of the rows, what a request and a
\* list in the making carry, and the history.
TslTypeOK ==
    /\ scheme \in [Schemes -> SchemeRow \cup Absent]
    /\ provider \in [Providers -> ProviderRow \cup Absent]
    /\ details \in [Providers -> SUBSET (Details \cup Raw)]
    /\ service \in [Services -> ServiceRow \cup Absent]
    /\ parts \in [Services -> PartSets]
    /\ cert \in [Certs -> CertRow \cup Absent]
    /\ req \in [Workers -> ReqType]
    /\ pub \in [at : {"idle", "providers", "services", "truncate", "write"},
               scheme : Schemes \cup {Nothing}, row : SchemeRow \cup {Nothing},
               format : Formats \cup {Nothing}, text : {"whole", "broken"}]
    /\ queue \subseteq Providers
    /\ entries \subseteq Providers \X Services
    /\ listed \in [scheme : Schemes \cup {Nothing}, pairs : SUBSET (Providers \X Services)]
    /\ file \in [text : {"none", "truncated", "whole", "broken"}, row : SchemeRow \cup {Nothing},
                format : Formats \cup {Nothing}]
    /\ imp \in [at : {"idle", "scheme", "texts"}, row : SchemeRow \cup {Nothing},
               left : SUBSET SchemeTexts, into : Schemes \cup {Nothing}]
    /\ sure \subseteq Providers \X Services
    /\ seenProviders \subseteq Providers
    /\ seenServices \subseteq Providers \X Services
    /\ cut \subseteq Providers \cup Services \cup Certs
    /\ writes \in 0..MaxWrites

\* A list, put together in a query for the providers and one for the services of
\* each, has every service that was active all the while under a provider that
\* was active in the scheme all the while, and no pair that was never there.  A
\* service that is moved meanwhile may be listed twice or not at all.
Published == INSTANCE PublishedList WITH
    holders <- Holders, holdings <- Holdings, open <- InList, sure <- sure,
    seenHolders <- seenProviders, seenHoldings <- seenServices, out <- listed.pairs
PublishedSpec == Published!Spec

\* The subject name published with a certificate is that of its PEM, as
\* extract_metadata_from_pem found it, across POSTs that save the row twice, forms
\* that saved it meanwhile and PEMs put right later.  The exception is a row whose
\* subject was there when an administrator gave it another PEM.
IdentityMatchesPem ==
    \A c \in Certs : Present(cert, c) /\ c \notin cut => cert[c].subject = SubjectOf(cert[c].pem)

\* A provider or service without a name is one whose POST has still to insert it,
\* or one that is known to be cut: its POST failed or died halfway, a save that
\* overlapped its deletion inserted it again, an administrator left the name out,
\* or it is the initial service of a provider, whose name the form drops.
NamelessHasCause ==
    /\ \A p \in Providers :
        Present(provider, p) /\ "name" \notin details[p] /\ p \notin cut =>
            \E w \in Workers : /\ req[w].at = "posting" /\ req[w].prov = p
                              /\ Due(req[w], "name")
    /\ \A v \in Services :
        Present(service, v) /\ "name" \notin parts[v] /\ v \notin cut =>
            \E w \in Workers : /\ req[w].at = "posting" /\ req[w].serv = v
                              /\ Due(req[w], "service_name")

\* The three formats agree: on what hangs on a provider (a postal address without
\* a street is dropped by all), on the certificates of the pointers, and on the
\* status, names and certificates of a service.  Of its other rows, none is lost to
\* all formats.
EveryRowPublished ==
    /\ \A p \in Providers : Present(provider, p) =>
        LET e(f) == ProviderElement(f, details[p], AddressOf[provider[p].entity])
        IN \A f \in Formats :
            /\ [e(f) EXCEPT !.address = TRUE] = e("etsi")
            /\ e(f).address \/ e(f).postal \cup e(f).mail = {}
    /\ \A s \in Schemes, f \in Formats : Present(scheme, s) =>
        UNION Identities(f, scheme[s].pointers) = scheme[s].pointers
    /\ \A v \in Services : Present(service, v) =>
        LET e(f) == ServiceElement(f, service[v], parts[v], CertsOf(v))
        IN /\ parts[v] \ ({"name"} \cup Raw) = UNION {e(f).parts : f \in Formats}
           /\ \A f \in Formats :
                /\ e(f).status = service[v].status
                /\ e(f).names = parts[v] \cap {"name"}
                /\ {i.pem : i \in e(f).identities} = {x.pem : x \in CertsOf(v)}

\* What is exported of a scheme comes back when it is imported: the number, all
\* texts, the fields that are read and, from the formats that write dates as
\* _parse_datetime expects them, the dates to the second.  (Those of the standard
\* format it does not understand.)
RoundTrip ==
    \A s \in Schemes, f \in Formats :
        Present(scheme, s) /\ SchemeElement(f, scheme[s]).parses =>
            LET h == SchemeElement(f, scheme[s])
                back == ImportedScheme(h, DatesElement(f, scheme[s]))
            IN /\ back.seq = scheme[s].seq
               /\ back.texts \cup ImportedTexts(h) = scheme[s].texts
               /\ back.special = scheme[s].special \cap ReadBack
               /\ f # "standard" => /\ back.issue.second = scheme[s].issue.second
                                  /\ back.next.second = scheme[s].next.second

\* A service that stays active under an active provider of the scheme that stays
\* the default one is published again and again.
EligibleGetsListed ==
    \A s \in Schemes, p \in Providers, v \in Services :
        <>[](Newest(s) /\ p \in ActiveProviders(s) /\ v \in ActiveServices(p)) =>
            []<>(listed.scheme = s /\ <<p, v>> \in listed.pairs)

=============================================================================
