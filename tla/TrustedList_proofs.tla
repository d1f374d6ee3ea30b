------------------------- MODULE TrustedList_proofs -------------------------
(***************************************************************************)
(* Proofs about TrustedList, for any sets of rows, workers and entities,   *)
(* any rows to start with and any bound on the writes.                     *)
(***************************************************************************)
EXTENDS TrustedList, TLAPS

(***************************************************************************)
(* The inductive invariant                                                 *)
(***************************************************************************)

\* What a request knows: where its inserts go, once the row they hang on has
\* been inserted; the rows a save writes.
Sound(r) ==
    /\ r.at = "posting" =>
        /\ "provider" \in r.todo => r.scheme \in Schemes /\ r.entity \in Entities /\ "name" \in r.todo
        /\ "provider" \notin r.todo /\ r.todo \cap {"name", "trade", "mail", "initial", "service"} # {}
               => r.prov \in Providers
        /\ "service" \in r.todo => "service_name" \in r.todo
        /\ "service" \notin r.todo /\ r.todo \cap {"service_name", "cert"} # {} => r.serv \in Services
        /\ "cert" \in r.todo => r.pem \in Pems
    /\ r.at = "provider" => r.prov \in Providers /\ r.copy \in ProviderRow
    /\ r.at = "service" => r.serv \in Services /\ r.copy \in ServiceRow
    /\ r.at = "cert" => /\ r.cert \in Certs /\ r.copy \in CertRow
                       /\ r.copy.subject = SubjectOf(r.copy.pem)

ReqOK == req \in [Workers -> ReqType] /\ \A w \in Workers : Sound(req[w])

\* What an export, its file and an import carry from one step to the next.
CarriedOK ==
    /\ pub.format # Nothing => pub.row \in SchemeRow
    /\ pub.at \in {"truncate", "write"} => pub.format # Nothing
    /\ file.text \in {"whole", "broken"} => file.row \in SchemeRow /\ file.format \in Formats
    /\ imp.at = "scheme" => imp.row \in SchemeRow
    /\ imp.at = "texts" => imp.into \in Schemes

TslInv == TslTypeOK /\ ReqOK /\ CarriedOK

\* The order of the inserts, as far as the proofs use it.
LEMMA DueOrder ==
    ASSUME NEW r \in ReqType, NEW k \in Inserts, Due(r, k)
    PROVE  /\ k \in r.todo
           /\ k # "provider" => "provider" \notin r.todo
           /\ k = "provider" => \A j \in r.todo : InsertOrder["provider"] <= InsertOrder[j]
           /\ k \in {"service_name", "cert"} => "service" \notin r.todo
           /\ k = "service" => r.todo \subseteq {"service", "service_name", "cert"}
           /\ "name" \in r.todo /\ k # "provider" => k = "name"
           /\ "service_name" \in r.todo /\ k = "cert" => FALSE
<1> USE DEF Due, Inserts, InsertOrder, ReqType
<1>1. k \in {"provider", "name", "trade", "mail", "initial", "service", "service_name", "cert"}
  OBVIOUS
<1>2. r.todo \subseteq {"provider", "name", "trade", "mail", "initial", "service", "service_name", "cert"}
  OBVIOUS
<1>3. k \in r.todo /\ \A j \in r.todo : InsertOrder[k] <= InsertOrder[j]
  OBVIOUS
<1>4. k # "provider" => "provider" \notin r.todo
  BY <1>1, <1>3
<1>5. k \in {"service_name", "cert"} => "service" \notin r.todo
  BY <1>3
<1>6. k = "service" => r.todo \subseteq {"service", "service_name", "cert"}
  BY <1>2, <1>3
<1>7. "name" \in r.todo /\ k # "provider" => k = "name"
  BY <1>1, <1>3
<1>8. "service_name" \in r.todo /\ k = "cert" => FALSE
  BY <1>3
<1>9. QED BY <1>3, <1>4, <1>5, <1>6, <1>7, <1>8

LEMMA RequestStays ==
    ASSUME TslInv, req' = req
    PROVE  ReqOK'
BY DEF TslInv, ReqOK

\* A step of one worker: only its own request has to be looked at.
LEMMA RequestStep ==
    ASSUME TslInv, NEW w \in Workers, NEW r \in ReqType, Sound(r),
           req' = [req EXCEPT ![w] = r]
    PROVE  ReqOK'
<1>1. req \in [Workers -> ReqType] /\ \A v \in Workers : Sound(req[v])
  BY DEF TslInv, ReqOK
<1>2. req' \in [Workers -> ReqType]
  BY <1>1
<1>3. \A v \in Workers : req'[v] = IF v = w THEN r ELSE req[v]
  BY <1>1
<1>4. QED BY <1>1, <1>2, <1>3 DEF ReqOK

LEMMA FreeSound == Free \in ReqType /\ Sound(Free)
BY DEF Free, ReqType, Sound, Statuses

-----------------------------------------------------------------------------
(***************************************************************************)
(* The requests                                                            *)
(***************************************************************************)

LEMMA PostProviderOK ==
    ASSUME TslInv, NEW w \in Workers, NEW s \in Schemes, NEW e \in Entities,
           NEW o \in ProviderOrders, PostProvider(w, s, e, o)
    PROVE  ReqOK'
<1> USE DEF Free, ReqType, Sound
<1> DEFINE r == [Free EXCEPT !.at = "posting", !.scheme = s, !.entity = e, !.raw = o.raw,
                      !.todo = ProviderInserts(o.extra)]
<1>0. o.extra \subseteq {"trade", "mail", "initial"} /\ o.raw \subseteq Named
  BY TslInputs
<1>1. ProviderInserts(o.extra) \subseteq {"provider", "name", "trade", "mail", "initial"}
      /\ {"provider", "name"} \subseteq ProviderInserts(o.extra)
  BY <1>0 DEF ProviderInserts
<1>2. r \in ReqType
  BY <1>0, <1>1 DEF Inserts, InsertOrder, Statuses
<1>3. Sound(r)
  BY <1>1
<1>4. req' = [req EXCEPT ![w] = r]
  BY DEF PostProvider, Post
<1>5. QED BY <1>2, <1>3, <1>4, RequestStep

LEMMA PostServiceOK ==
    ASSUME TslInv, NEW w \in Workers, NEW p \in Providers,
           NEW o \in ServiceOrders, PostService(w, p, o)
    PROVE  ReqOK'
<1> USE DEF Free, ReqType, Sound
<1> DEFINE r == [Free EXCEPT !.at = "posting", !.prov = p, !.pem = o.pem,
                      !.status = o.status, !.raw = o.raw, !.todo = ServiceInserts(o.pem)]
<1>1. o.pem \in Pems \cup {Nothing} /\ o.status \in Statuses /\ o.raw \subseteq Named
  BY TslInputs
<1>2. /\ ServiceInserts(o.pem) \subseteq {"service", "service_name", "cert"}
      /\ {"service", "service_name"} \subseteq ServiceInserts(o.pem)
      /\ "cert" \in ServiceInserts(o.pem) => o.pem \in Pems
  BY <1>1 DEF ServiceInserts
<1>3. r \in ReqType
  BY <1>1, <1>2 DEF Inserts, InsertOrder
<1>4. Sound(r)
  BY <1>2
<1>5. req' = [req EXCEPT ![w] = r]
  BY DEF PostService, Post
<1>6. QED BY <1>3, <1>4, <1>5, RequestStep

LEMMA PostServiceAndProviderOK ==
    ASSUME TslInv, NEW w \in Workers, NEW s \in Schemes, NEW e \in Entities,
           NEW o \in ServiceOrders, PostServiceAndProvider(w, s, e, o)
    PROVE  ReqOK'
<1> USE DEF Free, ReqType, Sound
<1> DEFINE r == [Free EXCEPT !.at = "posting", !.scheme = s, !.entity = e, !.pem = o.pem,
                      !.status = o.status, !.raw = o.raw, !.todo = ProviderInserts(o.extra) \cup ServiceInserts(o.pem)]
<1>1. /\ o.pem \in Pems \cup {Nothing} /\ o.extra \subseteq {"trade", "mail"}
      /\ o.status \in Statuses /\ o.raw \subseteq Named
  BY TslInputs
<1>2. /\ r.todo \subseteq {"provider", "name", "trade", "mail", "service", "service_name", "cert"}
      /\ {"provider", "name", "service", "service_name"} \subseteq r.todo
      /\ "cert" \in r.todo => o.pem \in Pems
  BY <1>1 DEF ServiceInserts, ProviderInserts
<1>3. r \in ReqType
  BY <1>1, <1>2 DEF Inserts, InsertOrder
<1>4. Sound(r)
  BY <1>2
<1>5. req' = [req EXCEPT ![w] = r]
  BY DEF PostServiceAndProvider, Post
<1>6. QED BY <1>3, <1>4, <1>5, RequestStep

\* A step that ends a request.
LEMMA EndOK ==
    ASSUME TslInv, NEW w \in Workers, req' = [req EXCEPT ![w] = Free]
    PROVE  ReqOK'
BY RequestStep, FreeSound

LEMMA InsertedOK ==
    ASSUME TslInv, NEW w \in Workers, NEW k, NEW r \in ReqType, Inserted(w, k, r),
           Sound([r EXCEPT !.todo = @ \ {k}])
    PROVE  ReqOK'
<1>1. [r EXCEPT !.todo = @ \ {k}] \in ReqType
  BY DEF ReqType
<1>2. CASE r.todo = {k}
  BY <1>2, EndOK DEF Inserted
<1>3. CASE r.todo # {k}
  BY <1>1, <1>3, RequestStep DEF Inserted
<1>4. QED BY <1>2, <1>3

\* The request of a worker at an insert.
LEMMA InsertFacts ==
    ASSUME TslInv, NEW w \in Workers, NEW k \in Inserts, Insert(w, k)
    PROVE  /\ req[w] \in ReqType /\ Sound(req[w]) /\ req[w].at = "posting"
           /\ Due(req[w], k) /\ k \in req[w].todo
BY DEF TslInv, ReqOK, Insert, Due

LEMMA InsertProviderOK ==
    ASSUME TslInv, NEW w \in Workers, InsertProvider(w)
    PROVE  ReqOK'
<1>0. "provider" \in Inserts
  BY DEF Inserts, InsertOrder
<1>1. req[w] \in ReqType /\ Sound(req[w]) /\ req[w].at = "posting" /\ "provider" \in req[w].todo
  BY <1>0, InsertFacts DEF InsertProvider
<1>2. PICK p \in Providers : Inserted(w, "provider", [req[w] EXCEPT !.prov = p])
  BY DEF InsertProvider
<1> DEFINE r == [req[w] EXCEPT !.prov = p]
<1>3. r \in ReqType
  BY <1>1 DEF ReqType
<1>4. Sound([r EXCEPT !.todo = @ \ {"provider"}])
  BY <1>1 DEF ReqType, Sound
<1>5. QED BY <1>2, <1>3, <1>4, InsertedOK

LEMMA InsertDetailOK ==
    ASSUME TslInv, NEW w \in Workers, NEW k \in Details, InsertDetail(w, k)
    PROVE  ReqOK'
<1>0. k \in Inserts /\ k \in {"name", "trade", "mail"}
  BY DEF Inserts, InsertOrder, Details
<1>1. req[w] \in ReqType /\ Sound(req[w]) /\ req[w].at = "posting" /\ Due(req[w], k) /\ k \in req[w].todo
  BY <1>0, InsertFacts DEF InsertDetail
<1>2. "provider" \notin req[w].todo
  BY <1>0, <1>1, DueOrder
<1>3. Sound([req[w] EXCEPT !.todo = @ \ {k}])
  BY <1>0, <1>1, <1>2 DEF ReqType, Sound
<1>4. Inserted(w, k, req[w])
  BY DEF InsertDetail
<1>5. QED BY <1>1, <1>3, <1>4, InsertedOK

LEMMA InsertServiceOK ==
    ASSUME TslInv, NEW w \in Workers, NEW k \in {"service", "initial"}, InsertService(w, k)
    PROVE  ReqOK'
<1>0. k \in Inserts
  BY DEF Inserts, InsertOrder
<1>1. req[w] \in ReqType /\ Sound(req[w]) /\ req[w].at = "posting" /\ Due(req[w], k) /\ k \in req[w].todo
  BY <1>0, InsertFacts DEF InsertService
<1>2. "provider" \notin req[w].todo
  BY <1>0, <1>1, DueOrder
<1>3. PICK v \in Services : Inserted(w, k, [req[w] EXCEPT !.serv = v])
  BY DEF InsertService
<1> DEFINE r == [req[w] EXCEPT !.serv = v]
<1>4. r \in ReqType
  BY <1>1 DEF ReqType
<1>5. Sound([r EXCEPT !.todo = @ \ {k}])
  BY <1>1, <1>2 DEF ReqType, Sound
<1>6. QED BY <1>3, <1>4, <1>5, InsertedOK

LEMMA InsertServiceNameOK ==
    ASSUME TslInv, NEW w \in Workers, InsertServiceName(w)
    PROVE  ReqOK'
<1>0. "service_name" \in Inserts
  BY DEF Inserts, InsertOrder
<1>1. /\ req[w] \in ReqType /\ Sound(req[w]) /\ req[w].at = "posting"
      /\ Due(req[w], "service_name") /\ "service_name" \in req[w].todo
  BY <1>0, InsertFacts DEF InsertServiceName
<1>2. "provider" \notin req[w].todo /\ "service" \notin req[w].todo
  BY <1>0, <1>1, DueOrder
<1>3. Sound([req[w] EXCEPT !.todo = @ \ {"service_name"}])
  BY <1>1, <1>2 DEF ReqType, Sound
<1>4. Inserted(w, "service_name", req[w])
  BY DEF InsertServiceName
<1>5. QED BY <1>1, <1>3, <1>4, InsertedOK

\* What SaveCert leaves in the table.
LEMMA SaveCertOK ==
    ASSUME cert \in [Certs -> CertRow \cup Absent],
           NEW c \in Certs, NEW v \in Services, NEW pem \in Pems,
           NEW subject \in Pems \cup {Nothing}, SaveCert(c, v, pem, subject)
    PROVE  /\ cert' \in [Certs -> CertRow \cup Absent]
           /\ cert'[c].pem = pem /\ cert'[c].subject = SubjectToSave(pem, subject)
           /\ cert'[c] \in CertRow
           /\ \A d \in Certs \ {c} : cert'[d] = cert[d]
<1>1. PICK row : row = [service |-> v, pem |-> pem, subject |-> SubjectToSave(pem, subject)]
  OBVIOUS
<1>2. row \in CertRow /\ row.pem = pem /\ row.subject = SubjectToSave(pem, subject)
  BY <1>1, TslInputs DEF SubjectToSave, ExtractMetadata, CertRow
<1>3. cert' = [cert EXCEPT ![c] = row]
  BY <1>1 DEF SaveCert
<1>4. QED BY <1>2, <1>3

LEMMA InsertCertOK ==
    ASSUME TslInv, NEW w \in Workers, InsertCert(w)
    PROVE  /\ ReqOK'
           /\ req[w].serv \in Services /\ req[w].pem \in Pems
<1>0. "cert" \in Inserts
  BY DEF Inserts, InsertOrder
<1>1. req[w] \in ReqType /\ Sound(req[w]) /\ req[w].at = "posting" /\ Due(req[w], "cert") /\ "cert" \in req[w].todo
  BY <1>0, InsertFacts DEF InsertCert
<1>2. "provider" \notin req[w].todo /\ "service" \notin req[w].todo
  BY <1>0, <1>1, DueOrder
<1>3. req[w].serv \in Services /\ req[w].pem \in Pems
  BY <1>1, <1>2 DEF Sound
<1>4. PICK c \in Certs :
        /\ SaveCert(c, req[w].serv, req[w].pem, Nothing)
        /\ req' = [req EXCEPT ![w] = [Free EXCEPT !.at = "cert", !.cert = c, !.copy = cert'[c]]]
  BY DEF InsertCert
<1>5. cert'[c] \in CertRow /\ cert'[c].subject = SubjectOf(cert'[c].pem)
  <2>1. SubjectToSave(req[w].pem, Nothing) = SubjectOf(req[w].pem)
    BY DEF SubjectToSave, ExtractMetadata, SubjectOf
  <2>2. cert \in [Certs -> CertRow \cup Absent]
    BY DEF TslInv, TslTypeOK
  <2>3. cert'[c] \in CertRow /\ cert'[c].pem = req[w].pem
        /\ cert'[c].subject = SubjectToSave(req[w].pem, Nothing)
    BY <1>3, <1>4, <2>2, SaveCertOK
  <2>4. QED BY <2>1, <2>3
<1> DEFINE r == [Free EXCEPT !.at = "cert", !.cert = c, !.copy = cert'[c]]
<1>6. r \in ReqType /\ Sound(r)
  BY <1>5 DEF ReqType, Sound, Free, Statuses
<1>7. QED BY <1>3, <1>4, <1>6, RequestStep

LEMMA LoadProviderOK ==
    ASSUME TslInv, NEW w \in Workers, NEW p \in Providers, NEW row \in ProviderRow, LoadProvider(w, p, row)
    PROVE  ReqOK'
<1> DEFINE r == [Free EXCEPT !.at = "provider", !.prov = p, !.copy = row]
<1>1. r \in ReqType /\ Sound(r)
  BY DEF ReqType, Sound, Free, Statuses
<1>2. QED BY <1>1, RequestStep DEF LoadProvider

LEMMA LoadServiceOK ==
    ASSUME TslInv, NEW w \in Workers, NEW v \in Services, NEW row \in ServiceRow, LoadService(w, v, row)
    PROVE  ReqOK'
<1> DEFINE r == [Free EXCEPT !.at = "service", !.serv = v, !.copy = row]
<1>1. r \in ReqType /\ Sound(r)
  BY DEF ReqType, Sound, Free, Statuses
<1>2. QED BY <1>1, RequestStep DEF LoadService

-----------------------------------------------------------------------------
(***************************************************************************)
(* The rows                                                                *)
(***************************************************************************)

RowsOK ==
    /\ scheme \in [Schemes -> SchemeRow \cup Absent]
    /\ provider \in [Providers -> ProviderRow \cup Absent]
    /\ details \in [Providers -> SUBSET (Details \cup Raw)]
    /\ service \in [Services -> ServiceRow \cup Absent]
    /\ parts \in [Services -> PartSets]
    /\ cert \in [Certs -> CertRow \cup Absent]
    /\ cut \subseteq Providers \cup Services \cup Certs

LEMMA PartSetsClosed ==
    {} \in PartSets /\ \A q \in PartSets, k \in SUBSET Raw : q \cup {"name"} \cup k \in PartSets
BY DEF PartSets, Raw

LEMMA RawOfType == \A r, k : RawOf(r, k) \subseteq Raw
BY DEF RawOf

LEMMA RequestRows ==
    ASSUME TslInv, NEW w \in Workers, Request(w)
    PROVE  RowsOK' /\ ReqOK'
<1>1. RowsOK
  BY DEF TslInv, TslTypeOK, RowsOK
<1>2. ASSUME NEW s \in Schemes, NEW e \in Entities, NEW o \in ProviderOrders,
             PostProvider(w, s, e, o)
      PROVE  RowsOK' /\ ReqOK'
  <2>1. UNCHANGED <<rowVars, cut>>
    BY <1>2 DEF PostProvider, Post
  <2>2. QED BY <1>1, <1>2, <2>1, PostProviderOK DEF RowsOK, rowVars
<1>3. ASSUME NEW s \in Schemes, NEW e \in Entities, NEW o \in ServiceOrders,
             PostServiceAndProvider(w, s, e, o)
      PROVE  RowsOK' /\ ReqOK'
  <2>1. UNCHANGED <<rowVars, cut>>
    BY <1>3 DEF PostServiceAndProvider, Post
  <2>2. QED BY <1>1, <1>3, <2>1, PostServiceAndProviderOK DEF RowsOK, rowVars
<1>4. ASSUME NEW p \in Providers, NEW o \in ServiceOrders, PostService(w, p, o)
      PROVE  RowsOK' /\ ReqOK'
  <2>1. UNCHANGED <<rowVars, cut>>
    BY <1>4 DEF PostService, Post
  <2>2. QED BY <1>1, <1>4, <2>1, PostServiceOK DEF RowsOK, rowVars
<1>5. ASSUME NEW p \in Providers, Present(provider, p),
             NEW row \in ProviderChanges(provider[p]), LoadProvider(w, p, row)
      PROVE  RowsOK' /\ ReqOK'
  <2>1. row \in ProviderRow
    <3>1. provider[p] \in ProviderRow
      BY <1>1, <1>5 DEF RowsOK, Present
    <3>2. QED BY <3>1 DEF ProviderChanges, ProviderRow
  <2>2. UNCHANGED <<rowVars, cut>>
    BY <1>5 DEF LoadProvider
  <2>3. QED BY <1>1, <1>5, <2>1, <2>2, LoadProviderOK DEF RowsOK, rowVars
<1>6. ASSUME NEW v \in Services, Present(service, v),
             NEW row \in ServiceChanges(service[v]), LoadService(w, v, row)
      PROVE  RowsOK' /\ ReqOK'
  <2>1. row \in ServiceRow
    <3>1. service[v] \in ServiceRow
      BY <1>1, <1>6 DEF RowsOK, Present
    <3>2. QED BY <3>1 DEF ServiceChanges, ServiceRow
  <2>2. UNCHANGED <<rowVars, cut>>
    BY <1>6 DEF LoadService
  <2>3. QED BY <1>1, <1>6, <2>1, <2>2, LoadServiceOK DEF RowsOK, rowVars
<1>7. QED BY <1>2, <1>3, <1>4, <1>5, <1>6 DEF Request

\* Where the inserts go.
LEMMA InsertTarget ==
    ASSUME TslInv, NEW w \in Workers, NEW k \in Inserts, Insert(w, k)
    PROVE  /\ k = "provider" => req[w].scheme \in Schemes /\ req[w].entity \in Entities
           /\ k \in {"name", "trade", "mail", "initial", "service"} => req[w].prov \in Providers
           /\ k \in {"service_name", "cert"} => req[w].serv \in Services
<1>1. req[w] \in ReqType /\ Sound(req[w]) /\ req[w].at = "posting" /\ Due(req[w], k) /\ k \in req[w].todo
  BY InsertFacts
<1>2. k # "provider" => "provider" \notin req[w].todo
  BY <1>1, DueOrder
<1>3. k \in {"service_name", "cert"} => "service" \notin req[w].todo
  BY <1>1, DueOrder
<1>4. QED BY <1>1, <1>2, <1>3 DEF Sound

LEMMA InsertRows ==
    ASSUME TslInv, NEW w \in Workers,
           \/ InsertProvider(w) \/ \E k \in Details : InsertDetail(w, k)
           \/ \E k \in {"service", "initial"} : InsertService(w, k)
           \/ InsertServiceName(w) \/ InsertCert(w)
    PROVE  RowsOK' /\ ReqOK'
<1>1. RowsOK
  BY DEF TslInv, TslTypeOK, RowsOK
<1>2. /\ {"provider", "name", "trade", "mail", "initial", "service", "service_name", "cert"} \subseteq Inserts
      /\ Details = {"name", "trade", "mail"}
  BY DEF Inserts, InsertOrder, Details
<1>3. CASE InsertProvider(w)
  <2>1. req[w].scheme \in Schemes /\ req[w].entity \in Entities
    BY <1>2, <1>3, InsertTarget DEF InsertProvider
  <2>2. [scheme |-> req[w].scheme, entity |-> req[w].entity, active |-> TRUE] \in ProviderRow
    BY <2>1 DEF ProviderRow
  <2>3. RowsOK'
    BY <1>1, <1>3, <2>2 DEF InsertProvider, RowsOK
  <2>4. QED BY <1>3, <2>3, InsertProviderOK
<1>4. ASSUME NEW k \in Details, InsertDetail(w, k) PROVE RowsOK' /\ ReqOK'
  <2>1. RowsOK'
    BY <1>1, <1>4, RawOfType DEF InsertDetail, RowsOK
  <2>2. QED BY <1>4, <2>1, InsertDetailOK
<1>5. ASSUME NEW k \in {"service", "initial"}, InsertService(w, k) PROVE RowsOK' /\ ReqOK'
  <2>1. req[w].prov \in Providers
    BY <1>2, <1>5, InsertTarget DEF InsertService
  <2>2. [provider |-> req[w].prov, status |-> req[w].status, active |-> TRUE] \in ServiceRow
    BY <2>1 DEF ServiceRow, TslInv, ReqOK, ReqType
  <2>3. RowsOK'
    BY <1>1, <1>5, <2>2 DEF InsertService, RowsOK
  <2>4. QED BY <1>5, <2>3, InsertServiceOK
<1>6. CASE InsertServiceName(w)
  <2> DEFINE v == req[w].serv
             raw == RawOf(req[w], "service_name")
  <2>0. parts' = [parts EXCEPT ![v] = @ \cup {"name"} \cup raw]
        /\ UNCHANGED <<scheme, provider, details, service, cert, cut>>
    BY <1>6 DEF InsertServiceName
  <2>a. raw \in SUBSET Raw
    BY RawOfType
  <2> HIDE DEF v, raw
  <2>1. RowsOK'
    BY <1>1, <2>0, <2>a, PartSetsClosed DEF RowsOK
  <2>2. QED BY <1>6, <2>1, InsertServiceNameOK
<1>7. CASE InsertCert(w)
  <2>1. req[w].serv \in Services /\ req[w].pem \in Pems /\ ReqOK'
    BY <1>7, InsertCertOK
  <2>2. PICK c \in Certs : SaveCert(c, req[w].serv, req[w].pem, Nothing)
    BY <1>7 DEF InsertCert
  <2>3. cert' \in [Certs -> CertRow \cup Absent]
    BY <1>1, <2>1, <2>2, SaveCertOK DEF RowsOK
  <2>4. QED BY <1>1, <1>7, <2>1, <2>3 DEF InsertCert, RowsOK
<1>8. QED BY <1>3, <1>4, <1>5, <1>6, <1>7

LEMMA SaveRows ==
    ASSUME TslInv, NEW w \in Workers, SaveProvider(w) \/ SaveService(w) \/ SaveCertAgain(w)
    PROVE  RowsOK' /\ ReqOK'
<1>1. RowsOK /\ req[w] \in ReqType /\ Sound(req[w])
  BY DEF TslInv, TslTypeOK, RowsOK, ReqOK
<1>2. ReqOK'
  BY EndOK DEF SaveProvider, SaveService, SaveCertAgain, Save
<1>3. CASE SaveProvider(w)
  <2>1. req[w].copy \in ProviderRow /\ req[w].prov \in Providers
    BY <1>1, <1>3 DEF SaveProvider, Save, Sound
  <2>2. QED BY <1>1, <1>2, <1>3, <2>1 DEF SaveProvider, RowsOK
<1>4. CASE SaveService(w)
  <2>1. req[w].copy \in ServiceRow /\ req[w].serv \in Services
    BY <1>1, <1>4 DEF SaveService, Save, Sound
  <2>2. QED BY <1>1, <1>2, <1>4, <2>1 DEF SaveService, RowsOK
<1>5. CASE SaveCertAgain(w)
  <2>1. req[w].copy \in CertRow /\ req[w].cert \in Certs
    BY <1>1, <1>5 DEF SaveCertAgain, Save, Sound
  <2>2. [req[w].copy EXCEPT !.subject = ExtractMetadata(req[w].copy.pem, @)] \in CertRow
    BY <2>1 DEF CertRow, ExtractMetadata
  <2>3. QED BY <1>1, <1>2, <1>5, <2>1, <2>2 DEF SaveCertAgain, RowsOK
<1>6. QED BY <1>3, <1>4, <1>5

LEMMA StopRows ==
    ASSUME TslInv, NEW w \in Workers, Abort(w) \/ Crash(w)
    PROVE  RowsOK' /\ ReqOK'
<1>1. RowsOK /\ req[w] \in ReqType
  BY DEF TslInv, TslTypeOK, RowsOK, ReqOK
<1>2. ReqOK'
  BY EndOK DEF Abort, Crash
<1>3. Left(req[w]) \subseteq Providers \cup Services
  BY <1>1 DEF Left, ReqType
<1>4. UNCHANGED rowVars /\ cut' \subseteq cut \cup Left(req[w])
  BY DEF Abort, Crash
<1>5. QED BY <1>1, <1>2, <1>3, <1>4 DEF RowsOK, rowVars

LEMMA DeleteRows ==
    ASSUME TslInv, Delete
    PROVE  RowsOK' /\ ReqOK'
<1>1. RowsOK
  BY DEF TslInv, TslTypeOK, RowsOK
<1>2. ASSUME NEW ps \in SUBSET Providers, NEW vs \in SUBSET Services, NEW cs \in SUBSET Certs,
             Cascade(ps, vs, cs)
      PROVE  /\ req' = req /\ cut' = cut
             /\ provider' \in [Providers -> ProviderRow \cup Absent]
             /\ details' \in [Providers -> SUBSET (Details \cup Raw)]
             /\ service' \in [Services -> ServiceRow \cup Absent]
             /\ parts' \in [Services -> PartSets]
             /\ cert' \in [Certs -> CertRow \cup Absent]
  BY <1>1, <1>2, PartSetsClosed DEF Cascade, RowsOK, Absent
<1>3. \A s \in Schemes : ProvidersOf(s) \subseteq Providers
  BY DEF ProvidersOf
<1>4. \A ps \in SUBSET Providers : ServicesOf(ps) \subseteq Services
  BY DEF ServicesOf
<1>5. \A vs \in SUBSET Services : CertsIn(vs) \subseteq Certs
  BY DEF CertsIn
<1>6. PICK ps \in SUBSET Providers, vs \in SUBSET Services, cs \in SUBSET Certs : Cascade(ps, vs, cs)
  BY <1>3, <1>4, <1>5 DEF Delete, DeleteScheme, DeleteProvider, DeleteService, DeleteCert
<1>7. scheme' \in [Schemes -> SchemeRow \cup Absent]
  BY <1>1 DEF Delete, DeleteScheme, DeleteProvider, DeleteService, DeleteCert, RowsOK, Absent
<1>8. ReqOK'
  BY <1>2, <1>6, RequestStays
<1>9. QED BY <1>1, <1>2, <1>6, <1>7, <1>8 DEF RowsOK

LEMMA AdminRows ==
    ASSUME TslInv, Administer
    PROVE  RowsOK' /\ ReqOK'
<1>1. RowsOK
  BY DEF TslInv, TslTypeOK, RowsOK
<1>2. ASSUME NEW s \in Schemes, NEW r \in SchemeForms, AdminSaveScheme(s, r)
      PROVE  RowsOK' /\ req' = req
  <2>1. r \in SchemeRow
    BY TslInputs
  <2>2. QED BY <1>1, <1>2, <2>1 DEF AdminSaveScheme, RowsOK
<1>3. ASSUME NEW p \in Providers, NEW d \in DetailForms, NEW row \in ProviderForms(p), AdminSaveProvider(p, row, d)
      PROVE  RowsOK' /\ req' = req
  <2>1. row \in ProviderRow
    <3>1. CASE Present(provider, p)
      <4>1. provider[p] \in ProviderRow
        BY <1>1, <3>1 DEF RowsOK, Present
      <4>2. QED BY <3>1, <4>1 DEF ProviderForms, ProviderChanges, ProviderRow
    <3>2. CASE ~Present(provider, p)
      BY <3>2 DEF ProviderForms
    <3>3. QED BY <3>1, <3>2
  <2>2. d \subseteq Details
    BY TslInputs
  <2>3. QED BY <1>1, <1>3, <2>1, <2>2 DEF AdminSaveProvider, RowsOK
<1>4. ASSUME NEW v \in Services, NEW q \in PartForms, NEW row \in ServiceForms(v), AdminSaveService(v, row, q)
      PROVE  RowsOK' /\ req' = req
  <2>1. row \in ServiceRow
    <3>1. CASE Present(service, v)
      <4>1. service[v] \in ServiceRow
        BY <1>1, <3>1 DEF RowsOK, Present
      <4>2. QED BY <3>1, <4>1 DEF ServiceForms, ServiceChanges, ServiceRow
    <3>2. CASE ~Present(service, v)
      BY <3>2 DEF ServiceForms
    <3>3. QED BY <3>1, <3>2
  <2>2. q \in PartSets
    BY TslInputs
  <2>3. QED BY <1>1, <1>4, <2>1, <2>2 DEF AdminSaveService, RowsOK
<1>5. ASSUME NEW c \in Certs, NEW v \in Services, NEW pem \in Pems, AdminSaveCert(c, v, pem)
      PROVE  RowsOK' /\ req' = req
  <2>1. Stored(c) \in Pems \cup {Nothing}
    BY <1>1 DEF RowsOK, Stored, Present, CertRow
  <2>2. SaveCert(c, v, pem, Stored(c))
    BY <1>5 DEF AdminSaveCert
  <2>3. cert' \in [Certs -> CertRow \cup Absent]
    BY <1>1, <2>1, <2>2, SaveCertOK DEF RowsOK
  <2>4. QED BY <1>1, <1>5, <2>3 DEF AdminSaveCert, RowsOK
<1>6. RowsOK' /\ req' = req
  BY <1>2, <1>3, <1>4, <1>5 DEF Administer
<1>7. QED BY <1>6, RequestStays

-----------------------------------------------------------------------------
(***************************************************************************)
(* Lists, files and imports                                                *)
(***************************************************************************)

ListsOK ==
    /\ pub \in [at : {"idle", "providers", "services", "truncate", "write"},
               scheme : Schemes \cup {Nothing}, row : SchemeRow \cup {Nothing},
               format : Formats \cup {Nothing}, text : {"whole", "broken"}]
    /\ queue \subseteq Providers
    /\ entries \subseteq Providers \X Services
    /\ listed \in [scheme : Schemes \cup {Nothing}, pairs : SUBSET (Providers \X Services)]
    /\ file \in [text : {"none", "truncated", "whole", "broken"}, row : SchemeRow \cup {Nothing},
                format : Formats \cup {Nothing}]
    /\ imp \in [at : {"idle", "scheme", "texts"}, row : SchemeRow \cup {Nothing},
               left : SUBSET SchemeTexts, into : Schemes \cup {Nothing}]
    /\ writes \in 0..MaxWrites
    /\ CarriedOK

\* Requests, deletions and the admin forms leave lists and imports alone.
LEMMA OthersQuiet ==
    ASSUME TslInv,
           \/ \E w \in Workers : Request(w) \/ Serve(w) \/ Crash(w)
           \/ Delete \/ Administer
    PROVE  Quiet /\ ListsOK'
<1>1. ListsOK
  BY DEF TslInv, TslTypeOK, ListsOK
<1>2. /\ Quiet
      /\ writes' = writes \/ (writes < MaxWrites /\ writes' = writes + 1)
  <2>1. ASSUME NEW w \in Workers, Request(w) PROVE Quiet /\ writes < MaxWrites /\ writes' = writes + 1
    BY <2>1 DEF Request, PostProvider, PostServiceAndProvider, PostService, Post,
                LoadProvider, LoadService, Write
  <2>2. ASSUME NEW w \in Workers, Serve(w) PROVE Quiet /\ writes' = writes
    BY <2>2 DEF Serve, InsertProvider, InsertDetail, InsertService, InsertServiceName, InsertCert,
                Insert, Abort, SaveProvider, SaveService, SaveCertAgain, Save
  <2>3. ASSUME NEW w \in Workers, Crash(w) PROVE Quiet /\ writes' = writes
    BY <2>3 DEF Crash
  <2>4. CASE Delete
    BY <2>4 DEF Delete, DeleteScheme, DeleteProvider, DeleteService, DeleteCert, Cascade, Write
  <2>5. CASE Administer
    BY <2>5 DEF Administer, AdminSaveScheme, AdminSaveProvider, AdminSaveService, AdminSaveCert, Write
  <2>6. QED BY <2>1, <2>2, <2>3, <2>4, <2>5
<1>3. writes' \in 0..MaxWrites
  BY <1>1, <1>2, TslInputs DEF ListsOK
<1>4. QED BY <1>1, <1>2, <1>3 DEF ListsOK, CarriedOK, Quiet, pubVars

LEMMA OpenLists ==
    ASSUME TslInv, Open
    PROVE  RowsOK' /\ ReqOK' /\ ListsOK'
<1>1. RowsOK /\ ListsOK
  BY DEF TslInv, TslTypeOK, RowsOK, ListsOK
<1>2. ASSUME NEW s \in Schemes, OpenList(s) PROVE UNCHANGED <<rowVars, req, cut>> /\ ListsOK'
  BY <1>1, <1>2, ZenonT(40) DEF OpenList, Reads, ListsOK, CarriedOK, NoList
<1>3. ASSUME NEW s \in Schemes, NEW f \in {"gotrust", "standard"}, OpenExport(s, f)
      PROVE  UNCHANGED <<rowVars, req, cut>> /\ ListsOK'
  <2>1. scheme[s] \in SchemeRow /\ f \in Formats
    BY <1>1, <1>3 DEF OpenExport, RowsOK, Present, Formats
  <2>2. pub' = [at |-> "providers", scheme |-> s, row |-> scheme[s], format |-> f, text |-> "whole"]
    BY <1>3 DEF OpenExport, NoList
  <2>3. UNCHANGED <<rowVars, req, imp, cut, queue, entries, listed, file>>
    BY <1>3 DEF OpenExport
  <2>4. writes' \in 0..MaxWrites
    BY <1>1, <1>3, TslInputs DEF OpenExport, ListsOK
  <2>5. QED BY <1>1, <2>1, <2>2, <2>3, <2>4 DEF ListsOK, CarriedOK
<1>4. UNCHANGED <<rowVars, req, cut>> /\ ListsOK'
  BY <1>2, <1>3 DEF Open, OpenDefault, OpenRest, OpenAdmin
<1>5. RowsOK'
  BY <1>1, <1>4 DEF RowsOK, rowVars
<1>6. QED BY <1>4, <1>5, RequestStays

LEMMA GenerateLists ==
    ASSUME TslInv, Generate \/ Export
    PROVE  RowsOK' /\ ReqOK' /\ ListsOK'
<1>1. RowsOK /\ ListsOK
  BY DEF TslInv, TslTypeOK, RowsOK, ListsOK
<1>2. ASSUME ListProviders PROVE Reads /\ ListsOK'
  BY <1>1, <1>2 DEF ListProviders, Reads, ListsOK, CarriedOK, ActiveProviders
<1>3. ASSUME NEW p \in Providers, ListServices(p) PROVE Reads /\ ListsOK'
  <2>1. ListServices(p) /\ Reads
    BY <1>3 DEF ListServices
  <2>2. pub' = pub \/ pub' = [pub EXCEPT !.text = "broken"]
    BY <2>1 DEF ListServices, WriteOf
  <2>3. QED BY <1>1, <2>1, <2>2 DEF ListServices, Reads, ListsOK, CarriedOK, ActiveServices
<1>4. ASSUME Complete PROVE Reads /\ ListsOK'
  BY <1>1, <1>4 DEF Complete, Reads, ListsOK, CarriedOK, NoList
<1>5. ASSUME TruncateFile PROVE Reads /\ ListsOK'
  BY <1>1, <1>5 DEF TruncateFile, Reads, ListsOK, CarriedOK, NoFile
<1>6. ASSUME WriteFile PROVE Reads /\ ListsOK'
  BY <1>1, <1>6 DEF WriteFile, Reads, ListsOK, CarriedOK, NoList
<1>7. ASSUME ExportKilled PROVE Reads /\ ListsOK'
  BY <1>1, <1>7 DEF ExportKilled, Reads, ListsOK, CarriedOK, NoList
<1>8. Reads /\ ListsOK'
  BY <1>2, <1>3, <1>4, <1>5, <1>6, <1>7 DEF Generate, Export
<1>9. QED BY <1>1, <1>8, RequestStays DEF Reads, RowsOK, rowVars

LEMMA NowIsDate == Now \in Dates
BY DEF Now, Dates, Seconds

\* What _parse_datetime makes of the dates that are written.
LEMMA WrittenDates ==
    ASSUME NEW f \in Formats, NEW r \in SchemeRow
    PROVE  LET d == DatesElement(f, r)
           IN /\ ParseDatetime(d.issued) \in Dates \cup {NoDate}
              /\ ParseDatetime(d.next) \in Dates \cup {NoDate}
              /\ f # "standard" =>
                    /\ ParseDatetime(d.issued) = [second |-> r.issue.second, fraction |-> "zero"]
                    /\ ParseDatetime(d.next) = [second |-> r.next.second, fraction |-> "zero"]
<1>1. r.issue \in Dates /\ r.next \in Dates \cup {NoDate}
  BY DEF SchemeRow
<1>2. CASE f = "standard"
  <2>1. DatesElement(f, r) = [issued |-> IsoFormat(r.issue), next |-> IsoFormat(r.next)]
    BY <1>2 DEF DatesElement, StandardDates
  <2>2. \A x : ParseDatetime(IsoFormat(x)) = NoDate
    BY DEF ParseDatetime, IsoFormat
  <2>3. QED BY <1>2, <2>1, <2>2
<1>3. CASE f # "standard"
  <2>1. DatesElement(f, r) = [issued |-> StrfTime(r.issue), next |-> StrfTime(r.next)]
    BY <1>3 DEF DatesElement, GoTrustDates, EtsiDates, Formats
  <2>2. \A x : ParseDatetime(StrfTime(x)) = [second |-> x.second, fraction |-> "zero"]
    BY DEF ParseDatetime, StrfTime
  <2>3. \A x \in Dates \cup {NoDate} : [second |-> x.second, fraction |-> "zero"] \in Dates \cup {NoDate}
    BY DEF Dates, NoDate
  <2>4. QED BY <1>1, <2>1, <2>2, <2>3
<1>4. QED BY <1>2, <1>3

\* What the importers make of an element is a row.
LEMMA ImportedRow ==
    ASSUME NEW f \in Formats, NEW r \in SchemeRow
    PROVE  /\ ImportedScheme(SchemeElement(f, r), DatesElement(f, r)) \in SchemeRow
           /\ ImportedTexts(SchemeElement(f, r)) \subseteq SchemeTexts
<1> DEFINE h == SchemeElement(f, r)
           d == DatesElement(f, r)
<1>1. h.seq = r.seq /\ h.special = r.special /\ h.texts = r.texts
  BY DEF SchemeElement, StandardScheme, GoTrustScheme, EtsiScheme, Formats
<1>2. ParseDatetime(d.issued) \in Dates \cup {NoDate} /\ ParseDatetime(d.next) \in Dates \cup {NoDate}
  BY WrittenDates DEF d
<1>3. r.seq \in Nat /\ r.special \subseteq SpecialFields /\ r.texts \subseteq SchemeTexts
  BY DEF SchemeRow
<1> HIDE DEF h, d
<1>4. ImportedScheme(h, d) \in SchemeRow
  BY <1>1, <1>2, <1>3, NowIsDate DEF ImportedScheme, SchemeRow
<1>5. QED BY <1>1, <1>3, <1>4 DEF ImportedTexts, h, d

LEMMA ImportLists ==
    ASSUME TslInv, RunImport
    PROVE  RowsOK' /\ ReqOK' /\ ListsOK'
<1>1. RowsOK /\ ListsOK
  BY DEF TslInv, TslTypeOK, RowsOK, ListsOK
<1>2. CASE ReadXml
  <2> DEFINE row == ImportedScheme(SchemeElement(file.format, file.row),
                                   DatesElement(file.format, file.row))
             left == ImportedTexts(SchemeElement(file.format, file.row))
  <2>1. file.format \in Formats /\ file.row \in SchemeRow
    BY <1>1, <1>2 DEF ReadXml, ListsOK, CarriedOK
  <2>2. row \in SchemeRow /\ left \subseteq SchemeTexts
    BY <2>1, ImportedRow
  <2>3. imp' = [at |-> "scheme", row |-> row, left |-> left, into |-> Nothing]
    BY <1>2 DEF ReadXml
  <2>4. Import /\ scheme' = scheme /\ writes < MaxWrites /\ writes' = writes + 1
    BY <1>2 DEF ReadXml, StartImport
  <2> HIDE DEF row, left
  <2>5. writes' \in 0..MaxWrites
    BY <1>1, <2>4, TslInputs DEF ListsOK
  <2>6. RowsOK' /\ req' = req
    BY <1>1, <2>4 DEF Import, RowsOK
  <2>7. ListsOK'
    BY <1>1, <2>2, <2>3, <2>4, <2>5 DEF Import, ListsOK, CarriedOK, pubVars
  <2>8. QED BY <2>6, <2>7, RequestStays
<1>3. ASSUME NEW y \in Directories, ReadYaml(y) PROVE RowsOK' /\ ReqOK' /\ ListsOK'
  <2>1. y.seq \in Nat /\ y.special \subseteq SpecialFields /\ y.texts \subseteq SchemeTexts
    BY TslInputs
  <2>2. YamlScheme(y) \in SchemeRow
    BY <2>1, NowIsDate DEF YamlScheme, SchemeRow
  <2>3. imp' = [at |-> "scheme", row |-> YamlScheme(y), left |-> y.texts, into |-> Nothing]
    BY <1>3 DEF ReadYaml
  <2>4. Import /\ scheme' = scheme /\ writes < MaxWrites /\ writes' = writes + 1
    BY <1>3 DEF ReadYaml, StartImport
  <2>5. writes' \in 0..MaxWrites
    BY <1>1, <2>4, TslInputs DEF ListsOK
  <2>6. RowsOK' /\ req' = req
    BY <1>1, <2>4 DEF Import, RowsOK
  <2>7. ListsOK'
    BY <1>1, <2>1, <2>2, <2>3, <2>4, <2>5 DEF Import, ListsOK, CarriedOK, pubVars
  <2>8. QED BY <2>6, <2>7, RequestStays
<1>4. CASE NewScheme
  <2>1. imp.row \in SchemeRow
    BY <1>1, <1>4 DEF NewScheme, ListsOK, CarriedOK
  <2>2. Import /\ writes' = writes
    BY <1>4 DEF NewScheme
  <2>3. PICK s \in Schemes : /\ scheme' = [scheme EXCEPT ![s] = imp.row]
                            /\ imp' = [imp EXCEPT !.at = "texts", !.into = s]
    BY <1>4 DEF NewScheme
  <2>4. RowsOK' /\ req' = req
    BY <1>1, <2>1, <2>2, <2>3 DEF Import, RowsOK
  <2>5. ListsOK'
    BY <1>1, <2>2, <2>3, ZenonT(40) DEF Import, ListsOK, CarriedOK, pubVars
  <2>6. QED BY <2>4, <2>5, RequestStays
<1>5. ASSUME NEW t \in SchemeTexts, ImportText(t) PROVE RowsOK' /\ ReqOK' /\ ListsOK'
  <2>1. imp.into \in Schemes /\ scheme[imp.into] \in SchemeRow
    BY <1>1, <1>5 DEF ImportText, ListsOK, CarriedOK, RowsOK, Present
  <2>2. Import /\ writes' = writes
    BY <1>5 DEF ImportText
  <2>3. scheme' = [scheme EXCEPT ![imp.into] = [scheme[imp.into] EXCEPT !.texts = @ \cup {t}]]
    BY <1>5 DEF ImportText
  <2>4. [scheme[imp.into] EXCEPT !.texts = @ \cup {t}] \in SchemeRow
    BY <2>1 DEF SchemeRow
  <2>5. imp' = [imp EXCEPT !.left = @ \ {t}]
    BY <1>5 DEF ImportText
  <2>6. RowsOK' /\ req' = req
    BY <1>1, <2>2, <2>3, <2>4 DEF Import, RowsOK
  <2>7. ListsOK'
    BY <1>1, <2>2, <2>5 DEF Import, ListsOK, CarriedOK, pubVars
  <2>8. QED BY <2>6, <2>7, RequestStays
<1>6. CASE EndImport
  <2>1. Import /\ scheme' = scheme /\ writes' = writes /\ imp' = NoImport
    BY <1>6 DEF EndImport
  <2>2. RowsOK' /\ req' = req
    BY <1>1, <2>1 DEF Import, RowsOK
  <2>3. ListsOK'
    BY <1>1, <2>1 DEF Import, ListsOK, CarriedOK, pubVars, NoImport
  <2>4. QED BY <2>2, <2>3, RequestStays
<1>7. QED BY <1>2, <1>3, <1>4, <1>5, <1>6 DEF RunImport

-----------------------------------------------------------------------------
(***************************************************************************)
(* Every variable has its type                                             *)
(***************************************************************************)

\* What is eligible, on any tables that have their types.
LEMMA WatchTyped ==
    ASSUME RowsOK, RowsOK', ListsOK, ListsOK', Watch,
           sure \subseteq Providers \X Services, seenProviders \subseteq Providers,
           seenServices \subseteq Providers \X Services
    PROVE  /\ sure' \subseteq Providers \X Services
           /\ seenProviders' \subseteq Providers
           /\ seenServices' \subseteq Providers \X Services
<1>1. Holders' \subseteq Providers
  BY DEF Holders, ActiveProviders
<1>2. Eligible' \subseteq Providers \X Services /\ Holdings' \subseteq Providers \X Services
  BY DEF Eligible, Holdings
<1>3. QED BY <1>1, <1>2 DEF Watch

LEMMA InitInv == Init => TslInv
<1> SUFFICES ASSUME Init PROVE TslInv
  OBVIOUS
<1>1. PICK r \in Start :
        /\ scheme = r.scheme /\ provider = r.provider /\ details = r.details
        /\ service = r.service /\ parts = r.parts /\ cert = r.cert
  BY DEF Init
<1>2. r \in Rows
  BY TslInputs
<1>4. RowsOK
  BY <1>1, <1>2 DEF Rows, RowsOK, Init
<1>5. ReqOK
  BY FreeSound DEF Init, ReqOK
<1>6. 0 \in 0..MaxWrites
  BY TslInputs
<1>7. ListsOK
  BY <1>6 DEF Init, ListsOK, CarriedOK, NoList, NoFile, NoImport
<1>8. QED BY <1>4, <1>5, <1>7 DEF TslInv, TslTypeOK, RowsOK, ReqOK, ListsOK, Init

LEMMA NextInv == TslInv /\ [Next]_vars => TslInv'
<1> SUFFICES ASSUME TslInv, [Next]_vars PROVE TslInv'
  OBVIOUS
<1>1. RowsOK /\ ListsOK
  BY DEF TslInv, TslTypeOK, RowsOK, ListsOK
<1>2. ASSUME Step PROVE RowsOK' /\ ReqOK' /\ ListsOK'
  <2>1. ASSUME NEW w \in Workers, Request(w) PROVE RowsOK' /\ ReqOK' /\ ListsOK'
    BY <2>1, RequestRows, OthersQuiet
  <2>2. ASSUME NEW w \in Workers, Serve(w) PROVE RowsOK' /\ ReqOK' /\ ListsOK'
    <3>1. ListsOK'
      BY <2>2, OthersQuiet
    <3>2. RowsOK' /\ ReqOK'
      BY <2>2, InsertRows, StopRows, SaveRows DEF Serve
    <3>3. QED BY <3>1, <3>2
  <2>3. ASSUME NEW w \in Workers, Crash(w) PROVE RowsOK' /\ ReqOK' /\ ListsOK'
    BY <2>3, StopRows, OthersQuiet
  <2>4. CASE Delete
    BY <2>4, DeleteRows, OthersQuiet
  <2>5. CASE Administer
    BY <2>5, AdminRows, OthersQuiet
  <2>6. CASE Open
    BY <2>6, OpenLists
  <2>7. CASE Generate \/ Export
    BY <2>7, GenerateLists
  <2>8. CASE RunImport
    BY <2>8, ImportLists
  <2>9. QED BY <1>2, <2>1, <2>2, <2>3, <2>4, <2>5, <2>6, <2>7, <2>8 DEF Step
<1>3. CASE Next
  <2>1. RowsOK' /\ ReqOK' /\ ListsOK' /\ Watch
    BY <1>2, <1>3 DEF Next
  <2>2. /\ sure' \subseteq Providers \X Services
        /\ seenProviders' \subseteq Providers
        /\ seenServices' \subseteq Providers \X Services
    BY <1>1, <2>1, WatchTyped DEF TslInv, TslTypeOK
  <2>3. QED BY <2>1, <2>2 DEF TslInv, TslTypeOK, RowsOK, ReqOK, ListsOK
<1>4. CASE UNCHANGED vars
  BY <1>4 DEF vars, rowVars, pubVars, watchVars, TslInv, TslTypeOK, ReqOK, Sound, CarriedOK
<1>5. QED BY <1>3, <1>4

LEMMA AlwaysInv == Spec => []TslInv
BY InitInv, NextInv, PTL DEF Spec

\* The tables, requests, lists, files and imports have their types, whatever the
\* requests, forms, exports and imports, in whatever order.
THEOREM TslTypeOKAlways == Spec => []TslTypeOK
<1>1. TslInv => TslTypeOK
  BY DEF TslInv
<1>2. QED BY <1>1, AlwaysInv, PTL

-----------------------------------------------------------------------------
(***************************************************************************)
(* The subject name of a certificate                                       *)
(***************************************************************************)

\* The steps that write certificates.
LEMMA CertSteps ==
    ASSUME TslInv, Step
    PROVE  /\ cut \subseteq cut'
           /\ \/ UNCHANGED cert
              \/ \E w \in Workers : InsertCert(w) \/ SaveCertAgain(w)
              \/ Delete
              \/ \E c \in Certs, v \in Services, pem \in Pems : AdminSaveCert(c, v, pem)
<1> DEFINE Kept == UNCHANGED cert /\ cut \subseteq cut'
<1>1. ASSUME NEW w \in Workers, Request(w) PROVE Kept
  BY <1>1 DEF Request, PostProvider, PostServiceAndProvider, PostService, Post,
              LoadProvider, LoadService, rowVars
<1>2. ASSUME NEW w \in Workers, Serve(w)
      PROVE  cut \subseteq cut' /\ (UNCHANGED cert \/ InsertCert(w) \/ SaveCertAgain(w))
  <2>1. CASE InsertProvider(w) \/ \E k \in Details : InsertDetail(w, k)
    BY <2>1 DEF InsertProvider, InsertDetail
  <2>2. CASE \E k \in {"service", "initial"} : InsertService(w, k)
    BY <2>2 DEF InsertService
  <2>3. CASE InsertServiceName(w) \/ InsertCert(w)
    BY <2>3 DEF InsertServiceName, InsertCert
  <2>4. CASE Abort(w)
    BY <2>4 DEF Abort, rowVars
  <2>5. CASE SaveProvider(w) \/ SaveService(w) \/ SaveCertAgain(w)
    BY <2>5 DEF SaveProvider, SaveService, SaveCertAgain
  <2>6. QED BY <1>2, <2>1, <2>2, <2>3, <2>4, <2>5 DEF Serve
<1>3. ASSUME NEW w \in Workers, Crash(w) PROVE Kept
  BY <1>3 DEF Crash, rowVars
<1>4. ASSUME Delete PROVE cut \subseteq cut'
  BY <1>4 DEF Delete, DeleteScheme, DeleteProvider, DeleteService, DeleteCert, Cascade
<1>5. ASSUME Administer
      PROVE  /\ cut \subseteq cut'
             /\ \/ UNCHANGED cert
                \/ \E c \in Certs, v \in Services, pem \in Pems : AdminSaveCert(c, v, pem)
  <2>1. ASSUME NEW s \in Schemes, NEW r \in SchemeForms, AdminSaveScheme(s, r) PROVE Kept
    BY <2>1 DEF AdminSaveScheme
  <2>2. ASSUME NEW p \in Providers, NEW row, NEW d, AdminSaveProvider(p, row, d) PROVE Kept
    BY <2>2 DEF AdminSaveProvider
  <2>3. ASSUME NEW v \in Services, NEW row, NEW q, AdminSaveService(v, row, q) PROVE Kept
    BY <2>3 DEF AdminSaveService
  <2>4. ASSUME NEW c \in Certs, NEW v \in Services, NEW pem \in Pems, AdminSaveCert(c, v, pem)
        PROVE  cut \subseteq cut'
    BY <2>4 DEF AdminSaveCert
  <2>5. QED BY <1>5, <2>1, <2>2, <2>3, <2>4 DEF Administer
<1>6. ASSUME Open PROVE Kept
  BY <1>6 DEF Open, OpenDefault, OpenRest, OpenAdmin, OpenList, OpenExport, Reads, rowVars
<1>7. ASSUME Generate \/ Export PROVE Kept
  BY <1>7 DEF Generate, Export, ListProviders, ListServices, Complete, TruncateFile, WriteFile,
              ExportKilled, Reads, rowVars
<1>8. ASSUME RunImport PROVE Kept
  BY <1>8 DEF RunImport, ReadXml, ReadYaml, StartImport, NewScheme, ImportText, EndImport, Import
<1>9. QED BY <1>1, <1>2, <1>3, <1>4, <1>5, <1>6, <1>7, <1>8 DEF Step

\* A save that leaves the subject of its PEM, or a row known to be cut.
LEMMA SaveCertIdentity ==
    ASSUME TslInv, IdentityMatchesPem, NEW c \in Certs, NEW v \in Services, NEW pem \in Pems,
           NEW subject \in Pems \cup {Nothing}, SaveCert(c, v, pem, subject),
           cut \subseteq cut', c \notin cut' => SubjectToSave(pem, subject) = SubjectOf(pem)
    PROVE  IdentityMatchesPem'
<1>1. /\ cert'[c].pem = pem /\ cert'[c].subject = SubjectToSave(pem, subject)
      /\ \A d \in Certs \ {c} : cert'[d] = cert[d]
  <2>1. cert \in [Certs -> CertRow \cup Absent]
    BY DEF TslInv, TslTypeOK
  <2>2. QED BY <2>1, SaveCertOK
<1>2. QED BY <1>1 DEF IdentityMatchesPem, Present

LEMMA IdentityNext == TslInv /\ IdentityMatchesPem /\ [Next]_vars => IdentityMatchesPem'
<1> SUFFICES ASSUME TslInv, IdentityMatchesPem, [Next]_vars PROVE IdentityMatchesPem'
  OBVIOUS
<1>1. cert \in [Certs -> CertRow \cup Absent]
  BY DEF TslInv, TslTypeOK
<1>2. ASSUME UNCHANGED cert, cut \subseteq cut' PROVE IdentityMatchesPem'
  BY <1>2 DEF IdentityMatchesPem, Present
<1>3. ASSUME NEW w \in Workers, InsertCert(w) PROVE IdentityMatchesPem'
  <2>1. req[w].serv \in Services /\ req[w].pem \in Pems
    BY <1>3, InsertCertOK
  <2>2. PICK c \in Certs : SaveCert(c, req[w].serv, req[w].pem, Nothing)
    BY <1>3 DEF InsertCert
  <2>3. SubjectToSave(req[w].pem, Nothing) = SubjectOf(req[w].pem) /\ cut' = cut
    BY <1>3 DEF InsertCert, SubjectToSave, ExtractMetadata, SubjectOf
  <2>4. QED BY <2>1, <2>2, <2>3, SaveCertIdentity
<1>4. ASSUME NEW w \in Workers, SaveCertAgain(w), cut \subseteq cut' PROVE IdentityMatchesPem'
  <2> DEFINE r == req[w]
             row == [r.copy EXCEPT !.subject = ExtractMetadata(r.copy.pem, @)]
  <2>1. /\ r.copy \in CertRow /\ r.cert \in Certs
        /\ r.copy.subject = SubjectOf(r.copy.pem)
    BY <1>4 DEF SaveCertAgain, Save, Sound, TslInv, ReqOK
  <2>2. row.pem = r.copy.pem /\ row.subject = ExtractMetadata(r.copy.pem, r.copy.subject)
    BY <2>1 DEF CertRow
  <2>3. row.subject = SubjectOf(row.pem)
    BY <2>1, <2>2 DEF ExtractMetadata, SubjectOf
  <2>4. UNCHANGED cert \/ cert' = [cert EXCEPT ![r.cert] = row]
    BY <1>4 DEF SaveCertAgain
  <2> HIDE DEF row
  <2>5. CASE UNCHANGED cert
    BY <1>2, <1>4, <2>5
  <2>6. CASE cert' = [cert EXCEPT ![r.cert] = row]
    <3>1. cert'[r.cert] = row /\ \A d \in Certs \ {r.cert} : cert'[d] = cert[d]
      BY <1>1, <2>1, <2>6
    <3>2. QED BY <1>4, <2>3, <3>1 DEF IdentityMatchesPem, Present
  <2>7. QED BY <2>4, <2>5, <2>6
<1>5. ASSUME Delete PROVE IdentityMatchesPem'
  <2>1. /\ cut' = cut
        /\ \E cs \in SUBSET Certs : cert' = [c \in Certs |-> IF c \in cs THEN Deleted ELSE cert[c]]
    BY <1>5, ZenonT(40) DEF Delete, DeleteScheme, DeleteProvider, DeleteService, DeleteCert, Cascade, CertsIn
  <2>2. QED BY <2>1 DEF IdentityMatchesPem, Present, Absent
<1>6. ASSUME NEW c \in Certs, NEW v \in Services, NEW pem \in Pems, AdminSaveCert(c, v, pem)
      PROVE  IdentityMatchesPem'
  <2>1. Stored(c) \in Pems \cup {Nothing}
    BY <1>1 DEF Stored, Present, CertRow
  <2>2. /\ SaveCert(c, v, pem, Stored(c)) /\ cut \subseteq cut'
        /\ c \notin cut' => c \notin cut /\ Stored(c) \in {Nothing, pem}
    BY <1>6 DEF AdminSaveCert
  <2>3. ASSUME c \notin cut' PROVE SubjectToSave(pem, Stored(c)) = SubjectOf(pem)
    <3>1. CASE Stored(c) = Nothing
      BY <3>1 DEF SubjectToSave, ExtractMetadata, SubjectOf
    <3>2. CASE Stored(c) # Nothing
      <4>1. Present(cert, c) /\ cert[c].subject = pem /\ c \notin cut
        BY <2>2, <2>3, <3>2 DEF Stored
      <4>2. SubjectOf(cert[c].pem) = pem /\ pem # Nothing
        BY <2>2, <2>3, <3>2, <4>1 DEF IdentityMatchesPem
      <4>3. pem \notin Malformed
        BY <4>2 DEF SubjectOf
      <4>4. QED BY <2>2, <2>3, <3>2, <4>3 DEF SubjectToSave, SubjectOf
    <3>3. QED BY <3>1, <3>2
  <2>4. QED BY <2>1, <2>2, <2>3, SaveCertIdentity
<1>7. CASE Next
  BY <1>2, <1>3, <1>4, <1>5, <1>6, <1>7, CertSteps DEF Next
<1>8. CASE UNCHANGED vars
  BY <1>2, <1>8 DEF vars, rowVars
<1>9. QED BY <1>7, <1>8

LEMMA IdentityInit == Init => IdentityMatchesPem
<1> SUFFICES ASSUME Init PROVE IdentityMatchesPem
  OBVIOUS
<1>1. PICK r \in Start : cert = r.cert
  BY DEF Init
<1>2. QED BY <1>1, TslStartNamed DEF IdentityMatchesPem, Present

\* Whatever POSTs, forms and deletions overlap, the subject name published with a
\* certificate is that of its PEM, unless a form replaced the PEM of a row that
\* had its subject.
THEOREM IdentityMatchesPemAlways == Spec => []IdentityMatchesPem
BY AlwaysInv, IdentityInit, IdentityNext, PTL DEF Spec

-----------------------------------------------------------------------------
(***************************************************************************)
(* Providers and services without a name                                   *)
(***************************************************************************)

Nameless(p)        == Present(provider, p) /\ "name" \notin details[p] /\ p \notin cut
NamelessService(v) == Present(service, v) /\ "name" \notin parts[v] /\ v \notin cut

Naming(w, p)        == req[w].at = "posting" /\ req[w].prov = p /\ Due(req[w], "name")
NamingService(w, v) == req[w].at = "posting" /\ req[w].serv = v /\ Due(req[w], "service_name")

\* A step keeps the causes if no row becomes nameless by it and no worker that has
\* still to insert a name does anything else.
LEMMA CauseStays ==
    ASSUME NamelessHasCause,
           \A p \in Providers : Nameless(p)' =>
               Nameless(p) /\ \A w \in Workers : Naming(w, p) => req'[w] = req[w],
           \A v \in Services : NamelessService(v)' =>
               NamelessService(v) /\ \A w \in Workers : NamingService(w, v) => req'[w] = req[w]
    PROVE  NamelessHasCause'
<1>1. ASSUME NEW p \in Providers, Nameless(p)' PROVE \E w \in Workers : Naming(w, p)'
  <2>1. PICK w \in Workers : Naming(w, p)
    BY <1>1 DEF NamelessHasCause, Nameless, Naming
  <2>2. req'[w] = req[w]
    BY <1>1, <2>1
  <2>3. QED BY <2>1, <2>2 DEF Naming, Due
<1>2. ASSUME NEW v \in Services, NamelessService(v)' PROVE \E w \in Workers : NamingService(w, v)'
  <2>1. PICK w \in Workers : NamingService(w, v)
    BY <1>2 DEF NamelessHasCause, NamelessService, NamingService
  <2>2. req'[w] = req[w]
    BY <1>2, <2>1
  <2>3. QED BY <2>1, <2>2 DEF NamingService, Due
<1>3. QED BY <1>1, <1>2 DEF NamelessHasCause, Nameless, NamelessService, Naming, NamingService

\* At most one insert of a request is due.
LEMMA OneDue ==
    ASSUME NEW r \in ReqType, NEW j \in Inserts, NEW k \in Inserts, Due(r, j), Due(r, k)
    PROVE  j = k
<1>1. InsertOrder[j] <= InsertOrder[k] /\ InsertOrder[k] <= InsertOrder[j]
  BY DEF Due
<1>2. InsertOrder[j] \in Nat /\ InsertOrder[k] \in Nat
  BY DEF Inserts, InsertOrder
<1>3. InsertOrder[j] = InsertOrder[k]
  BY <1>1, <1>2
<1>4. QED BY <1>3 DEF Inserts, InsertOrder

\* An insert of another kind is not that of a name.
LEMMA InsertNotNaming ==
    ASSUME TslInv, NEW w \in Workers, NEW k \in Inserts, Insert(w, k)
    PROVE  /\ k # "name" => ~Due(req[w], "name")
           /\ k # "service_name" => ~Due(req[w], "service_name")
<1>1. req[w] \in ReqType /\ Due(req[w], k)
  BY InsertFacts
<1>2. "name" \in Inserts /\ "service_name" \in Inserts
  BY DEF Inserts, InsertOrder
<1>3. QED BY <1>1, <1>2, OneDue

\* The step of a worker changes its own request only.
LEMMA OwnRequest ==
    ASSUME TslInv, NEW w \in Workers, Request(w) \/ Serve(w) \/ Crash(w)
    PROVE  \A u \in Workers \ {w} : req'[u] = req[u]
<1>1. req \in [Workers -> ReqType]
  BY DEF TslInv, ReqOK
<1>2. CASE Request(w)
  BY <1>1, <1>2 DEF Request, PostProvider, PostServiceAndProvider, PostService, Post,
                    LoadProvider, LoadService
<1>3. CASE Serve(w)
  BY <1>1, <1>3 DEF Serve, InsertProvider, InsertDetail, InsertService, InsertServiceName,
                    InsertCert, Inserted, Abort, SaveProvider, SaveService, SaveCertAgain, Save
<1>4. CASE Crash(w)
  BY <1>1, <1>4 DEF Crash
<1>5. QED BY <1>2, <1>3, <1>4

LEMMA CauseServe ==
    ASSUME TslInv, NamelessHasCause, NEW w \in Workers, Serve(w)
    PROVE  NamelessHasCause'
<1> USE DEF Nameless, NamelessService, Naming, NamingService
<1>0. /\ {"provider", "name", "trade", "mail", "initial", "service", "service_name", "cert"} \subseteq Inserts
      /\ Details = {"name", "trade", "mail"}
  BY DEF Inserts, InsertOrder, Details
<1>1. RowsOK /\ req \in [Workers -> ReqType] /\ Sound(req[w])
  BY DEF TslInv, TslTypeOK, RowsOK, ReqOK
<1>2. \A u \in Workers \ {w} : req'[u] = req[u]
  BY OwnRequest
<1>3. CASE InsertProvider(w)
  <2>1. ~Due(req[w], "name") /\ ~Due(req[w], "service_name")
    BY <1>0, <1>3, InsertNotNaming DEF InsertProvider
  <2>2. PICK p \in Providers :
          /\ provider[p] = Unused
          /\ provider' = [provider EXCEPT ![p] =
                 [scheme |-> req[w].scheme, entity |-> req[w].entity, active |-> TRUE]]
          /\ Inserted(w, "provider", [req[w] EXCEPT !.prov = p])
    BY <1>3 DEF InsertProvider
  <2>3. UNCHANGED <<details, service, parts, cut>>
    BY <1>3 DEF InsertProvider
  <2>4. req[w].at = "posting" /\ "provider" \in req[w].todo /\ "name" \in req[w].todo
    <3>1. req[w].at = "posting" /\ "provider" \in req[w].todo
      BY <1>3 DEF InsertProvider, Insert, Due
    <3>2. QED BY <1>1, <3>1 DEF Sound
  <2>5. req'[w] = [req[w] EXCEPT !.prov = p, !.todo = @ \ {"provider"}]
    BY <1>1, <2>2, <2>4 DEF Inserted, ReqType
  <2>6. Due(req'[w], "name")
    <3>1. req'[w].todo = req[w].todo \ {"provider"}
      BY <1>1, <2>5 DEF ReqType
    <3>2. req[w].todo \subseteq Inserts
      BY <1>1 DEF ReqType
    <3>3. QED BY <2>4, <3>1, <3>2 DEF Due, Inserts, InsertOrder
  <2>7. req'[w].at = "posting" /\ req'[w].prov = p
    BY <1>1, <2>4, <2>5 DEF ReqType
  <2>8. ASSUME NEW q \in Providers, Nameless(q)' PROVE \E u \in Workers : Naming(u, q)'
    <3>1. CASE q = p
      BY <2>6, <2>7, <3>1 DEF Due
    <3>2. CASE q # p
      <4>1. Nameless(q)
        BY <1>1, <2>2, <2>3, <2>8, <3>2 DEF RowsOK, Present
      <4>2. PICK u \in Workers : Naming(u, q)
        BY <4>1 DEF NamelessHasCause
      <4>3. u # w
        BY <2>1, <4>2
      <4>4. req'[u] = req[u]
        BY <1>2, <4>3
      <4>5. QED BY <4>2, <4>4 DEF Due
    <3>3. QED BY <3>1, <3>2
  <2>9. ASSUME NEW v \in Services, NamelessService(v)' PROVE \E u \in Workers : NamingService(u, v)'
    <3>1. PICK u \in Workers : NamingService(u, v)
      BY <2>3, <2>9 DEF NamelessHasCause, Present
    <3>2. req'[u] = req[u]
      BY <1>2, <2>1, <3>1
    <3>3. QED BY <3>1, <3>2 DEF Due
  <2>10. QED BY <2>8, <2>9 DEF NamelessHasCause
<1>4. ASSUME NEW k \in Details, InsertDetail(w, k) PROVE NamelessHasCause'
  <2>1. ~Due(req[w], "service_name") /\ (k # "name" => ~Due(req[w], "name"))
    BY <1>0, <1>4, InsertNotNaming DEF InsertDetail
  <2>2. details' = [details EXCEPT ![req[w].prov] = @ \cup {k} \cup RawOf(req[w], k)]
        /\ UNCHANGED <<provider, service, parts, cut>>
    BY <1>4 DEF InsertDetail
  <2>3. \A p \in Providers : Nameless(p)' => Nameless(p) /\ (p = req[w].prov => k # "name")
    BY <1>1, <2>2 DEF RowsOK, Present
  <2>4. \A v \in Services : NamelessService(v)' => NamelessService(v)
    BY <2>2 DEF Present
  <2>5. QED BY <1>2, <2>1, <2>3, <2>4, CauseStays
<1>5. ASSUME NEW k \in {"service", "initial"}, InsertService(w, k) PROVE NamelessHasCause'
  <2>1. ~Due(req[w], "name") /\ ~Due(req[w], "service_name")
    BY <1>0, <1>5, InsertNotNaming DEF InsertService
  <2>2. PICK v \in Services :
          /\ service[v] = Unused
          /\ service' = [service EXCEPT ![v] =
                 [provider |-> req[w].prov, status |-> req[w].status, active |-> TRUE]]
          /\ Inserted(w, k, [req[w] EXCEPT !.serv = v])
          /\ cut' = IF k = "initial" THEN cut \cup {v} ELSE cut
    BY <1>5 DEF InsertService
  <2>3. UNCHANGED <<provider, details, parts>>
    BY <1>5 DEF InsertService
  <2>4. ASSUME NEW p \in Providers, Nameless(p)' PROVE \E u \in Workers : Naming(u, p)'
    <3>1. PICK u \in Workers : Naming(u, p)
      BY <2>2, <2>3, <2>4 DEF NamelessHasCause, Present
    <3>2. req'[u] = req[u]
      BY <1>2, <2>1, <3>1
    <3>3. QED BY <3>1, <3>2 DEF Due
  <2>5. ASSUME k = "service" PROVE NamingService(w, v)'
    <3>1. req[w].at = "posting" /\ Due(req[w], "service") /\ "service" \in req[w].todo
      BY <1>5, <2>5 DEF InsertService, Insert, Due
    <3>2. "service_name" \in req[w].todo
      BY <1>1, <3>1 DEF Sound
    <3>3. req[w].todo \subseteq {"service", "service_name", "cert"}
      BY <1>0, <1>1, <3>1, DueOrder
    <3>4. req'[w] = [req[w] EXCEPT !.serv = v, !.todo = @ \ {"service"}]
      BY <1>1, <2>2, <2>5, <3>2 DEF Inserted, ReqType
    <3>5. /\ req'[w].todo \subseteq {"service_name", "cert"} /\ "service_name" \in req'[w].todo
          /\ req'[w].at = "posting" /\ req'[w].serv = v
      BY <1>1, <3>1, <3>2, <3>3, <3>4 DEF ReqType
    <3>6. QED BY <3>5 DEF Due, InsertOrder
  <2>6. ASSUME NEW x \in Services, NamelessService(x)' PROVE \E u \in Workers : NamingService(u, x)'
    <3>1. CASE x = v
      BY <2>2, <2>5, <2>6, <3>1
    <3>2. CASE x # v
      <4>1. NamelessService(x)
        BY <1>1, <2>2, <2>3, <2>6, <3>2 DEF RowsOK, Present
      <4>2. PICK u \in Workers : NamingService(u, x)
        BY <4>1 DEF NamelessHasCause
      <4>3. req'[u] = req[u]
        BY <1>2, <2>1, <4>2
      <4>4. QED BY <4>2, <4>3 DEF Due
    <3>3. QED BY <3>1, <3>2
  <2>7. QED BY <2>4, <2>6 DEF NamelessHasCause
<1>6. CASE InsertServiceName(w)
  <2>1. ~Due(req[w], "name")
    BY <1>0, <1>6, InsertNotNaming DEF InsertServiceName
  <2>2. /\ parts' = [parts EXCEPT ![req[w].serv] =
               @ \cup {"name"} \cup RawOf(req[w], "service_name")]
        /\ UNCHANGED <<provider, details, service, cut>>
    BY <1>6 DEF InsertServiceName
  <2>3. \A v \in Services : NamelessService(v)' => NamelessService(v) /\ v # req[w].serv
    BY <1>1, <2>2 DEF RowsOK, Present
  <2>4. \A p \in Providers : Nameless(p)' => Nameless(p)
    BY <2>2 DEF Present
  <2>5. QED BY <1>2, <2>1, <2>3, <2>4, CauseStays
<1>7. CASE InsertCert(w)
  <2>1. ~Due(req[w], "name") /\ ~Due(req[w], "service_name")
    BY <1>0, <1>7, InsertNotNaming DEF InsertCert
  <2>2. UNCHANGED <<provider, details, service, parts, cut>>
    BY <1>7 DEF InsertCert
  <2>3. QED BY <1>2, <2>1, <2>2, CauseStays DEF Present
<1>8. CASE Abort(w)
  <2>1. UNCHANGED <<provider, details, service, parts>> /\ cut' = cut \cup Left(req[w])
    BY <1>8 DEF Abort, rowVars
  <2>2. /\ \A p \in Providers : Naming(w, p) => p \in cut'
        /\ \A v \in Services : NamingService(w, v) => v \in cut'
    BY <2>1, TslSentinels DEF Left
  <2>3. QED BY <1>2, <2>1, <2>2, CauseStays DEF Present
<1>9. CASE SaveProvider(w)
  <2>1. req[w].at = "provider" /\ UNCHANGED <<details, service, parts>>
    BY <1>9 DEF SaveProvider, Save
  <2>2. \/ UNCHANGED <<provider, cut>>
        \/ /\ provider' = [provider EXCEPT ![req[w].prov] = req[w].copy]
           /\ cut' = IF Present(provider, req[w].prov) THEN cut ELSE cut \cup {req[w].prov}
    BY <1>9 DEF SaveProvider
  <2>3. \A p \in Providers : Nameless(p)' => Nameless(p)
    BY <1>1, <2>1, <2>2 DEF RowsOK, Present
  <2>4. \A v \in Services : NamelessService(v)' => NamelessService(v)
    BY <2>1, <2>2 DEF Present
  <2>5. QED BY <1>2, <2>1, <2>3, <2>4, CauseStays
<1>10. CASE SaveService(w)
  <2>1. req[w].at = "service" /\ UNCHANGED <<provider, details, parts>>
    BY <1>10 DEF SaveService, Save
  <2>2. \/ UNCHANGED <<service, cut>>
        \/ /\ service' = [service EXCEPT ![req[w].serv] = req[w].copy]
           /\ cut' = IF Present(service, req[w].serv) THEN cut ELSE cut \cup {req[w].serv}
    BY <1>10 DEF SaveService
  <2>3. \A v \in Services : NamelessService(v)' => NamelessService(v)
    BY <1>1, <2>1, <2>2 DEF RowsOK, Present
  <2>4. \A p \in Providers : Nameless(p)' => Nameless(p)
    BY <2>1, <2>2 DEF Present
  <2>5. QED BY <1>2, <2>1, <2>3, <2>4, CauseStays
<1>11. CASE SaveCertAgain(w)
  <2>1. req[w].at = "cert" /\ UNCHANGED <<provider, details, service, parts>> /\ cut \subseteq cut'
    BY <1>11 DEF SaveCertAgain, Save
  <2>2. QED BY <1>2, <2>1, CauseStays DEF Present
<1>12. QED BY <1>3, <1>4, <1>5, <1>6, <1>7, <1>8, <1>9, <1>10, <1>11 DEF Serve

LEMMA CauseRequest ==
    ASSUME TslInv, NamelessHasCause, NEW w \in Workers, Request(w) \/ Crash(w)
    PROVE  NamelessHasCause'
<1> USE DEF Nameless, NamelessService, Naming, NamingService
<1>1. \A u \in Workers \ {w} : req'[u] = req[u]
  BY OwnRequest
<1>2. CASE Request(w)
  <2>1. req[w] = Free /\ UNCHANGED <<rowVars, cut>>
    BY <1>2 DEF Request, PostProvider, PostServiceAndProvider, PostService, Post,
                LoadProvider, LoadService
  <2>2. req[w].at = "free"
    BY <2>1 DEF Free
  <2>3. QED BY <1>1, <2>1, <2>2, CauseStays DEF Present, rowVars
<1>3. CASE Crash(w)
  <2>1. UNCHANGED rowVars /\ cut \subseteq cut'
        /\ (req[w].at = "posting" => cut' = cut \cup Left(req[w]))
    BY <1>3 DEF Crash
  <2>2. /\ \A p \in Providers : Naming(w, p) => p \in cut'
        /\ \A v \in Services : NamingService(w, v) => v \in cut'
    BY <2>1, TslSentinels DEF Left
  <2>3. QED BY <1>1, <2>1, <2>2, CauseStays DEF Present, rowVars
<1>4. QED BY <1>2, <1>3

LEMMA CauseNext == TslInv /\ NamelessHasCause /\ [Next]_vars => NamelessHasCause'
<1> SUFFICES ASSUME TslInv, NamelessHasCause, [Next]_vars PROVE NamelessHasCause'
  OBVIOUS
<1> USE DEF Nameless, NamelessService
<1>1. RowsOK
  BY DEF TslInv, TslTypeOK, RowsOK
<1>2. ASSUME UNCHANGED <<provider, details, service, parts, req, cut>> PROVE NamelessHasCause'
  BY <1>2, CauseStays DEF Present
<1>3. ASSUME Delete PROVE NamelessHasCause'
  <2>1. req' = req /\ cut' = cut
    BY <1>3 DEF Delete, DeleteScheme, DeleteProvider, DeleteService, DeleteCert, Cascade
  <2>2. PICK ps, vs, cs : Cascade(ps, vs, cs)
    BY <1>3 DEF Delete, DeleteScheme, DeleteProvider, DeleteService, DeleteCert
  <2>3. \A p \in Providers : Nameless(p)' => Nameless(p)
    BY <2>1, <2>2 DEF Cascade, Present, Absent
  <2>4. \A v \in Services : NamelessService(v)' => NamelessService(v)
    BY <2>1, <2>2 DEF Cascade, Present, Absent
  <2>5. QED BY <2>1, <2>3, <2>4, CauseStays
<1>4. ASSUME Administer PROVE NamelessHasCause'
  <2>1. ASSUME NEW s \in Schemes, NEW r \in SchemeForms, AdminSaveScheme(s, r) PROVE NamelessHasCause'
    BY <1>2, <2>1 DEF AdminSaveScheme
  <2>2. ASSUME NEW p \in Providers, NEW row, NEW d, AdminSaveProvider(p, row, d) PROVE NamelessHasCause'
    <3>1. /\ provider' = [provider EXCEPT ![p] = row] /\ details' = [details EXCEPT ![p] = d]
          /\ cut' = IF "name" \in d THEN cut ELSE cut \cup {p}
          /\ UNCHANGED <<service, parts, req>>
      BY <2>2 DEF AdminSaveProvider
    <3>2. \A q \in Providers : Nameless(q)' => Nameless(q)
      BY <1>1, <3>1 DEF RowsOK, Present
    <3>3. \A v \in Services : NamelessService(v)' => NamelessService(v)
      BY <3>1 DEF Present
    <3>4. QED BY <3>1, <3>2, <3>3, CauseStays
  <2>3. ASSUME NEW v \in Services, NEW row, NEW q, AdminSaveService(v, row, q) PROVE NamelessHasCause'
    <3>1. /\ service' = [service EXCEPT ![v] = row] /\ parts' = [parts EXCEPT ![v] = q]
          /\ cut' = IF "name" \in q THEN cut ELSE cut \cup {v}
          /\ UNCHANGED <<provider, details, req>>
      BY <2>3 DEF AdminSaveService
    <3>2. \A x \in Services : NamelessService(x)' => NamelessService(x)
      BY <1>1, <3>1 DEF RowsOK, Present
    <3>3. \A p \in Providers : Nameless(p)' => Nameless(p)
      BY <3>1 DEF Present
    <3>4. QED BY <3>1, <3>2, <3>3, CauseStays
  <2>4. ASSUME NEW c \in Certs, NEW v \in Services, NEW pem \in Pems, AdminSaveCert(c, v, pem)
        PROVE  NamelessHasCause'
    BY <2>4, CauseStays DEF AdminSaveCert, Present
  <2>5. QED BY <1>4, <2>1, <2>2, <2>3, <2>4 DEF Administer
<1>5. ASSUME Open PROVE NamelessHasCause'
  BY <1>2, <1>5 DEF Open, OpenDefault, OpenRest, OpenAdmin, OpenList, OpenExport, Reads, rowVars
<1>6. ASSUME Generate \/ Export PROVE NamelessHasCause'
  BY <1>2, <1>6 DEF Generate, Export, ListProviders, ListServices, Complete, TruncateFile, WriteFile,
                    ExportKilled, Reads, rowVars
<1>7. ASSUME RunImport PROVE NamelessHasCause'
  BY <1>2, <1>7 DEF RunImport, ReadXml, ReadYaml, StartImport, NewScheme, ImportText, EndImport, Import
<1>8. CASE Next
  BY <1>3, <1>4, <1>5, <1>6, <1>7, <1>8, CauseServe, CauseRequest DEF Next, Step
<1>9. CASE UNCHANGED vars
  BY <1>2, <1>9 DEF vars, rowVars
<1>10. QED BY <1>8, <1>9

LEMMA CauseInit == Init => NamelessHasCause
<1> SUFFICES ASSUME Init PROVE NamelessHasCause
  OBVIOUS
<1>1. PICK r \in Start : /\ provider = r.provider /\ details = r.details
                        /\ service = r.service /\ parts = r.parts
  BY DEF Init
<1>2. QED BY <1>1, TslStartNamed DEF NamelessHasCause, Present

\* Every provider and service without a name has its cause: a POST that is still
\* to insert it, or one of the steps that are known to leave it out.
THEOREM NamelessHasCauseAlways == Spec => []NamelessHasCause
BY AlwaysInv, CauseInit, CauseNext, PTL DEF Spec

-----------------------------------------------------------------------------
(***************************************************************************)
(* The published list implements PublishedList                             *)
(***************************************************************************)

\* While the providers are read nothing is written; while the services are read,
\* every pair that was eligible all the while is written or its provider waits,
\* and what is written or waits was there in some state.
ListInv ==
    /\ ~InList => sure = {} /\ seenProviders = {} /\ seenServices = {}
    /\ pub.at # "services" => entries = {}
    /\ InList => /\ sure \subseteq Eligible
                 /\ Holders \subseteq seenProviders /\ Holdings \subseteq seenServices
    /\ pub.at = "services" =>
        /\ \A h \in sure : h \in entries \/ h[1] \in queue
        /\ queue \subseteq seenProviders
        /\ \A h \in entries : h \in seenServices /\ h[1] \in seenProviders

\* What Watch records of a step.
LEMMA WatchFacts ==
    ASSUME ListInv, Watch
    PROVE  /\ ~InList' => sure' = {} /\ seenProviders' = {} /\ seenServices' = {}
           /\ InList' => /\ sure' \subseteq Eligible'
                         /\ Holders' \subseteq seenProviders' /\ Holdings' \subseteq seenServices'
           /\ InList /\ InList' => /\ sure' \subseteq sure /\ seenProviders \subseteq seenProviders'
                                   /\ seenServices \subseteq seenServices'
BY DEF Watch, ListInv

\* The steps that a list takes; all others leave it alone.
LEMMA ListSteps ==
    ASSUME TslInv, Step
    PROVE  \/ UNCHANGED <<pub, queue, entries, listed>>
           \/ pub = NoList /\ pub'.at = "providers" /\ UNCHANGED <<queue, entries, listed>>
           \/ ListProviders
           \/ \E p \in Providers : ListServices(p)
           \/ Complete
           \/ /\ pub.at \in {"truncate", "write"} /\ pub'.at \in {"idle", "write"}
              /\ UNCHANGED <<queue, entries, listed>>
<1>1. CASE \/ \E w \in Workers : Request(w) \/ Serve(w) \/ Crash(w)
           \/ Delete \/ Administer
  BY <1>1, OthersQuiet DEF Quiet, pubVars
<1>2. CASE Open
  <2>1. pub = NoList /\ UNCHANGED <<queue, entries, listed>>
    BY <1>2 DEF Open, OpenDefault, OpenRest, OpenAdmin, OpenList, OpenExport
  <2>2. pub'.at = "providers"
    <3>1. ASSUME NEW x, OpenList(x) PROVE pub'.at = "providers"
      BY <3>1 DEF OpenList, NoList
    <3>2. ASSUME NEW x, NEW f, OpenExport(x, f) PROVE pub'.at = "providers"
      BY <3>2 DEF OpenExport, NoList
    <3>3. QED BY <1>2, <3>1, <3>2 DEF Open, OpenDefault, OpenRest, OpenAdmin
  <2>3. QED BY <2>1, <2>2
<1>3. CASE Generate
  BY <1>3 DEF Generate
<1>4. CASE Export
  BY <1>4 DEF Export, TruncateFile, WriteFile, ExportKilled, NoList, TslInv, TslTypeOK
<1>5. CASE RunImport
  BY <1>5 DEF RunImport, ReadXml, ReadYaml, StartImport, NewScheme, ImportText, EndImport, Import, pubVars
<1>6. QED BY <1>1, <1>2, <1>3, <1>4, <1>5 DEF Step

LEMMA ListNext == TslInv /\ ListInv /\ [Next]_vars => ListInv'
<1> SUFFICES ASSUME TslInv, ListInv, [Next]_vars PROVE ListInv'
  OBVIOUS
<1>0. pub.at \in {"idle", "providers", "services", "truncate", "write"}
  BY DEF TslInv, TslTypeOK
<1>1. CASE Next
  <2>1. Watch /\ Step
    BY <1>1 DEF Next
  <2>2. /\ ~InList' => sure' = {} /\ seenProviders' = {} /\ seenServices' = {}
        /\ InList' => /\ sure' \subseteq Eligible'
                      /\ Holders' \subseteq seenProviders' /\ Holdings' \subseteq seenServices'
        /\ InList /\ InList' => /\ sure' \subseteq sure /\ seenProviders \subseteq seenProviders'
                                /\ seenServices \subseteq seenServices'
    BY <2>1, WatchFacts
  <2>3. CASE UNCHANGED <<pub, queue, entries, listed>>
    BY <2>2, <2>3 DEF ListInv, InList
  <2>4. CASE pub = NoList /\ pub'.at = "providers" /\ UNCHANGED <<queue, entries, listed>>
    BY <2>2, <2>4 DEF ListInv, InList, NoList
  <2>5. CASE ListProviders
    <3>1. /\ pub.at = "providers" /\ pub'.at = "services" /\ pub'.scheme = pub.scheme
          /\ queue' = ActiveProviders(pub.scheme) /\ entries' = entries /\ provider' = provider
      BY <2>5 DEF ListProviders, Reads, rowVars, TslInv, TslTypeOK
    <3>2. InList /\ InList' /\ entries' = {}
      BY <3>1 DEF InList, ListInv
    <3>3. Holders' = queue'
      BY <3>1, <3>2 DEF Holders, ActiveProviders, Present
    <3>4. \A h \in sure' : h[1] \in queue'
      BY <2>2, <3>2, <3>3 DEF Eligible
    <3>5. QED BY <2>2, <3>1, <3>2, <3>3, <3>4 DEF ListInv
  <2>6. ASSUME NEW p \in Providers, ListServices(p) PROVE ListInv'
    <3>1. /\ pub.at = "services" /\ pub'.at = pub.at /\ p \in queue
          /\ entries' = entries \cup {<<p, v>> : v \in ActiveServices(p)}
          /\ queue' = queue \ {p} /\ UNCHANGED <<provider, service>>
      BY <2>6 DEF ListServices, WriteOf, Reads, rowVars, TslInv, TslTypeOK
    <3>2. InList /\ InList'
      BY <3>1 DEF InList
    <3>3. ASSUME NEW h \in sure' PROVE h \in entries' \/ h[1] \in queue'
      <4>1. h \in sure /\ h \in Eligible
        BY <2>2, <3>2, <3>3 DEF ListInv
      <4>2. CASE h[1] = p
        <5>1. h = <<p, h[2]>> /\ h[2] \in ActiveServices(p)
          BY <4>1, <4>2 DEF Eligible, Holdings
        <5>2. QED BY <3>1, <5>1
      <4>3. CASE h[1] # p
        BY <3>1, <4>1, <4>3 DEF ListInv
      <4>4. QED BY <4>2, <4>3
    <3>4. ASSUME NEW h \in entries' PROVE h \in seenServices' /\ h[1] \in seenProviders'
      <4>1. CASE h \in entries
        BY <2>2, <3>1, <3>2, <4>1 DEF ListInv
      <4>2. CASE h \in {<<p, v>> : v \in ActiveServices(p)}
        <5>1. h \in Holdings /\ h[1] = p
          BY <4>2 DEF Holdings, ActiveServices
        <5>2. QED BY <2>2, <3>1, <3>2, <5>1 DEF ListInv
      <4>3. QED BY <3>1, <3>4, <4>1, <4>2
    <3>5. queue' \subseteq seenProviders'
      BY <2>2, <3>1, <3>2 DEF ListInv
    <3>6. QED BY <2>2, <3>1, <3>3, <3>4, <3>5 DEF ListInv
  <2>7. CASE Complete
    <3>1. entries' = {} /\ pub'.at \in {"idle", "truncate"}
      BY <2>7 DEF Complete, NoList, TslInv, TslTypeOK
    <3>2. QED BY <2>2, <3>1 DEF ListInv, InList
  <2>8. CASE /\ pub.at \in {"truncate", "write"} /\ pub'.at \in {"idle", "write"}
             /\ UNCHANGED <<queue, entries, listed>>
    BY <2>2, <2>8 DEF ListInv, InList
  <2>9. QED BY <2>1, <2>3, <2>4, <2>5, <2>6, <2>7, <2>8, ListSteps
<1>2. CASE UNCHANGED vars
  BY <1>2 DEF vars, rowVars, pubVars, watchVars, ListInv, InList, Eligible, Holders, Holdings,
              ActiveProviders, ActiveServices, Present
<1>3. QED BY <1>1, <1>2

LEMMA ListInit == Init => ListInv
BY DEF Init, ListInv, InList, NoList

LEMMA PublishedInit == Init => Published!Init
BY DEF Init, Published!Init, InList, NoList

LEMMA PublishedNext == TslInv /\ ListInv /\ [Next]_vars => [Published!Next]_Published!vars
<1> SUFFICES ASSUME TslInv, ListInv, [Next]_vars PROVE [Published!Next]_Published!vars
  OBVIOUS
<1>1. CASE Next
  <2>1. Watch /\ Step
    BY <1>1 DEF Next
  <2>2. Published!Eligible' = Eligible'
    BY DEF Published!Eligible, Eligible
  <2>3. CASE ~InList /\ InList' /\ listed' = listed
    <3>1. Published!Begin
      BY <2>1, <2>2, <2>3 DEF Watch, Published!Begin
    <3>2. QED BY <3>1 DEF Published!Next
  <2>4. CASE InList' = InList /\ listed' = listed
    <3>1. Published!Change
      BY <2>1, <2>2, <2>4 DEF Watch, Published!Change, Published!Forget
    <3>2. QED BY <3>1 DEF Published!Next
  <2>5. CASE Complete
    <3>1. /\ pub.at = "services" /\ queue = {} /\ listed'.pairs = entries
          /\ pub'.at \in {"idle", "truncate"}
      BY <2>5 DEF Complete, NoList, TslInv, TslTypeOK
    <3>2. InList /\ ~InList'
      BY <3>1 DEF InList
    <3>3. sure \subseteq entries /\ entries \subseteq Published!Possible
      BY <3>1 DEF ListInv, Published!Possible
    <3>4. Published!Publish
      BY <2>1, <3>1, <3>2, <3>3 DEF Watch, Published!Publish, Published!Forget
    <3>5. QED BY <3>4 DEF Published!Next
  <2>6. \/ ~InList /\ InList' /\ listed' = listed
        \/ InList' = InList /\ listed' = listed
        \/ Complete
    BY <2>1, ListSteps DEF InList, NoList, ListProviders, ListServices, WriteOf, TslInv, TslTypeOK
  <2>7. QED BY <2>3, <2>4, <2>5, <2>6
<1>2. CASE UNCHANGED vars
  BY <1>2 DEF vars, rowVars, pubVars, watchVars, Published!vars, InList, Holders, Holdings,
              ActiveProviders, ActiveServices, Present
<1>3. QED BY <1>1, <1>2

\* The list that a generator puts together query by query, while requests, forms,
\* deletions and imports go on, is what PublishedList promises.
THEOREM PublishedSpecHolds == Spec => PublishedSpec
<1>1. TslInv /\ TslInv' /\ ListInv /\ [Next]_vars => [Published!Next]_Published!vars
  BY PublishedNext
<1>2. Spec => []ListInv
  BY AlwaysInv, ListInit, ListNext, PTL DEF Spec
<1>3. QED BY <1>1, <1>2, AlwaysInv, PublishedInit, PTL DEF Spec, PublishedSpec, Published!Spec

-----------------------------------------------------------------------------
(***************************************************************************)
(* What the formats write, and what an import reads back                   *)
(***************************************************************************)

\* A row that is written and read again, by format.
LEMMA RoundTripRow ==
    ASSUME NEW f \in Formats, NEW r \in SchemeRow
    PROVE  LET h == SchemeElement(f, r)
               back == ImportedScheme(h, DatesElement(f, r))
           IN /\ back.seq = r.seq
              /\ back.texts \cup ImportedTexts(h) = r.texts
              /\ back.special = r.special \cap ReadBack
              /\ f # "standard" => /\ back.issue.second = r.issue.second
                                 /\ back.next.second = r.next.second
<1> DEFINE h == SchemeElement(f, r)
           d == DatesElement(f, r)
           back == ImportedScheme(h, d)
<1>1. h.seq = r.seq /\ h.special = r.special /\ h.texts = r.texts
  BY DEF SchemeElement, StandardScheme, GoTrustScheme, EtsiScheme, Formats
<1>2. f # "standard" =>
        /\ ParseDatetime(d.issued) = [second |-> r.issue.second, fraction |-> "zero"]
        /\ ParseDatetime(d.next) = [second |-> r.next.second, fraction |-> "zero"]
  BY WrittenDates
<1>3. r.issue \in Dates /\ r.texts \subseteq SchemeTexts
  BY DEF SchemeRow
<1> HIDE DEF h, d
<1>4. /\ back.seq = h.seq /\ back.special = h.special \cap ReadBack
      /\ back.texts = h.texts \cap {"distribution_points"}
      /\ back.issue = IF ParseDatetime(d.issued) = NoDate THEN Now ELSE ParseDatetime(d.issued)
      /\ back.next = ParseDatetime(d.next)
  BY DEF ImportedScheme
<1>5. ImportedTexts(h) = h.texts \ {"distribution_points"}
  BY DEF ImportedTexts
<1>6. [second |-> r.issue.second, fraction |-> "zero"] # NoDate
  BY <1>3 DEF Dates, Seconds, NoDate
<1> HIDE DEF back
<1>7. back.texts \cup ImportedTexts(h) = r.texts
  BY <1>1, <1>4, <1>5
<1>8. f # "standard" => back.issue.second = r.issue.second /\ back.next.second = r.next.second
  BY <1>2, <1>4, <1>6
<1>9. QED BY <1>1, <1>4, <1>7, <1>8 DEF back, h, d

\* Whatever scheme row a registry gets to, a file that can be read brings back its
\* number, its texts and the fields that are read, and a go-trust or ETSI one its
\* dates to the second.
THEOREM RoundTripAlways == Spec => []RoundTrip
<1>1. TslInv => RoundTrip
  <2> SUFFICES ASSUME TslInv PROVE RoundTrip
    OBVIOUS
  <2>1. \A s \in Schemes : Present(scheme, s) => scheme[s] \in SchemeRow
    BY DEF TslInv, TslTypeOK, Present
  <2>2. QED BY <2>1, RoundTripRow DEF RoundTrip
<1>2. QED BY <1>1, AlwaysInv, PTL

LEMMA ProviderFormats ==
    ASSUME NEW f \in Formats, NEW d, NEW a
    PROVE  /\ [ProviderElement(f, d, a) EXCEPT !.address = TRUE] = ProviderElement("etsi", d, a)
           /\ \/ ProviderElement(f, d, a).address
              \/ ProviderElement(f, d, a).postal \cup ProviderElement(f, d, a).mail = {}
<1>1. ProviderElement("etsi", d, a) =
        [names |-> d \cap {"name"}, trade |-> d \cap {"trade"}, postal |-> Postal(a),
         mail |-> d \cap {"mail"}, address |-> TRUE]
  BY DEF ProviderElement, EtsiProvider
<1>2. PICK addr \in BOOLEAN :
        /\ ProviderElement(f, d, a) =
             [names |-> d \cap {"name"}, trade |-> d \cap {"trade"}, postal |-> Postal(a),
              mail |-> d \cap {"mail"}, address |-> addr]
        /\ addr \/ (Postal(a) = {} /\ d \cap {"mail"} = {})
  <2>1. CASE f = "standard"
    <3>1. ProviderElement(f, d, a) = StandardProvider(d, a)
      BY <2>1 DEF ProviderElement
    <3>2. QED BY <3>1 DEF StandardProvider
  <2>2. CASE f = "gotrust"
    <3>1. ProviderElement(f, d, a) = GoTrustProvider(d, a)
      BY <2>2 DEF ProviderElement
    <3>2. "street" \notin a => Postal(a) = {}
      BY DEF Postal
    <3>3. QED BY <3>1, <3>2 DEF GoTrustProvider
  <2>3. CASE f = "etsi"
    BY <1>1, <2>3
  <2>4. QED BY <2>1, <2>2, <2>3 DEF Formats
<1>3. QED BY <1>1, <1>2

LEMMA PointerFormats ==
    ASSUME NEW f \in Formats, NEW certs
    PROVE  UNION Identities(f, certs) = certs
<1>1. CASE f = "etsi"
  BY <1>1 DEF Identities, IdentityEach
<1>2. CASE f # "etsi" /\ certs = {}
  BY <1>2 DEF Identities, OneIdentity
<1>3. CASE f # "etsi" /\ certs # {}
  BY <1>3 DEF Identities, OneIdentity
<1>4. QED BY <1>1, <1>2, <1>3

LEMMA ServiceFormats ==
    ASSUME NEW f \in Formats, NEW v, NEW q, NEW c
    PROVE  /\ ServiceElement(f, v, q, c).status = v.status
           /\ ServiceElement(f, v, q, c).names = q \cap {"name"}
           /\ \A i \in ServiceElement(f, v, q, c).identities : \E x \in c : i.pem = x.pem
           /\ \A x \in c : \E i \in ServiceElement(f, v, q, c).identities : i.pem = x.pem
           /\ ServiceElement(f, v, q, c).parts =
                IF f = "etsi" THEN (q \cap Extensions) \cup EtsiHistory(q)
                ELSE q \cap (Supply \cup {"history"})
<1>1. CASE f = "standard"
  <2>1. ServiceElement(f, v, q, c) = StandardService(v, q, c)
    BY <1>1 DEF ServiceElement
  <2>2. ASSUME NEW x \in c PROVE \E i \in ServiceElement(f, v, q, c).identities : i.pem = x.pem
    <3> DEFINE i == [pem |-> x.pem, subject |-> "omitted"]
    <3>1. i \in ServiceElement(f, v, q, c).identities /\ i.pem = x.pem
      BY <2>1 DEF StandardService
    <3>2. QED BY <3>1
  <2>3. \A i \in ServiceElement(f, v, q, c).identities : \E x \in c : i.pem = x.pem
    BY <2>1 DEF StandardService
  <2>4. /\ ServiceElement(f, v, q, c).status = v.status
        /\ ServiceElement(f, v, q, c).names = q \cap {"name"}
        /\ ServiceElement(f, v, q, c).parts = q \cap (Supply \cup {"history"})
    BY <2>1 DEF StandardService
  <2>5. QED BY <1>1, <2>2, <2>3, <2>4
<1>2. CASE f = "gotrust"
  <2>1. ServiceElement(f, v, q, c) = GoTrustService(v, q, c)
    BY <1>2 DEF ServiceElement
  <2>2. ASSUME NEW x \in c PROVE \E i \in ServiceElement(f, v, q, c).identities : i.pem = x.pem
    <3> DEFINE i == [pem |-> x.pem, subject |-> "omitted"]
    <3>1. i \in ServiceElement(f, v, q, c).identities /\ i.pem = x.pem
      BY <2>1 DEF GoTrustService
    <3>2. QED BY <3>1
  <2>3. \A i \in ServiceElement(f, v, q, c).identities : \E x \in c : i.pem = x.pem
    BY <2>1 DEF GoTrustService
  <2>4. /\ ServiceElement(f, v, q, c).status = v.status
        /\ ServiceElement(f, v, q, c).names = q \cap {"name"}
        /\ ServiceElement(f, v, q, c).parts = q \cap (Supply \cup {"history"})
    BY <2>1 DEF GoTrustService
  <2>5. QED BY <1>2, <2>2, <2>3, <2>4
<1>3. CASE f = "etsi"
  <2>1. ServiceElement(f, v, q, c) = EtsiService(v, q, c)
    BY <1>3 DEF ServiceElement
  <2>2. ASSUME NEW x \in c PROVE \E i \in ServiceElement(f, v, q, c).identities : i.pem = x.pem
    <3> DEFINE i == [pem |-> x.pem, subject |-> x.subject]
    <3>1. i \in ServiceElement(f, v, q, c).identities /\ i.pem = x.pem
      BY <2>1 DEF EtsiService, EtsiIdentity
    <3>2. QED BY <3>1
  <2>3. \A i \in ServiceElement(f, v, q, c).identities : \E x \in c : i.pem = x.pem
    BY <2>1 DEF EtsiService, EtsiIdentity
  <2>4. /\ ServiceElement(f, v, q, c).status = v.status
        /\ ServiceElement(f, v, q, c).names = q \cap {"name"}
        /\ ServiceElement(f, v, q, c).parts = (q \cap Extensions) \cup EtsiHistory(q)
    BY <2>1 DEF EtsiService, EtsiExtensions
  <2>5. QED BY <1>3, <2>2, <2>3, <2>4
<1>4. QED BY <1>1, <1>2, <1>3 DEF Formats

\* Whatever rows a registry gets to, no related row of a service is lost to all
\* formats, and they agree on what the others of them depend on.
THEOREM EveryRowPublishedAlways == Spec => []EveryRowPublished
<1>1. TslInv => EveryRowPublished
  <2> SUFFICES ASSUME TslInv PROVE EveryRowPublished
    OBVIOUS
  <2>1. ASSUME NEW v \in Services, Present(service, v)
        PROVE  LET e(f) == ServiceElement(f, service[v], parts[v], CertsOf(v))
               IN /\ parts[v] \ ({"name"} \cup Raw) = UNION {e(f).parts : f \in Formats}
                  /\ \A f \in Formats :
                       /\ e(f).status = service[v].status
                       /\ e(f).names = parts[v] \cap {"name"}
                       /\ {i.pem : i \in e(f).identities} = {x.pem : x \in CertsOf(v)}
    <3> DEFINE P(f) == ServiceElement(f, service[v], parts[v], CertsOf(v)).parts
    <3>1. parts[v] \in PartSets
      BY DEF TslInv, TslTypeOK
    <3>2. /\ P("standard") = parts[v] \cap (Supply \cup {"history"})
          /\ P("gotrust") = parts[v] \cap (Supply \cup {"history"})
          /\ P("etsi") = (parts[v] \cap Extensions) \cup EtsiHistory(parts[v])
      BY ServiceFormats DEF Formats
    <3> HIDE DEF P
    <3>3. UNION {P(f) : f \in Formats} = P("standard") \cup P("gotrust") \cup P("etsi")
      BY DEF Formats
    <3>4. parts[v] \ ({"name"} \cup Raw) = P("standard") \cup P("gotrust") \cup P("etsi")
      BY <3>1, <3>2 DEF PartSets, Parts, Supply, Extensions, History, EtsiHistory, Raw
    <3>5. parts[v] \ ({"name"} \cup Raw) = UNION {P(f) : f \in Formats}
      BY <3>3, <3>4
    <3>6. ASSUME NEW f \in Formats
          PROVE  LET e == ServiceElement(f, service[v], parts[v], CertsOf(v))
                 IN /\ e.status = service[v].status
                    /\ e.names = parts[v] \cap {"name"}
                    /\ {i.pem : i \in e.identities} = {x.pem : x \in CertsOf(v)}
      <4> DEFINE E == ServiceElement(f, service[v], parts[v], CertsOf(v))
      <4>1. E.status = service[v].status /\ E.names = parts[v] \cap {"name"}
        BY <3>6, ServiceFormats DEF Formats
      <4>2. \A i \in E.identities : \E x \in CertsOf(v) : i.pem = x.pem
        BY <3>6, ServiceFormats DEF Formats
      <4>3. \A x \in CertsOf(v) : \E i \in E.identities : i.pem = x.pem
        BY <3>6, ServiceFormats DEF Formats
      <4> HIDE DEF E
      <4>4. {i.pem : i \in E.identities} = {x.pem : x \in CertsOf(v)}
        BY <4>2, <4>3
      <4>5. QED BY <4>1, <4>4 DEF E
    <3>7. QED BY <3>5, <3>6 DEF P
  <2>2. ASSUME NEW p \in Providers, NEW f \in Formats
        PROVE  LET e(g) == ProviderElement(g, details[p], AddressOf[provider[p].entity])
               IN /\ [e(f) EXCEPT !.address = TRUE] = e("etsi")
                  /\ e(f).address \/ e(f).postal \cup e(f).mail = {}
    BY ProviderFormats
  <2>3. QED BY <2>1, <2>2, PointerFormats DEF EveryRowPublished
<1>2. QED BY <1>1, AlwaysInv, PTL

=============================================================================
