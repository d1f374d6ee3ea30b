# Verification of ms-registry

ms-registry is a Django service: the national registry of wallet relying parties
and credential issuers of the EUDI wallet. Operators register entities, an
integrated CA (django-ca) issues their access certificates, issuers upload
self-signed signing certificates, and two lists of trusted entities are built
from the database for `tsl-tool`, which signs and publishes them. It runs as four
uwsgi worker processes (`uwsgi.ini`) over one PostgreSQL database, at READ
COMMITTED and without `ATOMIC_REQUESTS`: unless a view opens a transaction, each
statement commits on its own. That is where the difficulty is, and what the
models are about: *one step of a worker is one read of the database or one
commit to it.*

Paths below are relative to `ms_registry/` of the repository.

## Inventory

| Component | State it keeps | Operations | Must hold |
|---|---|---|---|
| Access certificates (`certificates/ca_integration.py`, `signals.py`) | `EntityAccessCertificate` rows, the CA's certificates | issue/re-issue, revoke on suspension or revocation, delete with the entity | rows never run ahead of the CA; a suspended entity has no valid certificate; one current row |
| Signing certificates (`certificates/views.py` 556–856, `serializers.py`) | `EntitySigningCertificate` rows | upload (replaces), revoke | one current row per entitlement, never a revoked one, none lost by a failed replacement |
| LoTE views (`lote_source/views.py`) | none: computed from the rows above | GET of two lists | nothing revoked listed anew; stable providers get listed; untrusted ones leave; withdrawn ones stay |
| Entities and WRP API (`registry/`) | `RegisteredEntity`, `EntityEntitlement`, operators, support URIs, policies, `EntityUsesIntermediary` | POST (HTML, JSON, WRP), PUT, DELETE, admin forms | an operator and an entitlement always; a host belongs to one legal entity; chains of intermediaries end |
| Legal entities (`legal_entities/`) | `LegalEntity`, persons, `Identifier` | created by forms, JSON and WRP POSTs; edited, deleted | every legal entity is found by its identifier |
| Credentials and intended uses (`credentials/`) | `IntendedUse`, credentials, claims, policies | declare, revoke, signed check | check confirms nothing that was revoked; a use has its parts |
| Issuance policy (`certificates/ca_integration.py`) | none: computed from the entity, its legal entity and its entitlements | eligibility, subject, SAN, policy OID, qcStatements, checks of the CSR | a certificate is of one kind of person and of one set of entitlements, and is qualified in every respect or in none |
| TSL generator (`tsl_generator/`) | scheme, providers, services, certificates, and the texts, history and extensions that hang on them | CRUD over REST, admin forms, XML in three formats, export to a file, XML and YAML import | a list shows what was there; no row without its name or its own subject; the formats agree; what is exported and can be read comes back |
| Certificate decoding, CT log | none | DER walk, submission | decoding agrees with encoding |
| Participants (`participant/`) | users, JWT | login, refresh | scoping of every mutation to operators |
| Core, settings, templates, migrations | – | – | – |

How they interact. Everything shares the database. A save of `RegisteredEntity`
fires `pre_save`/`post_save` receivers that compare the old and the new status
and, if the entity becomes suspended or revoked, register an `on_commit`
callback; it runs in the worker that saved, after its commit, re-reads the
entity and revokes the current access certificates one by one: first at the CA,
then in the local row. Entitlements decide which signing certificates may be
uploaded and which list an entity is on. Deleting an entity (or its legal entity
or supervisory authority) cascades to all its rows; the CA keeps its own.

What is hard here: reads that are stale when used (every `save()` of an instance
loaded earlier writes *all* columns), check-then-insert without constraints,
multi-statement writes in autocommit, the CA as a second store that the
transaction does not cover, callbacks that exist only in the memory of one
process, lists built from several queries, exports and imports that stop halfway.
`PROJECT.json` names 40 such hazards, each at its line.

## Modules

| Module | Models | Shape |
|---|---|---|
| `AccessCertificates` | issuance, revocation callback, PUT, admin save, deletion, crash | state machine, one program counter per worker |
| `CertificateLedger` | what the above promises: rows and CA change atomically | abstract specification, refined by `AccessCertificates` |
| `SigningCertificates` | upload, revocation, PUT of entitlements, admin save, deletion, crash | state machine, same conventions |
| `LoteSource` | extends `SigningCertificates` with the two lists and their fetches | composition |
| `Registration` | registration form and JSON endpoint, POST and PUT /wrp, legal entities, hosts, intermediaries, admin edits, deletion, crash | state machine, same conventions |
| `TrustedList` | the TSL generator: REST, admin forms, deletions, lists, export, imports, crash | state machine, same conventions |
| `TrustedListXml` | what the three generators write of a row, what the importers read back | operators, used by `TrustedList` |
| `PublishedList` | what a list promises that is built while the database changes | abstract specification, refined by `TrustedList` |
| `IntendedUses` | declaration, alone and with a new entity, revocation, check, admin forms, deletions, crash | state machine, same conventions |
| `DerCodec`, `IssuancePolicy` | the DER the registry writes and reads itself; subject, SAN, policy, qcStatements, checks of the CSR | operators |
| `RelyingParty` | extends the three above with PUT of entitlements, issuance and administration | composition |
| `AccessCertificates_proofs`, `AccessSerial_proofs`, `SigningCertificates_proofs`, `LoteSource_proofs`, `Registration_proofs`, `TrustedList_proofs`, `IssuancePolicy_proofs`, `RelyingParty_proofs` | – | theorems |
| `MC*` | – | constants and symmetry for TLC |

### AccessCertificates

Database variables are columns: `status` (`registration_status`, plus
`unregistered` and `deleted`), `operated` (a non-empty operators M2M), `record`
(`is_current` of a certificate row), `holder`, `noted` (`revoked_at` with its
reason) and `ca` (the django-ca certificate: valid, or the reason it was revoked
for). The rest are locals of requests: `pc`, the entity `ent`, the loaded status
`new`, the receiver's `_pre_save_status` `old`, the certificate rows read (`rows`),
the one revoked at the CA but not yet noted (`cert`), and who serves an admin
form.

* Issuance: `IssueRequest` → `IssueCheck` (`get_entity_for_issuance`, the only
  look at the status) → `IssueSupersede` (transaction open; the UPDATE that clears
  `is_current` has locked its rows, `Locked`) → `IssueCommit` or `IssueFail`.
* Save of an entity: `PutLoad` or `AdminLoad` → `PreSave` → `SaveRow`, which writes
  every column back, decides whether a revocation is due, and re-inserts an entity
  deleted meanwhile.
* Callback: `RevokeSelect` → `RevokeAtCA` or `RevokeRefused` → `NoteRevocation`,
  until `RevokeDone`.
* `Register`, `AdminRegister`, `Delete` are single transactions; `Crash` ends a
  request anywhere: open transactions roll back, callbacks are lost.

### SigningCertificates

`row`/`holder`/`kind`/`revoked` are the columns of `EntitySigningCertificate`;
`entitlement` is a function on pairs of entity and type: `none`, or `is_active`.
`UploadValidate` → `UploadDemote` (UPDATE, rows stay locked) → `UploadStore`, which
fails on the partial unique index `unique_current_signing_cert_per_entitlement` if
a current row exists that it did not demote itself. `RevokeRead` → `RevokeSave` is
the DELETE handler: the row is read, then three columns are written, whatever has
happened to it. `PutLoad` → `PutSave` → `PutClear` → `PutGrant`* → `PutDone` is
PUT /wrp, one statement at a time, `stored` being the status it loaded. One
entitlement type stands for one URI: `entitlement_type` is the URI's last segment.

### LoteSource

`SelectEntities` is the first query of a GET (status, entitlement), `PublishList` the
prefetch of the certificates and the response. `published[t][e]` is the entry a
verifier sees: a certificate and a service status (absent for PID providers,
notified or withdrawn for PuB-EAA providers). Names, addresses and the scheme
header are layout; an entity is assumed to have one of the three information
URIs, without which the code leaves it out.

### Registration

`party`, `identifier` and `linked` are legal entities: the row, its primary
identifier and its `LegalEntityIdentifier`, by which check-intended-use finds the
entities. `entity`, `holder`, `host`, `intermediary` and `uses` are the registered
entities, `host` being the host of `domain_uri`, the only part of it that the guard
compares and a certificate carries.

* Form and JSON: `LegalCreate` → `LegalLink`, two statements in autocommit, by a form
  of their own or as the first part of the registration form; then, or from
  `FormSubmit`, `FormValidate` (the guard `Claimed`) → `FormStore` (`perform_create`).
* `WrpPost` (validation and lookups) → `WrpCommit`: one transaction, which may create
  the legal entity with its link, the entity and its `uses`.
* `PutLoad` → `PutSave`: every column of the loaded instance, so that a deleted
  entity comes back if its legal entity is still there.
* `AdminEdit`, `AdminUse` (an inline), `DeleteEntity`, `DeleteLegal` with its cascade.

### TrustedList, TrustedListXml, PublishedList

`scheme`, `provider`, `service` and `cert` are the tables; `details` and `parts` say
which related rows a provider or a service has (names, addresses, supply points,
extensions, history), as far as a generator treats them differently. A scheme's key
is its place in the order of `created_at`, which the default URL sorts by.

* POST: `PostProvider`, `PostService` or `PostServiceAndProvider` validate, then one
  insert at a time in the order of `InsertOrder` (`InsertProvider`, `InsertDetail`,
  `InsertService`, `InsertServiceName`, `InsertCert`), each committed by itself;
  `SaveCertAgain` is the second `save()` of a certificate. `Abort` is a refusal by the
  database halfway, after which the inserted rows stay.
* PATCH: `LoadProvider` → `SaveProvider`, `LoadService` → `SaveService`: all columns
  are written, so that a row deleted meanwhile is inserted again, bare.
* A list: `OpenRest`, `OpenDefault`, `OpenAdmin` or `OpenExport`, then
  `ListProviders` (one query), `ListServices` (one for each provider), `Complete`. An
  export goes on with `TruncateFile` → `WriteFile`, or `ExportKilled` in between.
* An import: `ReadXml` or `ReadYaml`, then `NewScheme`, `ImportText`*, `EndImport`.
  `_import_tsp` passes the model an address it has no column for and raises, so
  that no import gets beyond the texts; what it left is committed.

`TrustedListXml` gives an element as the record of what it contains. A field is
`special` if it holds an XML metacharacter. The standard format goes through
ElementTree and escapes everything; the other two are put together line by line,
and each leaves its own set of fields as they are (`GoTrustUnescaped`, `EtsiUnescaped`;
`pointers` stands for the unescaped columns of pointers and their certificates). A
document with such a field does not parse. The same goes, in the go-trust format,
for the languages of names, which the REST endpoints take unchecked (`Raw`), and for
the lines of a PEM (`Breaking`; `get_base64_der` keeps the text before BEGIN): `WriteOf` marks the text of the export as broken. The
constants of statuses and service types are choices and hold no metacharacter. A
date is a second and whether there is a fraction of it: `StrfTime` drops the fraction,
`IsoFormat` keeps it and writes the zone as an offset, `ParseDatetime` reads what ends
in Z. What it returns has no zone; it is stored in the default zone, which is UTC
(`settings.py:129` and `:133`), so it is the same instant. `sure`, `seenProviders`,
`seenServices` and `cut` are history variables, and no action reads them.
`PublishedList` is stated over `Holders` and `Holdings`, the rows of the moment, and
knows nothing of queries: it only says that the list contains what was eligible in
every state since it was begun and nothing whose holder or holding was in none.

### IntendedUses

`use`, `policy`, `purposes`, `privacy` and `creds` are the tables. `Declare` takes the body
apart into `Items`, in the order in which `perform_create` stores them, and
`InsertUse`, `InsertPurpose`, `FindPolicy` → `CreatePolicy` (`get_or_create`, on a column
without a unique index) → `LinkPolicy`, `InsertCredential` serve them one commit at a
time. `WrpLook` → `WrpCommit` is POST /wrp with its transaction. `RevokeLoad` →
`RevokeSave` sets the end. `CheckEntity` → `CheckUses` is check-intended-use, whose
answer is the variable `answer` for one step. Between the two queries uses are revoked,
deleted and declared. `revoked` is a history variable: the uses that `RevokeSave` has
ended, until an administrator saves them again. `Tick` is midnight: starts and ends
are dates.

### DerCodec, IssuancePolicy, RelyingParty

`Tlv`, `EncodeOid` and `ReadTlv`, `DecodeOid`, `FormatQcStatements` are the two halves of
the registry's own DER, octet by octet, since the property is that one reads what
the other writes at lengths that need more than one octet. `IssuancePolicy` has one
operator per function of `ca_integration.py`; the value of an attribute is a tuple of
words. In `RelyingParty`, `IssueLoad` reads the entity with its legal entity,
`IssueRead` checks and reads the entitlements and support URIs, `IssueSign` signs what
was loaded; `PutDelete` → `PutCreate`* → `PutEnd` is the PUT that replaces
entitlements, `AdminSaveLegal`, `AdminSaveEntity` and `RemoveEntity` change the rows
underneath. Here an issuance has one certificate, the last: what becomes of earlier
ones is the subject of `AccessCertificates`.

## Runs

| Run | Asks | Result |
|---|---|---|
| `access_concurrent` | two workers, one entity, three certificates, suspensions and revocations, deletion, refusals by the CA, crashes: `NotedIsRevokedAtCA`, `HasCurrent`, `RowsBelongToRegistered`, the inductive `IInv`, and refinement of `CertificateLedger` | holds |
| `access_serial` | one worker, two entities, all four statuses, no faults: `SuspensionRevokes`, `OneCurrent`, `ReasonInSync`, `SerialInv`, and the liveness property `SuspensionCompletes` | holds |
| `access_superseded` | does a suspension revoke *all* valid certificates? | violated: earlier ones stay valid |
| `access_race` | `SuspensionRevokes` with two workers | violated: issuance overtaken by a suspension |
| `access_operators` | "never empty" operators with PUT racing DELETE | violated: the entity comes back without any |
| `signing` | two workers, three certificates, PUT lists with a duplicate, admin edits, deletion, failures, crashes: `OneCurrentSigning`, `HasCurrentSigning`, `CurrentNotRevoked`, inductive `SigningInv`, `EntitledWhenQuiet` | holds |
| `lote` | both lists fetched for ever beside one worker and the administrator: `RevokedNeverRelisted`, `ProvidersGetListed`, `UntrustedLeaveLists` | holds |
| `lote_permanence` | do withdrawn entries stay? | violated: the operator can still revoke the certificate |
| `registration` | two workers, three entities, two legal entities with one identifier, an inline, deletions, crashes: `UsesAcyclic`, `EntitiesFindable`, `RegTypeOK`, the inductive `RegInv` | holds |
| `registration_hosts` | one worker: does a host belong to one legal entity? | violated: POST /wrp compares no hosts |
| `trusted_list` | one worker, admin, lists, exports and imports: `TslTypeOK`, `IdentityMatchesPem`, `NamelessHasCause`, `EveryRowPublished`, `RoundTrip`, refinement of `PublishedList`, and the liveness property `EligibleGetsListed` | holds |
| `relying_party` | two workers declare, revoke and check, two issuers issue and PUT, with administration and crashes: `RelyingTypeOK`, `UseHasParts`, `PolicyRowsBounded`, `QualifiedConsistent`, `OneKindOfPerson`, and the action property `RevokedNotConfirmed` | holds |

The violated ones are findings, with the documents they contradict quoted in
`PROJECT.json`.

Bounds. Entities meet only through the request a worker serves: nothing in the
code relates the certificates of two entities, so one entity suffices where the
question is interleaving, and `access_serial` has two to see that they do not
interfere. Two workers give every pairwise race; the proofs cover any number. Three
certificates are what two racing replacements of one current certificate need. In
`signing`, PUT lists are one that keeps the issuer entitlement and one, with a
duplicate, that drops it; statuses not needed by the question are left out of
`FormStatuses`. `lote` has one worker because a fetch is the second actor, and two
certificates for one replacement; it leaves out admin edits of entitlements and
deletion (constants `AdminRows`, `Deletable`), which `signing` has, as it has
`HasCurrentSigning`. In `registration` three
entities allow a cycle longer than two; two legal entities may share the one
identifier and the one host, so that every comparison of either meets an equal
value; the pair an administrator may enter is one, which `UsesAcyclic` does not
count. Certificates and entities are not reused, so every behaviour ends its creations; deadlock checking is off where
everything may have been deleted and used up.

`trusted_list` (151,556 states) starts with a list that has two providers of one
scheme and a service of the first, and has two requests (`MaxWrites`) on top: enough
for a write during a list, for a deletion between the load and the save of a PATCH,
for an import next to an edit, and for an export that is read back. Room for one
provider, service, certificate and scheme more lets each be created once. One list
is put together at a time, since readers do not disturb each other. PEMs differ in
whether they are a certificate, which is all that `ExtractMetadata` tells apart, and
in whether they hold a metacharacter, which the text that tools print before BEGIN
may have. The POST of a service has a withdrawn status, a language and a PEM that
break the export; a malformed PEM comes with the administrator's saves, which may
give any. Dates of the rows have a fraction or none, or are missing.

`relying_party` (331,437 states) has three requests that write (`MaxWrites`): two
declarations that overlap at `FindPolicy` and a third request, or a change of the
legal entity and of the entitlements around an issuance. Workers, issuers and the
rows that are created are symmetric; no liveness is checked under symmetry. The
entity holds all ten entitlements, so that the qcStatements need two length octets;
the registry starts with an intended use whose two credentials meet the criteria
only together, and a second legal entity, to which an administrator may move an
entity. A legal entity may become a natural person, or lose its identifier, while an
issuance is under way; of the requests two repeat an attribute and one is that of a
natural person. Of two days one is past after `Tick`.

`CrashAt` names where workers are killed. `signing` leaves out the two points after
the DELETE of the entitlements: there the code does leave an entity without any,
as it does when a PUT without `entitlements` inserts a deleted entity again, and
`EntitledWhenQuiet` is about the rest. `registration` leaves out the point between a
legal entity and its identifier link: a crash there leaves entities that
check-intended-use cannot find, and `EntitiesFindable` is about the rest. The
transactions it may interrupt roll back.

Fairness. `access_serial`: weak fairness of what a worker does on its own once a
request has been accepted (`Advance`): a process that is not killed keeps
executing. No request, save or deletion is ever obliged to arrive. `lote`: weak
fairness of `Fetch`, since `tsl-tool` polls the lists; nothing the registry's users
do is fair. `trusted_list`: weak fairness of the generator, and of an export once it has
been started (it may still be killed), as for any process that keeps executing;
strong fairness of `OpenDefault`, because the reader of the default list asks for it
again and again, while other lists may be under way at any one moment. No insert of
a POST, no step of an import and no request has to be taken.

## Proofs

For every value of the constants that satisfies the named assumptions:

* `AccessCertificates_proofs`: `IInv` is inductive, hence `TypeOK`,
  `NotedIsRevokedAtCA`, `HasCurrent` and `RowsBelongToRegistered` always hold; and
  every step maps to a step or a stutter of `CertificateLedger` (`ImplementsLedger`).
  The invariants alone are not inductive: a request acts on what it read some steps
  ago. `LocalsInv` says what of that is still true: the rows in hand belong to the
  entity in hand and were issued, the certificate about to be noted is revoked at
  the CA. It survives the steps of other workers because certificates never change
  holder and never return to unissued (`StaysSound`).
* `AccessSerial_proofs`, under `OneAtATime` (one worker, no refusal, no crash):
  `SuspensionRevokes`, `OneCurrent` and `ReasonInSync`. `SerialInv` adds that a valid
  current certificate of a suspended entity is on the list of the request under
  way (`RevocationOwed`); between requests there is none. The runs `access_race` and
  `access_concurrent` show the hypothesis is needed.
* `SigningCertificates_proofs`: `SigningInv`, hence `OneCurrentSigning`,
  `HasCurrentSigning`, `CurrentNotRevoked`, for any number of workers and crashes
  anywhere. The argument is `RequestSound`: rows an open upload has demoted are still
  rows of its entity, because revocation and deletion wait for the lock; with the
  index, what it commits replaces exactly the current row.

* `Registration_proofs`: `RegInv`, hence `RegTypeOK` and `UsesAcyclic`, for any number
  of entities and workers and crashes anywhere. `UsesAcyclic` alone is not
  inductive: what makes it so is that `uses` relates registered entities only. A new
  entity then has no edge towards it and cannot close a chain (`NewUses`), and an
  entity that a stale PUT inserts again has lost its edges with the deletion.
  `RequestSound` says what a request may rely on from its earlier reads. Under the
  assumption that no worker is killed at `linking`, `EntitiesFindable` follows from
  `LinkInv`: a stored legal entity has its link, or the request that owes it is alive.
* `SigningCertificates_proofs` also has `EntitledWhenQuiet`, under `Undisturbed`: no
  crash between the deletion and the last insert of a PUT, no PUT without
  entitlements, no administrator who removes the last one. `EntitledInv` says that a
  registered entity is entitled *or owed* an entitlement by a PUT under way; a PUT
  that fails on a row that exists already leaves that row.
* `LoteSource_proofs`: a fetch only reads, so `SigningInv` stays inductive beside it,
  which gives `HasCurrentSigning` and, with the entries of both lists,
  `LoteTypeOK`. `RevokedNeverRelisted` follows because the entry is built from the
  certificates of the second query (`EntrySound`): they are current, hence not
  revoked (`CurrentNotRevoked`), whatever the first query saw.
* `TrustedList_proofs`: `TslInv` adds to `TslTypeOK` what a request knows (`Sound`: an
  insert that refers to a provider has one) and what an export and an import carry
  (`CarriedOK`). `IdentityMatchesPem` needs that the copy which a POST saves a second
  time has the subject of its own PEM (`Sound`); `NamelessHasCause` is inductive beside `TslInv`, a
  POST that still owes a name being its cause. `PublishedSpecHolds` maps every step to a step or a stutter of `PublishedList`;
  its invariant says that each provider of the queue was seen, that each pair
  written was possible, and that a sure pair is written or its provider is still in
  the queue. `EveryRowPublished` and `RoundTrip` hold of every row of the types: they
  are about the functions of `TrustedListXml`, not about the order of steps.
  Assumed: `TslSentinels`, `TslInputs`, `TslStartNamed`, which are about the rows the
  registry starts with and the inputs.
* `RelyingParty_proofs`: `UsesInv` (types, and what a request on an intended use
  carries) next to the issuances; `Parts`, from which `UseHasParts`: each of the three
  kinds of rows is there or in the `todo` of the request that owes it, and an insert
  moves it from one to the other; `RowsCounted`, from which `PolicyRowsBounded`: the
  rows of a URI and the requests that have found none are together at most as many
  as the workers, because a request that looks while there is a row will not make
  one; `RevokedEnded`, from which `RevokedNotConfirmed`: a revoked use has an end or is
  deleted, and no declaration takes up its key again; `PartyInv`, from which
  `OneKindOfPerson`: a request that signs was accepted as it was loaded, so that its
  subject has the attributes of the kind of person that the policy is chosen for.
  Assumed:
  `UsesSentinels`, `UsesInputs` (bodies have passed the serializers), `UsesStart` (the
  registry starts with complete uses) and `PartyInputs`.

  `UsesTypeOK` and `PartyInv` together give `RelyingTypeOK`, the octets of every
  qcStatements included. For `QualifiedConsistent` `PartyInv` says that what has been signed agrees with
  one reading of the entitlements (`Agrees`): policy OID, extension and page are functions of the one
  set loaded, and `QcStatementsReadBack` says that the page lists what the extension
  states.
* `Registration_proofs` also has the guard of hosts, whose promise the run
  `registration_hosts` violates. With one process, a host shared by two legal entities
  came through the ways that never compare it (`FormGuardsHosts`), and if there are
  none (`FreeHosts = {}`) a host has one legal entity (`OneLegalEntityPerHost`). `HostInv`
  says that the host a request carries was compared with the entities registered now,
  although the row it goes to may have been deleted since and is inserted again.
* `IssuancePolicy_proofs`, without any assumption: the page's DER reader is the
  inverse of the integration's DER writer. `TlvReadsBack` is about contents below 2^21
  octets at any offset of a longer string, `OidReadsBack` about every OID (below the
  roots 0 and 1 the second arc is under 40, so that the two share a number),
  `FormatReadsBack` about any number of statements. `QcStatementsReadBack` bounds an
  extension by 364 octets for any set of entitlements, and concludes that the page
  lists exactly the OIDs stated, each once.

The codec is built from recursive functions and folds, and no induction theorem of
the library can be used on them. Its proofs go by a least counterexample instead: the
set of the numbers below a bound where the claim fails is a set of naturals, and a
least element of it (`NatLessThanWellFounded`) contradicts one step of the recursion. That a recursive function
over an interval exists is proved the same way, by extending partial functions one
number at a time; the equations of `Digits`, `FoldLeft` and the loop of
`FormatQcStatements` follow. `Spells` says that a string is the encoding of a sequence of
statements one after the other, `Tells` that it is one of each OID of a set; appending
a statement preserves both, and one turn of the loop takes one statement off.

Only model-checked: liveness (`SuspensionCompletes`, `ProvidersGetListed`,
`UntrustedLeaveLists`, `EligibleGetsListed`), which is out of the proof system's reach.
Every invariant and every action property of a passing run has a theorem, and so
have the two refinements.

## Disagreements without a run

The models show these too, and no property is worded around them; each
is the value of a function or the meaning of a filter, to be read off without a
counterexample.

* A PEM that replaces another keeps the subject, serial number and key identifier of
  the first, although they are "extracted from certificate" (`tsl_generator/models.py:863`)
  and `save()` says "Auto-extract metadata when saving if PEM is provided" (`:968`): it
  extracts only while there is no subject name, and the fields are read-only in the
  admin form. `IdentityMatchesPem` leaves out the rows for which this was done (`cut`).
* `_parse_datetime` ("Parse ISO 8601 datetime string.", `tsl_generator/importers.py:300`)
  knows no offset, which is how the standard format writes every date. Such a list is
  imported with the present as its issue date and without a next update. `RoundTrip`
  claims the dates for the other two formats only.
* `validate_csr_subject` says that the subject "matches registry data" and that O "must
  match legal name" (`certificates/ca_integration.py:268`, `:272`). It looks at the last
  value of an attribute, and the certificate takes the subject as a whole: with O=other
  and then O=acme a certificate of acme also says other. `CsrSubject` keeps the last
  value, a request of the run `relying_party` has two, and no property says that the
  names in a certificate are the registry's.
* check-intended-use tells of a "registered active intended use matching the given
  criteria" (`credentials/views.py:140`). It does not look at `registration_status` or at
  the start of a use (`IntendedUse.is_active` does), takes any end as one that has come,
  sees the first entity of an identifier only, and lets each criterion be met by
  another credential. `RevokedNotConfirmed` is about what remains.

## Not modelled, and why

* Free edits of certificate rows in the admin site: they may set any column.
* Deletion of certificates on the CA's side, and of user accounts.
* django-ca itself is external: signing yields a certificate or an exception,
  `revoke()` succeeds or raises; a certificate on hold is never released by this
  code, and no action releases one.
* A cascade that removes the legal entity under a `save()` in progress makes the
  INSERT raise, which is the `Crash` of that request.
* Row locks are `Locked(c)`; an admin save with its inlines is one transaction.
* `RegisteredEntityDetailView` (PATCH) is not routed.
* Time: expiry of certificates and entitlements is not read by the modelled code.
* Authentication: the models start from an authenticated operator.

* Of registration: supervisory authorities, policies, texts and contact data;
  creation of entities, and a change of their legal entity, in the admin site;
  `entity_role`, which is the same for all that the WRP API creates.

* Of intended uses: `EntityProvidesAttestation`, admin edits of credentials and of
  privacy links, the bodies of the answers.
* Of the issuance policy: the choice of the CA, CRL and OCSP URLs
  (`build_revocation_extensions`), which come from settings; the other fields of the
  certificate page, which the cryptography library decodes; `create_ct_log_entry`,
  which only tests call.
* Of the TSL generator: the importers of providers and services (`importers.py` from
  line 616 on), because no import gets past the address in `_import_tsp`;
  `TSPCertificate`, which no generator writes; `sequence_number`, which no code
  increments; transliteration, order and layout.
* The command that exports the LoTE sources: it writes files and no row.
* Participants and login: signed tokens of a library.

(`README.md` of the repository mentions `/registry/lote-se/`; that
route is commented out, and the lists are at `/lote-source/`.)

## Plan

Done: `AccessCertificates` with `CertificateLedger`, `SigningCertificates`,
`LoteSource`, `Registration`, `TrustedList` with `PublishedList`, `IntendedUses`,
`IssuancePolicy` and `DerCodec` in `RelyingParty`, and their proofs. Left, most
important first:

1. Persons, addresses and contact data of legal entities, supervisory authorities and
   policies in `Registration`; creation of entities in the admin site.
2. `EntityProvidesAttestation` and admin edits of credentials in `IntendedUses`.
3. `EntitiesFindable` for requests that are killed: which entities a crash between a
   legal entity and its link leaves behind, as an invariant of its own.
