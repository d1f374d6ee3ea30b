------------------------ MODULE SigningCertificates ------------------------
(***************************************************************************)
(* Signing certificates of issuers, and the entitlements they depend on:   *)
(* operators upload and revoke self-signed certificates, PUT /wrp replaces *)
(* the entitlements of an entity row by row, administrators edit status    *)
(* and entitlements.  One step of a worker is one read of the database or  *)
(* one commit to it.                                                       *)
(***************************************************************************)
EXTENDS Naturals, FiniteSets, Sequences, Functions

CONSTANTS
    Entities,       \* primary keys of RegisteredEntity rows
    Entitlements,   \* entitlement types (one URI each)
    Issuers,        \* the entitlements a signing certificate is for
    Certs,          \* EntitySigningCertificate rows that may be created
    Workers,        \* uwsgi processes
    NoEntity, NoCert, NoType,
    Requests,       \* entitlement lists that are sent; <<>>: the key is absent
    FormStatuses,   \* statuses an admin form is submitted with
    AdminRows,      \* what an admin turns an entitlement row into
    Deletable,      \* the entities somebody deletes
    CrashAt         \* the program counters a worker may be killed at

ASSUME SigningSentinels ==
    NoEntity \notin Entities /\ NoCert \notin Certs /\ NoType \notin Entitlements
ASSUME SigningInputs ==
    /\ Issuers \subseteq Entitlements
    /\ Requests \subseteq Seq(Entitlements)
    /\ FormStatuses \subseteq {"pending", "active", "suspended", "revoked"}
    /\ AdminRows \subseteq {"none", "active", "inactive"}
    /\ Deletable \subseteq Entities

VARIABLES
    \* the database
    status,       \* registration_status, or no row
    operated,     \* entities whose operators M2M is not empty
    entitlement,  \* EntityEntitlement per entity and type: none, or its is_active
    row,          \* EntitySigningCertificate: its is_current, or no row
    holder, kind, \* its entity and entitlement type
    revoked,      \* certificates whose revoked_at was set
    \* the workers
    pc,
    ent,          \* the entity of the request
    typ,          \* the entitlement type of an upload
    cert,         \* the row a revocation has read
    rows,         \* rows an open upload transaction has updated
    stored,       \* registration_status of the instance a PUT has loaded
    todo          \* entitlements a PUT has still to create

dbVars     == <<status, operated, entitlement, row, holder, kind, revoked>>
workerVars == <<pc, ent, typ, cert, rows, stored, todo>>
vars       == <<dbVars, workerVars>>

Status == {"pending", "active", "suspended", "revoked"}
PC == {"idle",
       "validated",   \* an upload passed its serializer
       "storing",     \* upload transaction open, old rows updated
       "revoking",    \* an unrevoked row was read
       "loaded",      \* PUT: the instance is in memory
       "clearing",    \* PUT: the entity is saved, entitlements due
       "granting"}    \* PUT: old entitlements deleted, new ones being created

Registered(e)   == status[e] \in Status
Entitled(e)     == {t \in Entitlements : entitlement[<<e, t>>] # "none"}
Stored          == {c \in Certs : row[c] \in {"current", "historical"}}
RowsFor(e, t)   == {c \in Stored : holder[c] = e /\ kind[c] = t}
CurrentFor(e, t) == {c \in RowsFor(e, t) : row[c] = "current"}

\* Rows updated in an open transaction stay locked until it ends.
Locked(c) == \E w \in Workers : pc[w] = "storing" /\ c \in rows[w]

Init ==
    /\ status      = [e \in Entities |-> "unregistered"]
    /\ operated    = {}
    /\ entitlement = [et \in Entities \X Entitlements |-> "none"]
    /\ row         = [c \in Certs |-> "unused"]
    /\ holder      = [c \in Certs |-> NoEntity]
    /\ kind        = [c \in Certs |-> NoType]
    /\ revoked     = {}
    /\ pc          = [w \in Workers |-> "idle"]
    /\ ent         = [w \in Workers |-> NoEntity]
    /\ typ         = [w \in Workers |-> NoType]
    /\ cert        = [w \in Workers |-> NoCert]
    /\ rows        = [w \in Workers |-> {}]
    /\ stored      = [w \in Workers |-> "none"]
    /\ todo        = [w \in Workers |-> <<>>]

\* The response is sent, the request raised, or the worker was killed.
Finish(w) ==
    /\ pc'     = [pc EXCEPT ![w] = "idle"]
    /\ ent'    = [ent EXCEPT ![w] = NoEntity]
    /\ typ'    = [typ EXCEPT ![w] = NoType]
    /\ cert'   = [cert EXCEPT ![w] = NoCert]
    /\ rows'   = [rows EXCEPT ![w] = {}]
    /\ stored' = [stored EXCEPT ![w] = "none"]
    /\ todo'   = [todo EXCEPT ![w] = <<>>]

(***************************************************************************)
(* Entities and their entitlements, as single transactions                 *)
(***************************************************************************)

\* POST /wrp: entity, entitlements, operator and ACTIVE status in one
\* transaction; a list with a duplicate violates unique_together and rolls back.
Register(e) ==
    /\ status[e] = "unregistered"
    /\ \E req \in Requests \ {<<>>} :
        /\ IsInjective(req)
        /\ entitlement' = [et \in Entities \X Entitlements |->
                IF et[1] = e /\ et[2] \in Range(req) THEN "active" ELSE entitlement[et]]
    /\ status' = [status EXCEPT ![e] = "active"]
    /\ operated' = operated \cup {e}
    /\ UNCHANGED <<row, holder, kind, revoked, workerVars>>

\* An admin form with its inlines is saved in one transaction: the status it was
\* submitted with, and at most one changed entitlement row.
AdminSave(e) ==
    /\ Registered(e)
    /\ \E s \in FormStatuses : status' = [status EXCEPT ![e] = s]
    /\ \/ \E t \in Entitlements, x \in AdminRows :
            entitlement' = [entitlement EXCEPT ![<<e, t>>] = x]
       \/ UNCHANGED entitlement
    /\ operated' = operated \cup {e}
    /\ UNCHANGED <<row, holder, kind, revoked, workerVars>>

\* Any of the three deletions; the cascade waits for rows locked by an upload.
Delete(e) ==
    /\ e \in Deletable
    /\ Registered(e)
    /\ \A t \in Entitlements : \A c \in RowsFor(e, t) : ~Locked(c)
    /\ status' = [status EXCEPT ![e] = "deleted"]
    /\ operated' = operated \ {e}
    /\ entitlement' = [et \in Entities \X Entitlements |->
            IF et[1] = e THEN "none" ELSE entitlement[et]]
    /\ row' = [c \in Certs |-> IF c \in Stored /\ holder[c] = e THEN "deleted" ELSE row[c]]
    /\ UNCHANGED <<holder, kind, revoked, workerVars>>

(***************************************************************************)
(* Upload                                                                  *)
(***************************************************************************)

\* The entity is read scoped to its operators and the serializer looks for an
\* active entitlement of the type (else 404 or 400). The status is not looked at.
UploadValidate(w, e, t) ==
    /\ pc[w] = "idle"
    /\ e \in operated
    /\ t \in Issuers
    /\ entitlement[<<e, t>>] = "active"
    /\ pc' = [pc EXCEPT ![w] = "validated"]
    /\ ent' = [ent EXCEPT ![w] = e]
    /\ typ' = [typ EXCEPT ![w] = t]
    /\ UNCHANGED <<dbVars, cert, rows, stored, todo>>

\* Mutant of UploadDemote: no transaction around the UPDATE and the INSERT.
UploadDemoteAutocommit(w) ==
    /\ pc[w] = "validated"
    /\ row' = [c \in Certs |-> IF c \in CurrentFor(ent[w], typ[w]) THEN "historical" ELSE row[c]]
    /\ pc' = [pc EXCEPT ![w] = "storing"]
    /\ UNCHANGED <<status, operated, entitlement, holder, kind, revoked,
                   ent, typ, cert, rows, stored, todo>>

\* UPDATE ... SET is_current = FALSE inside the transaction; it waits for a row
\* another upload has updated.
UploadDemote(w) ==
    /\ pc[w] = "validated"
    /\ \A c \in CurrentFor(ent[w], typ[w]) : ~Locked(c)
    /\ rows' = [rows EXCEPT ![w] = CurrentFor(ent[w], typ[w])]
    /\ pc' = [pc EXCEPT ![w] = "storing"]
    /\ UNCHANGED <<dbVars, ent, typ, cert, stored, todo>>

\* Mutant of Unique: the partial unique index is missing.
UniqueNever(w) == TRUE

\* unique_current_signing_cert_per_entitlement: the new current row is accepted
\* only if the transaction itself superseded every other one.
Unique(w) == CurrentFor(ent[w], typ[w]) \subseteq rows[w]

\* INSERT and commit. A concurrent upload that came first (IntegrityError) or an
\* entity deleted meanwhile (foreign key) roll the whole transaction back.
UploadStore(w) ==
    /\ pc[w] = "storing"
    /\ IF Registered(ent[w]) /\ Unique(w)
       THEN \E c \in Certs :
                /\ row[c] = "unused"
                /\ row' = [d \in Certs |-> IF d = c THEN "current"
                                           ELSE IF d \in rows[w] THEN "historical"
                                           ELSE row[d]]
                /\ holder' = [holder EXCEPT ![c] = ent[w]]
                /\ kind' = [kind EXCEPT ![c] = typ[w]]
       ELSE UNCHANGED <<row, holder, kind>>
    /\ Finish(w)
    /\ UNCHANGED <<status, operated, entitlement, revoked>>

\* Any other failure inside the transaction.
UploadFail(w) ==
    /\ pc[w] = "storing"
    /\ Finish(w)
    /\ UNCHANGED dbVars

(***************************************************************************)
(* Revocation                                                              *)
(***************************************************************************)

\* DELETE reads the row scoped to the entity's operators; an already revoked one
\* is a 409.
RevokeRead(w, c) ==
    /\ pc[w] = "idle"
    /\ c \in Stored
    /\ holder[c] \in operated
    /\ c \notin revoked
    /\ pc' = [pc EXCEPT ![w] = "revoking"]
    /\ cert' = [cert EXCEPT ![w] = c]
    /\ UNCHANGED <<dbVars, ent, typ, rows, stored, todo>>

\* Mutant of RevokeSave: update_fields without is_current.
RevokeSaveKeepCurrent(w) ==
    /\ pc[w] = "revoking"
    /\ ~Locked(cert[w])
    /\ revoked' = IF cert[w] \in Stored THEN revoked \cup {cert[w]} ELSE revoked
    /\ Finish(w)
    /\ UNCHANGED <<status, operated, entitlement, row, holder, kind>>

\* save(update_fields=[revoked_at, revocation_reason, is_current]) waits for a
\* locked row, and raises if the row is gone. It looks at nothing else.
RevokeSave(w) ==
    /\ pc[w] = "revoking"
    /\ ~Locked(cert[w])
    /\ IF cert[w] \in Stored
       THEN /\ revoked' = revoked \cup {cert[w]}
            /\ row' = [row EXCEPT ![cert[w]] = "historical"]
       ELSE UNCHANGED <<revoked, row>>
    /\ Finish(w)
    /\ UNCHANGED <<status, operated, entitlement, holder, kind>>

(***************************************************************************)
(* PUT /wrp: every statement commits on its own                            *)
(***************************************************************************)

\* Mutant of PutLoad: the instance is not looked up among those of the operator.
PutLoadUnscoped(w, e) ==
    /\ pc[w] = "idle"
    /\ \E req \in Requests : todo' = [todo EXCEPT ![w] = req]
    /\ pc' = [pc EXCEPT ![w] = "loaded"]
    /\ ent' = [ent EXCEPT ![w] = e]
    /\ stored' = [stored EXCEPT ![w] = status[e]]
    /\ UNCHANGED <<dbVars, typ, cert, rows>>

\* The instance is read scoped to the operators.
PutLoad(w, e) ==
    /\ pc[w] = "idle"
    /\ e \in operated
    /\ \E req \in Requests : todo' = [todo EXCEPT ![w] = req]
    /\ pc' = [pc EXCEPT ![w] = "loaded"]
    /\ ent' = [ent EXCEPT ![w] = e]
    /\ stored' = [stored EXCEPT ![w] = status[e]]
    /\ UNCHANGED <<dbVars, typ, cert, rows>>

\* instance.save() writes every column back, the status it loaded among them,
\* and inserts the entity again if it was deleted in between.
PutSave(w) ==
    /\ pc[w] = "loaded"
    /\ status' = [status EXCEPT ![ent[w]] = stored[w]]
    /\ IF todo[w] = <<>>
       THEN Finish(w)
       ELSE /\ pc' = [pc EXCEPT ![w] = "clearing"]
            /\ UNCHANGED <<ent, typ, cert, rows, stored, todo>>
    /\ UNCHANGED <<operated, entitlement, row, holder, kind, revoked>>

\* Mutant of PutClear: what the entity already holds is not created again.
PutClearSkipHeld(w) ==
    /\ pc[w] = "clearing"
    /\ entitlement' = [et \in Entities \X Entitlements |->
            IF et[1] = ent[w] THEN "none" ELSE entitlement[et]]
    /\ todo' = [todo EXCEPT ![w] = SelectSeq(@, LAMBDA t : t \notin Entitled(ent[w]))]
    /\ pc' = [pc EXCEPT ![w] = "granting"]
    /\ UNCHANGED <<status, operated, row, holder, kind, revoked,
                   ent, typ, cert, rows, stored>>

\* instance.entitlements.all().delete()
PutClear(w) ==
    /\ pc[w] = "clearing"
    /\ entitlement' = [et \in Entities \X Entitlements |->
            IF et[1] = ent[w] THEN "none" ELSE entitlement[et]]
    /\ pc' = [pc EXCEPT ![w] = "granting"]
    /\ UNCHANGED <<status, operated, row, holder, kind, revoked,
                   ent, typ, cert, rows, stored, todo>>

\* EntityEntitlement.objects.create for the next URI. A row that exists already
\* (a duplicate in the list, or a concurrent PUT) and an entity deleted meanwhile
\* raise: the rest of the list is not created.
PutGrant(w) ==
    /\ pc[w] = "granting"
    /\ todo[w] # <<>>
    /\ IF Registered(ent[w]) /\ entitlement[<<ent[w], Head(todo[w])>>] = "none"
       THEN /\ entitlement' = [entitlement EXCEPT ![<<ent[w], Head(todo[w])>>] = "active"]
            /\ todo' = [todo EXCEPT ![w] = Tail(@)]
            /\ UNCHANGED <<pc, ent, typ, cert, rows, stored>>
       ELSE Finish(w) /\ UNCHANGED entitlement
    /\ UNCHANGED <<status, operated, row, holder, kind, revoked>>

PutDone(w) ==
    /\ pc[w] = "granting"
    /\ todo[w] = <<>>
    /\ Finish(w)
    /\ UNCHANGED dbVars

Crash(w) ==
    /\ pc[w] \in CrashAt \ {"idle"}
    /\ Finish(w)
    /\ UNCHANGED dbVars

(***************************************************************************)
(* Specification                                                           *)
(***************************************************************************)

\* What a worker does on its own once a request has been accepted.
Advance(w) ==
    \/ UploadDemote(w)
    \/ UploadStore(w)
    \/ UploadFail(w)
    \/ RevokeSave(w)
    \/ PutSave(w)
    \/ PutClear(w)
    \/ PutGrant(w)
    \/ PutDone(w)

Next ==
    \/ \E e \in Entities : Register(e) \/ AdminSave(e) \/ Delete(e)
    \/ \E w \in Workers, e \in Entities :
        \/ PutLoad(w, e)
        \/ \E t \in Entitlements : UploadValidate(w, e, t)
    \/ \E w \in Workers, c \in Certs : RevokeRead(w, c)
    \/ \E w \in Workers : Advance(w) \/ Crash(w)

Spec == Init /\ [][Next]_vars

-----------------------------------------------------------------------------
(***************************************************************************)
(* Properties                                                              *)
(***************************************************************************)

\* The columns and the locals of the requests have their types.
SigningTypeOK ==
    /\ status \in [Entities -> Status \cup {"unregistered", "deleted"}]
    /\ operated \subseteq Entities
    /\ entitlement \in [Entities \X Entitlements -> {"none", "active", "inactive"}]
    /\ row \in [Certs -> {"unused", "current", "historical", "deleted"}]
    /\ holder \in [Certs -> Entities \cup {NoEntity}]
    /\ kind \in [Certs -> Issuers \cup {NoType}]
    /\ revoked \subseteq Certs
    /\ pc \in [Workers -> PC]
    /\ ent \in [Workers -> Entities \cup {NoEntity}]
    /\ typ \in [Workers -> Issuers \cup {NoType}]
    /\ cert \in [Workers -> Certs \cup {NoCert}]
    /\ rows \in [Workers -> SUBSET Certs]
    /\ stored \in [Workers -> Status \cup {"none"}]
    /\ todo \in [Workers -> Seq(Entitlements)]

\* Uploads that race for one entity and entitlement leave one current
\* certificate: verifiers are never offered two.
OneCurrentSigning ==
    \A e \in Entities, t \in Issuers :
        \A c, d \in CurrentFor(e, t) : c = d

\* Replacing a certificate, however the replacement ends, never leaves an issuer
\* without a current one: only revoking can.
HasCurrentSigning ==
    \A e \in Entities, t \in Issuers :
        RowsFor(e, t) # {} /\ RowsFor(e, t) \cap revoked = {} => CurrentFor(e, t) # {}

\* A revoked certificate is not the current one, although the revocation may
\* have read its row before an upload replaced it.
CurrentNotRevoked == \A c \in Certs : row[c] = "current" => c \notin revoked

\* What a request may rely on, although it read the database some steps ago: the
\* rows an upload has updated are still there, and still rows of its entity.
RequestSound(w) ==
    /\ pc[w] \in {"validated", "storing"} => ent[w] \in Entities /\ typ[w] \in Issuers
    /\ pc[w] \in {"loaded", "clearing", "granting"} => ent[w] \in Entities
    /\ pc[w] = "loaded" => stored[w] \in Status
    /\ pc[w] = "revoking" => cert[w] \in Certs
    /\ pc[w] # "storing" => rows[w] = {}
    /\ rows[w] \subseteq RowsFor(ent[w], typ[w])

RequestsSound == \A w \in Workers : RequestSound(w)

\* The inductive invariant behind the three properties above.
SigningInv ==
    /\ SigningTypeOK
    /\ RequestsSound
    /\ OneCurrentSigning
    /\ HasCurrentSigning
    /\ CurrentNotRevoked
    /\ \A c \in revoked : row[c] # "unused"
    /\ \A e \in operated : Registered(e)

\* Once the PUTs under way have ended, an entity still has an entitlement [1..*],
\* although each of them deletes all of them first and may be cut short by a
\* duplicate or by another PUT. (A worker killed in between, and a PUT without
\* "entitlements" that inserts a deleted entity again, can leave it without: the
\* run excludes these two.)
EntitledWhenQuiet ==
    (\A w \in Workers : pc[w] \notin {"clearing", "granting"}) =>
        \A e \in Entities : Registered(e) => Entitled(e) # {}

=============================================================================
