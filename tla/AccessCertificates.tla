------------------------- MODULE AccessCertificates -------------------------
(***************************************************************************)
(* Access certificates of registered entities: issuance by the integrated  *)
(* Access CA, automatic revocation when an entity is suspended or revoked, *)
(* and deletion, as executed by several web-server processes over one      *)
(* PostgreSQL database (READ COMMITTED, no request-wide transaction).      *)
(*                                                                         *)
(* One step of a worker is one read of the database or one commit to it:   *)
(* what a request has read may be stale when it is used.                   *)
(***************************************************************************)
EXTENDS Naturals, FiniteSets

CONSTANTS
    Entities,      \* primary keys of RegisteredEntity rows (UUIDs, never reused)
    Certs,         \* certificates the CA may sign (serial numbers, never reused)
    Workers,       \* uwsgi processes, each serving one request at a time
    NoEntity,      \* a certificate not yet signed, an idle worker
    NoCert,        \* a worker with no revocation half recorded
    FormStatuses,  \* the statuses an admin form is submitted with
    Deletable,     \* the entities somebody deletes
    CAFailures,    \* TRUE: the CA may refuse a revocation
    Crashes        \* TRUE: a worker may be killed, or its request may raise

ASSUME SentinelAssumption == NoEntity \notin Entities /\ NoCert \notin Certs
ASSUME FormAssumption == FormStatuses \subseteq {"pending", "active", "suspended", "revoked"}
ASSUME DeletableAssumption == Deletable \subseteq Entities
ASSUME FaultAssumption == CAFailures \in BOOLEAN /\ Crashes \in BOOLEAN

VARIABLES
    \* the database
    status,     \* RegisteredEntity.registration_status, or no row
    operated,   \* entities whose operators M2M is not empty
    record,     \* EntityAccessCertificate row: none, or its is_current flag
    holder,     \* the entity named in the certificate (and the row's FK)
    noted,      \* the row's revoked_at / revocation_reason
    ca,         \* django_ca Certificate: unissued, valid, or its reason
    \* the workers: program counter and locals
    pc,
    ent,        \* the entity the request is about
    new,        \* registration_status of the loaded instance
    old,        \* instance._pre_save_status
    rows,       \* access-certificate rows read by the request
    cert,       \* revoked at the CA, not yet noted in the local row
    admin       \* workers serving an admin change form

dbVars     == <<status, operated, record, holder, noted, ca>>
workerVars == <<pc, ent, new, old, rows, cert, admin>>
vars       == <<dbVars, workerVars>>

(***************************************************************************)
(* Values                                                                  *)
(***************************************************************************)

Status           == {"pending", "active", "suspended", "revoked"}
RevocationStatus == {"suspended", "revoked"}
Reasons          == {"certificateHold", "cessationOfOperation"}

\* The reason sent to the CA for the status an entity was saved with.
Reason(s) == IF s = "suspended" THEN "certificateHold" ELSE "cessationOfOperation"

PC == {"idle",
       "requested",    \* issue view has read an active entity
       "eligible",     \* get_entity_for_issuance has read an active entity
       "superseding",  \* issue transaction open, old rows updated, not committed
       "loaded",       \* an instance is in memory, its fields set from the request
       "snapshot",     \* pre_save has read the stored status
       "committed",    \* status committed, the on_commit callback is due
       "revoking",     \* revoke_entity_certificates iterates over its rows
       "caRevoked"}    \* one row revoked at the CA, local save due

Registered(e)  == status[e] \in Status
RowsOf(e)      == {c \in Certs : holder[c] = e /\ record[c] # "none"}
CurrentOf(e)   == {c \in RowsOf(e) : record[c] = "current"}
RevocableOf(e) == {c \in CurrentOf(e) : noted[c] = "unset"}

\* Rows updated in an open issue transaction stay locked until it ends.
Locked(c) == \E w \in Workers : pc[w] = "superseding" /\ c \in rows[w]

Init ==
    /\ status   = [e \in Entities |-> "unregistered"]
    /\ operated = {}
    /\ record   = [c \in Certs |-> "none"]
    /\ holder   = [c \in Certs |-> NoEntity]
    /\ noted    = [c \in Certs |-> "unset"]
    /\ ca       = [c \in Certs |-> "unissued"]
    /\ pc       = [w \in Workers |-> "idle"]
    /\ ent      = [w \in Workers |-> NoEntity]
    /\ new      = [w \in Workers |-> "none"]
    /\ old      = [w \in Workers |-> "none"]
    /\ rows     = [w \in Workers |-> {}]
    /\ cert     = [w \in Workers |-> NoCert]
    /\ admin    = {}

\* The response is sent (or the request dies): the worker forgets its locals.
Finish(w) ==
    /\ pc'    = [pc EXCEPT ![w] = "idle"]
    /\ ent'   = [ent EXCEPT ![w] = NoEntity]
    /\ new'   = [new EXCEPT ![w] = "none"]
    /\ old'   = [old EXCEPT ![w] = "none"]
    /\ rows'  = [rows EXCEPT ![w] = {}]
    /\ cert'  = [cert EXCEPT ![w] = NoCert]
    /\ admin' = admin \ {w}

(***************************************************************************)
(* Registration and deletion                                               *)
(***************************************************************************)

\* POST /wrp and the entity form: row, first operator and ACTIVE status in one
\* transaction.
Register(e) ==
    /\ status[e] = "unregistered"
    /\ status' = [status EXCEPT ![e] = "active"]
    /\ operated' = operated \cup {e}
    /\ UNCHANGED <<record, holder, noted, ca, workerVars>>

\* The admin add form: any status; operators is a required field.
\* auto_revoke_certificates_on_status_change returns at once: created.
AdminRegister(e) ==
    /\ status[e] = "unregistered"
    /\ \E s \in FormStatuses : status' = [status EXCEPT ![e] = s]
    /\ operated' = operated \cup {e}
    /\ UNCHANGED <<record, holder, noted, ca, workerVars>>

\* Dashboard delete, DELETE /wrp, admin delete: the local rows go, the django-ca
\* certificates stay as they are. The cascade waits for rows locked by an issue
\* transaction.
Delete(e) ==
    /\ e \in Deletable
    /\ Registered(e)
    /\ \A c \in RowsOf(e) : ~Locked(c)
    /\ status' = [status EXCEPT ![e] = "deleted"]
    /\ operated' = operated \ {e}
    /\ record' = [c \in Certs |-> IF holder[c] = e THEN "none" ELSE record[c]]
    /\ noted' = [c \in Certs |-> IF holder[c] = e THEN "unset" ELSE noted[c]]
    /\ UNCHANGED <<holder, ca, workerVars>>

(***************************************************************************)
(* Issuance                                                                *)
(***************************************************************************)

\* IssueCertificateView / IssueCertificatePageView: the entity is read scoped
\* to its operators and must be active (else 404 or 409, nothing changes).
IssueRequest(w, e) ==
    /\ pc[w] = "idle"
    /\ e \in operated
    /\ status[e] = "active"
    /\ pc' = [pc EXCEPT ![w] = "requested"]
    /\ ent' = [ent EXCEPT ![w] = e]
    /\ UNCHANGED <<dbVars, new, old, rows, cert, admin>>

\* get_entity_for_issuance reads the entity again: 409 if it is not active any
\* more. Nothing after this read looks at the status.
IssueCheck(w) ==
    /\ pc[w] = "requested"
    /\ IF status[ent[w]] = "active"
       THEN /\ pc' = [pc EXCEPT ![w] = "eligible"]
            /\ UNCHANGED <<ent, new, old, rows, cert, admin>>
       ELSE Finish(w)
    /\ UNCHANGED dbVars

\* Mutant of IssueSupersede: the UPDATE is committed on its own, outside the
\* transaction that creates the new row.
IssueSupersedeAutocommit(w) ==
    /\ pc[w] = "eligible"
    /\ record' = [c \in Certs |-> IF c \in CurrentOf(ent[w]) THEN "superseded" ELSE record[c]]
    /\ rows' = [rows EXCEPT ![w] = CurrentOf(ent[w])]
    /\ pc' = [pc EXCEPT ![w] = "superseding"]
    /\ UNCHANGED <<status, operated, holder, noted, ca, ent, new, old, cert, admin>>

\* Inside the issue transaction: the certificate is signed and the UPDATE ...
\* SET is_current = FALSE picks the rows committed as current at that moment.
IssueSupersede(w) ==
    /\ pc[w] = "eligible"
    /\ rows' = [rows EXCEPT ![w] = CurrentOf(ent[w])]
    /\ pc' = [pc EXCEPT ![w] = "superseding"]
    /\ UNCHANGED <<dbVars, ent, new, old, cert, admin>>

\* Mutants of IssueCommit: no foreign key from the row to its entity; the old
\* rows keep is_current.
IssueCommitNoForeignKey(w) ==
    /\ pc[w] = "superseding"
    /\ \E c \in Certs :
        /\ ca[c] = "unissued"
        /\ ca' = [ca EXCEPT ![c] = "valid"]
        /\ holder' = [holder EXCEPT ![c] = ent[w]]
        /\ record' = [record EXCEPT ![c] = "current"]
    /\ Finish(w)
    /\ UNCHANGED <<status, operated, noted>>
IssueCommitKeepOld(w) ==
    /\ pc[w] = "superseding" /\ Registered(ent[w])
    /\ IssueCommitNoForeignKey(w)

\* The transaction commits: the CA certificate, the superseded rows and the new
\* current row become visible together. The row's foreign key needs its entity.
IssueCommit(w) ==
    /\ pc[w] = "superseding"
    /\ Registered(ent[w])
    /\ \E c \in Certs :
        /\ ca[c] = "unissued"
        /\ ca' = [ca EXCEPT ![c] = "valid"]
        /\ holder' = [holder EXCEPT ![c] = ent[w]]
        /\ record' = [d \in Certs |->
                        IF d = c THEN "current"
                        ELSE IF d \in rows[w] /\ record[d] # "none" THEN "superseded"
                        ELSE record[d]]
    /\ Finish(w)
    /\ UNCHANGED <<status, operated, noted>>

\* Mutant of IssueFail: the CA keeps the certificate whose local row failed.
IssueFailNoRollback(w) ==
    /\ pc[w] \in {"eligible", "superseding"}
    /\ \E c \in Certs :
        /\ ca[c] = "unissued"
        /\ ca' = [ca EXCEPT ![c] = "valid"]
        /\ holder' = [holder EXCEPT ![c] = ent[w]]
    /\ Finish(w)
    /\ UNCHANGED <<status, operated, record, noted>>

\* CSR, SAN or key refused, signing failed, or the transaction rolled back: the
\* CA certificate is rolled back with the local rows.
IssueFail(w) ==
    /\ pc[w] \in {"eligible", "superseding"}
    /\ Finish(w)
    /\ UNCHANGED dbVars

(***************************************************************************)
(* Saving an entity                                                        *)
(***************************************************************************)

\* Mutant of PutLoad: the entity is not looked up among the registered ones.
PutLoadUnscoped(w, e) ==
    /\ pc[w] = "idle"
    /\ pc' = [pc EXCEPT ![w] = "loaded"]
    /\ ent' = [ent EXCEPT ![w] = e]
    /\ new' = [new EXCEPT ![w] = status[e]]
    /\ UNCHANGED <<dbVars, old, rows, cert, admin>>

\* PUT /wrp: get() loads every column, and the later instance.save() writes
\* every column back, the status among them.
PutLoad(w, e) ==
    /\ pc[w] = "idle"
    /\ e \in operated
    /\ pc' = [pc EXCEPT ![w] = "loaded"]
    /\ ent' = [ent EXCEPT ![w] = e]
    /\ new' = [new EXCEPT ![w] = status[e]]
    /\ UNCHANGED <<dbVars, old, rows, cert, admin>>

\* The admin change form: the status is whatever the form was submitted with, a
\* deliberate change or the value shown when the form was opened.
AdminLoad(w, e) ==
    /\ pc[w] = "idle"
    /\ Registered(e)
    /\ pc' = [pc EXCEPT ![w] = "loaded"]
    /\ ent' = [ent EXCEPT ![w] = e]
    /\ \E s \in FormStatuses : new' = [new EXCEPT ![w] = s]
    /\ admin' = admin \cup {w}
    /\ UNCHANGED <<dbVars, old, rows, cert>>

\* _snapshot_status_before_save
PreSave(w) ==
    /\ pc[w] = "loaded"
    /\ old' = [old EXCEPT ![w] = IF Registered(ent[w]) THEN status[ent[w]] ELSE "none"]
    /\ pc' = [pc EXCEPT ![w] = "snapshot"]
    /\ UNCHANGED <<dbVars, ent, new, rows, cert, admin>>

\* Mutant of RevocationDue: only a suspension of an active entity counts.
RevocationDueFromActive(w) ==
    /\ Registered(ent[w])
    /\ old[w] = "active"
    /\ new[w] \in RevocationStatus

\* auto_revoke_certificates_on_status_change: is a revocation registered with
\* transaction.on_commit?
RevocationDue(w) ==
    /\ Registered(ent[w])               \* else the save inserted: created
    /\ old[w] \notin RevocationStatus
    /\ new[w] \in RevocationStatus

\* Model.save() commits: an UPDATE, or, when it matches no row because the
\* entity was deleted in between, an INSERT under the same primary key. The
\* admin form also sets the operators.
SaveRow(w) ==
    /\ pc[w] = "snapshot"
    /\ status' = [status EXCEPT ![ent[w]] = new[w]]
    /\ operated' = IF w \in admin THEN operated \cup {ent[w]} ELSE operated
    /\ IF RevocationDue(w)
       THEN /\ pc' = [pc EXCEPT ![w] = "committed"]
            /\ UNCHANGED <<ent, new, old, rows, cert, admin>>
       ELSE Finish(w)
    /\ UNCHANGED <<record, holder, noted, ca>>

(***************************************************************************)
(* The on_commit callback                                                  *)
(***************************************************************************)

\* Mutant of RevokeSelect: the callback serves active entities only.
RevokeSelectActive(w) ==
    /\ pc[w] = "committed"
    /\ IF status[ent[w]] = "active"
       THEN /\ rows' = [rows EXCEPT ![w] = RevocableOf(ent[w])]
            /\ pc' = [pc EXCEPT ![w] = "revoking"]
            /\ UNCHANGED <<ent, new, old, cert, admin>>
       ELSE Finish(w)
    /\ UNCHANGED dbVars

\* do_revoke re-reads the entity (but not its status) and
\* revoke_entity_certificates selects its current rows without revoked_at.
RevokeSelect(w) ==
    /\ pc[w] = "committed"
    /\ IF Registered(ent[w])
       THEN /\ rows' = [rows EXCEPT ![w] = RevocableOf(ent[w])]
            /\ pc' = [pc EXCEPT ![w] = "revoking"]
            /\ UNCHANGED <<ent, new, old, cert, admin>>
       ELSE Finish(w)
    /\ UNCHANGED dbVars

\* django_ca_certificate.revoke(reason) for the next selected row.
RevokeAtCA(w, c) ==
    /\ pc[w] = "revoking"
    /\ c \in rows[w]
    /\ ca' = [ca EXCEPT ![c] = Reason(new[w])]
    /\ cert' = [cert EXCEPT ![w] = c]
    /\ rows' = [rows EXCEPT ![w] = @ \ {c}]
    /\ pc' = [pc EXCEPT ![w] = "caRevoked"]
    /\ UNCHANGED <<status, operated, record, holder, noted, ent, new, old, admin>>

\* Mutant of RevokeRefused: the local row is marked although the CA refused.
RevokeRefusedNoted(w, c) ==
    /\ CAFailures
    /\ pc[w] = "revoking"
    /\ c \in rows[w]
    /\ rows' = [rows EXCEPT ![w] = @ \ {c}]
    /\ noted' = [noted EXCEPT ![c] = Reason(new[w])]
    /\ UNCHANGED <<status, operated, record, holder, ca, pc, ent, new, old, cert, admin>>

\* The CA raised: logged, the local row is left unchanged, the loop continues.
RevokeRefused(w, c) ==
    /\ CAFailures
    /\ pc[w] = "revoking"
    /\ c \in rows[w]
    /\ rows' = [rows EXCEPT ![w] = @ \ {c}]
    /\ UNCHANGED <<dbVars, pc, ent, new, old, cert, admin>>

\* Mutant of NoteRevocation: always the default reason of
\* revoke_entity_certificates.
NoteRevocationDefault(w) ==
    /\ pc[w] = "caRevoked"
    /\ record[cert[w]] # "none"
    /\ noted' = [noted EXCEPT ![cert[w]] = "cessationOfOperation"]
    /\ cert' = [cert EXCEPT ![w] = NoCert]
    /\ pc' = [pc EXCEPT ![w] = "revoking"]
    /\ UNCHANGED <<status, operated, record, holder, ca, ent, new, old, rows, admin>>

\* access_cert.save(update_fields=["revoked_at", "revocation_reason"]): raises,
\* and leaves the rest of the loop undone, when the row was deleted meanwhile.
NoteRevocation(w) ==
    /\ pc[w] = "caRevoked"
    /\ ~Locked(cert[w])
    /\ IF record[cert[w]] # "none"
       THEN /\ noted' = [noted EXCEPT ![cert[w]] = Reason(new[w])]
            /\ cert' = [cert EXCEPT ![w] = NoCert]
            /\ pc' = [pc EXCEPT ![w] = "revoking"]
            /\ UNCHANGED <<ent, new, old, rows, admin>>
       ELSE Finish(w) /\ UNCHANGED noted
    /\ UNCHANGED <<status, operated, record, holder, ca>>

RevokeDone(w) ==
    /\ pc[w] = "revoking"
    /\ rows[w] = {}
    /\ Finish(w)
    /\ UNCHANGED dbVars

\* The worker is killed: open transactions roll back and a callback that was
\* due, or half done, is lost (nothing records that it was owed).
Crash(w) ==
    /\ Crashes
    /\ pc[w] # "idle"
    /\ Finish(w)
    /\ UNCHANGED dbVars

(***************************************************************************)
(* Specification                                                           *)
(***************************************************************************)

\* What a worker does on its own once a request has been accepted.
Advance(w) ==
    \/ IssueCheck(w)
    \/ IssueSupersede(w)
    \/ IssueCommit(w)
    \/ IssueFail(w)
    \/ PreSave(w)
    \/ SaveRow(w)
    \/ RevokeSelect(w)
    \/ \E c \in Certs : RevokeAtCA(w, c)
    \/ \E c \in Certs : RevokeRefused(w, c)
    \/ NoteRevocation(w)
    \/ RevokeDone(w)

Next ==
    \/ \E e \in Entities : Register(e) \/ AdminRegister(e) \/ Delete(e)
    \/ \E w \in Workers, e \in Entities :
        IssueRequest(w, e) \/ PutLoad(w, e) \/ AdminLoad(w, e)
    \/ \E w \in Workers : Advance(w) \/ Crash(w)

Spec == Init /\ [][Next]_vars

\* A worker that has accepted a request keeps running it; nobody is obliged to
\* send requests, and nothing makes a worker crash.
FairSpec == Spec /\ \A w \in Workers : WF_vars(Advance(w))

-----------------------------------------------------------------------------
(***************************************************************************)
(* Properties that hold for any number of workers, with crashes, refusals  *)
(* by the CA and deletions in between                                      *)
(***************************************************************************)

DbTypeOK ==
    /\ status \in [Entities -> Status \cup {"unregistered", "deleted"}]
    /\ operated \subseteq Entities
    /\ record \in [Certs -> {"none", "current", "superseded"}]
    /\ holder \in [Certs -> Entities \cup {NoEntity}]
    /\ noted \in [Certs -> Reasons \cup {"unset"}]
    /\ ca \in [Certs -> Reasons \cup {"unissued", "valid"}]

WorkerTypeOK ==
    /\ pc \in [Workers -> PC]
    /\ ent \in [Workers -> Entities \cup {NoEntity}]
    /\ new \in [Workers -> Status \cup {"none"}]
    /\ old \in [Workers -> Status \cup {"none"}]
    /\ rows \in [Workers -> SUBSET Certs]
    /\ cert \in [Workers -> Certs \cup {NoCert}]
    /\ admin \subseteq Workers

\* The database columns and the locals of the requests have their types.
TypeOK == DbTypeOK /\ WorkerTypeOK

\* "Do NOT mark the local record as revoked: keeping local state in sync with
\* django-ca (OCSP/CRL) is more important than a partial update": whoever reads
\* revoked_at in the registry can rely on the CA having revoked, although the
\* two writes are separate, may be refused, cut off by a crash, or race with
\* another revocation or a deletion.
NotedIsRevokedAtCA == \A c \in Certs : noted[c] # "unset" => ca[c] \in Reasons

\* Superseding the old rows and creating the new one are one transaction: an
\* entity that ever got a certificate is never seen without a current row, not
\* after two racing issuances, a failed signing or a crash.
HasCurrent == \A e \in Entities : RowsOf(e) # {} => CurrentOf(e) # {}

\* A row's entity exists, although an issuance may commit long after it read
\* the entity and a deletion does not know of the transactions under way.
RowsBelongToRegistered ==
    \A c \in Certs : record[c] # "none" => holder[c] \in Entities /\ Registered(holder[c])

\* What a request may rely on, although it read the database some steps ago.
LocalsSound(w) ==
    /\ pc[w] # "idle" => ent[w] \in Entities
    /\ pc[w] \in {"loaded", "snapshot", "committed", "revoking", "caRevoked"} =>
          new[w] \in Status
    /\ pc[w] \notin {"superseding", "revoking", "caRevoked"} => rows[w] = {}
    /\ \A c \in rows[w] : holder[c] = ent[w] /\ ca[c] # "unissued"
    /\ pc[w] = "caRevoked" => cert[w] \in Certs /\ ca[cert[w]] \in Reasons

LocalsInv == \A w \in Workers : LocalsSound(w)

\* The inductive invariant behind the three properties above: the locals of
\* every request stay sound under the steps of the others, a certificate has a
\* holder once it is signed, and only registered entities have operators.
IInv ==
    /\ TypeOK
    /\ NotedIsRevokedAtCA
    /\ HasCurrent
    /\ RowsBelongToRegistered
    /\ LocalsInv
    /\ \A c \in Certs : ca[c] = "unissued" <=> holder[c] = NoEntity
    /\ \A e \in operated : Registered(e)

\* The registry's ledger of access certificates.
Ledger == INSTANCE CertificateLedger
LedgerSpec == Ledger!Spec

(***************************************************************************)
(* Properties of one request at a time                                     *)
(***************************************************************************)

Quiet == \A w \in Workers : pc[w] = "idle"

\* Between two requests, an entity that is suspended or revoked holds no
\* current certificate the CA still vouches for, whichever path set the status.
SuspensionRevokes ==
    Quiet => \A e \in Entities : status[e] \in RevocationStatus =>
                \A c \in CurrentOf(e) : ca[c] # "valid"

\* Re-issuing leaves one current row.
OneCurrent == \A e \in Entities : Cardinality(CurrentOf(e)) <= 1

\* The reason the registry shows is the reason the CA publishes.
ReasonInSync == \A c \in Certs : noted[c] # "unset" => noted[c] = ca[c]

\* What the locals of the only request under way say of its entity: nobody but a
\* deletion changes it meanwhile.
SerialLocals(w) ==
    /\ pc[w] # "idle" => status[ent[w]] # "unregistered"
    /\ pc[w] \in {"requested", "eligible", "superseding"} =>
          status[ent[w]] \in {"active", "deleted"}
    /\ pc[w] = "snapshot" /\ Registered(ent[w]) => old[w] = status[ent[w]]
    /\ pc[w] = "superseding" => rows[w] = CurrentOf(ent[w])
    /\ pc[w] \in {"revoking", "caRevoked"} =>
          \A c \in rows[w] :
              noted[c] = "unset" /\ (record[c] = "none" => status[ent[w]] = "deleted")
    /\ pc[w] = "caRevoked" =>
          /\ cert[w] \notin rows[w]
          /\ holder[cert[w]] = ent[w]
          /\ ca[cert[w]] = Reason(new[w])
          /\ record[cert[w]] = "none" => status[ent[w]] = "deleted"

\* A request under way is going to revoke c.
RevocationOwed(c) ==
    \E w \in Workers :
        /\ ent[w] = holder[c]
        /\ \/ pc[w] = "committed"
           \/ pc[w] \in {"revoking", "caRevoked"} /\ c \in rows[w]

\* The inductive invariant behind the three properties above: a certificate that
\* should not be valid any more is on the list of the request under way.
SerialInv ==
    /\ IInv
    /\ \A w \in Workers : SerialLocals(w)
    /\ \A c \in Certs :
          record[c] = "current" /\ ca[c] = "valid" /\ status[holder[c]] \in RevocationStatus =>
              RevocationOwed(c)
    /\ \A c, d \in Certs :
          record[c] = "current" /\ record[d] = "current" /\ holder[c] = holder[d] => c = d
    /\ ReasonInSync

\* A suspension is followed by the revocation of what is current.
SuspensionCompletes ==
    \A e \in Entities :
        status[e] \in RevocationStatus ~> \A c \in CurrentOf(e) : ca[c] # "valid"

(***************************************************************************)
(* What documents say of the program, and the program does not do          *)
(***************************************************************************)

\* "Suspension or cancellation involves revocation of all valid access
\* certificates of the Relying Party": the superseded ones included.
AllRevokedOnSuspension ==
    Quiet => \A e \in Entities : status[e] \in RevocationStatus =>
                \A c \in RowsOf(e) : ca[c] # "valid"

\* "Never empty": every registered entity has an operator.
NeverWithoutOperator == \A e \in Entities : Registered(e) => e \in operated

=============================================================================
