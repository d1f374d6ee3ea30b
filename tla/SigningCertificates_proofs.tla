--------------------- MODULE SigningCertificates_proofs ---------------------
(***************************************************************************)
(* Proofs about SigningCertificates, for any sets of entities, entitlement *)
(* types, certificates and workers, with or without crashes and deletions. *)
(*                                                                         *)
(* SigningInv is inductive because the rows an open upload has updated are *)
(* locked: a deletion or a revocation waits for them, so they still belong *)
(* to the entity when the upload commits; and because the unique index     *)
(* lets an upload commit only if it updated every current row.             *)
(***************************************************************************)
EXTENDS SigningCertificates, TLAPS

LEMMA InitSigning == Init => SigningInv
BY SigningSentinels
   DEF Init, SigningInv, SigningTypeOK, PC, RequestsSound, RequestSound, OneCurrentSigning,
       HasCurrentSigning, CurrentFor, RowsFor, Stored, CurrentNotRevoked

\* The part of the invariant that speaks of certificate rows only.
RowsInv ==
    /\ OneCurrentSigning
    /\ HasCurrentSigning
    /\ CurrentNotRevoked
    /\ \A c \in revoked : row[c] # "unused"

\* What the row an upload has updated must not lose.
RowsStay ==
    \A v \in Workers, c \in Certs :
        c \in rows[v] /\ c \in Stored => c \in Stored' /\ holder'[c] = holder[c] /\ kind'[c] = kind[c]

-----------------------------------------------------------------------------
(***************************************************************************)
(* The locals of the requests                                              *)
(***************************************************************************)

LEMMA StaysSound ==
    ASSUME SigningTypeOK, RowsStay, NEW v \in Workers, RequestSound(v),
           pc'[v] = pc[v], ent'[v] = ent[v], typ'[v] = typ[v], cert'[v] = cert[v],
           rows'[v] = rows[v], stored'[v] = stored[v]
    PROVE  RequestSound(v)'
BY DEF RequestSound, RowsStay, RowsFor, SigningTypeOK

\* A worker that finishes forgets its locals; the others stay sound.
LEMMA FinishSound ==
    ASSUME SigningInv, RowsStay, NEW w \in Workers, Finish(w)
    PROVE  RequestsSound'
<1>1. ASSUME NEW v \in Workers, v # w PROVE RequestSound(v)'
  BY <1>1, StaysSound DEF SigningInv, RequestsSound, Finish, SigningTypeOK
<1>2. RequestSound(w)'
  BY DEF Finish, RequestSound, SigningInv, SigningTypeOK
<1>3. QED BY <1>1, <1>2 DEF RequestsSound

LEMMA UntouchedSound ==
    ASSUME SigningInv, RowsStay, UNCHANGED workerVars
    PROVE  RequestsSound'
<1>1. ASSUME NEW v \in Workers PROVE RequestSound(v)'
  BY <1>1, StaysSound DEF SigningInv, RequestsSound, workerVars
<1>2. QED BY <1>1 DEF RequestsSound

\* A step of one worker: only its own locals have to be looked at.
LEMMA StepSound ==
    ASSUME SigningInv, RowsStay, NEW w \in Workers, RequestSound(w)',
           \A v \in Workers \ {w} :
               /\ pc'[v] = pc[v] /\ ent'[v] = ent[v] /\ typ'[v] = typ[v]
               /\ cert'[v] = cert[v] /\ rows'[v] = rows[v] /\ stored'[v] = stored[v]
    PROVE  RequestsSound'
<1>1. ASSUME NEW v \in Workers, v # w PROVE RequestSound(v)'
  BY <1>1, StaysSound DEF SigningInv, RequestsSound
<1>2. QED BY <1>1 DEF RequestsSound

LEMMA RowsUntouched ==
    ASSUME SigningInv, UNCHANGED <<row, holder, kind, revoked>>
    PROVE  RowsInv' /\ RowsStay
BY DEF SigningInv, RowsInv, OneCurrentSigning, HasCurrentSigning, CurrentNotRevoked,
       CurrentFor, RowsFor, Stored, RowsStay

-----------------------------------------------------------------------------
(***************************************************************************)
(* Steps that leave the certificate rows alone                             *)
(***************************************************************************)

\* Registration and the admin form touch entities and entitlements only.
LEMMA EntitySaved ==
    ASSUME SigningInv, NEW e \in Entities, Register(e) \/ AdminSave(e)
    PROVE  SigningInv'
<1>1. /\ UNCHANGED <<row, holder, kind, revoked, workerVars>>
      /\ operated' = operated \cup {e}
      /\ \E s \in Status : status' = [status EXCEPT ![e] = s]
  BY SigningInputs DEF Register, AdminSave, Status
<1>2. entitlement' \in [Entities \X Entitlements -> {"none", "active", "inactive"}]
  <2>1. CASE Register(e)
    BY <2>1 DEF Register, SigningInv, SigningTypeOK
  <2>2. CASE AdminSave(e)
    <3>1. entitlement \in [Entities \X Entitlements -> {"none", "active", "inactive"}]
      BY DEF SigningInv, SigningTypeOK
    <3>2. ASSUME NEW t \in Entitlements, NEW x \in AdminRows,
                 entitlement' = [entitlement EXCEPT ![<<e, t>>] = x]
          PROVE  entitlement' \in [Entities \X Entitlements -> {"none", "active", "inactive"}]
      BY <3>1, <3>2, SigningInputs
    <3>3. QED BY <2>2, <3>1, <3>2 DEF AdminSave
  <2>3. QED BY <2>1, <2>2
<1>3. SigningTypeOK'
  BY <1>1, <1>2 DEF SigningInv, SigningTypeOK, workerVars
<1>4. RowsInv' /\ RequestsSound'
  BY <1>1, RowsUntouched, UntouchedSound
<1>5. (\A f \in operated : Registered(f))'
  BY <1>1 DEF SigningInv, SigningTypeOK, Registered
<1>6. QED BY <1>3, <1>4, <1>5 DEF SigningInv, RowsInv

\* The read that starts a request changes nothing but its locals.
LEMMA RequestStarted ==
    ASSUME SigningInv, NEW w \in Workers, pc[w] = "idle", UNCHANGED dbVars,
           SigningTypeOK', RequestSound(w)',
           \A v \in Workers \ {w} :
               /\ pc'[v] = pc[v] /\ ent'[v] = ent[v] /\ typ'[v] = typ[v]
               /\ cert'[v] = cert[v] /\ rows'[v] = rows[v] /\ stored'[v] = stored[v]
    PROVE  SigningInv'
<1>1. RowsInv' /\ RowsStay
  BY RowsUntouched DEF dbVars
<1>2. RequestsSound'
  BY <1>1, StepSound
<1>3. QED BY <1>1, <1>2 DEF SigningInv, RowsInv, dbVars, Registered

LEMMA PutLoadStep ==
    ASSUME SigningInv, NEW w \in Workers, NEW e \in Entities, PutLoad(w, e)
    PROVE  SigningInv'
<1>1. status[e] \in Status
  BY DEF PutLoad, SigningInv, Registered
<1>2. SigningTypeOK'
  <2>1. todo' \in [Workers -> Seq(Entitlements)]
    BY SigningInputs DEF PutLoad, SigningInv, SigningTypeOK
  <2>2. QED BY <1>1, <2>1 DEF PutLoad, SigningInv, SigningTypeOK, PC, dbVars
<1>3. RequestSound(w)'
  BY <1>1 DEF PutLoad, SigningInv, SigningTypeOK, RequestsSound, RequestSound
<1>4. QED
  BY <1>2, <1>3, RequestStarted DEF PutLoad, SigningInv, SigningTypeOK

LEMMA UploadValidateStep ==
    ASSUME SigningInv, NEW w \in Workers, NEW e \in Entities, NEW t \in Entitlements,
           UploadValidate(w, e, t)
    PROVE  SigningInv'
<1>1. SigningTypeOK'
  BY DEF UploadValidate, SigningInv, SigningTypeOK, PC, dbVars
<1>2. RequestSound(w)'
  BY DEF UploadValidate, SigningInv, SigningTypeOK, RequestsSound, RequestSound
<1>3. QED
  BY <1>1, <1>2, RequestStarted DEF UploadValidate, SigningInv, SigningTypeOK

LEMMA RevokeReadStep ==
    ASSUME SigningInv, NEW w \in Workers, NEW c \in Certs, RevokeRead(w, c)
    PROVE  SigningInv'
<1>1. SigningTypeOK'
  BY DEF RevokeRead, SigningInv, SigningTypeOK, PC, dbVars
<1>2. RequestSound(w)'
  BY DEF RevokeRead, SigningInv, SigningTypeOK, RequestsSound, RequestSound
<1>3. QED
  BY <1>1, <1>2, RequestStarted DEF RevokeRead, SigningInv, SigningTypeOK

\* A PUT writes the entity and its entitlements.
LEMMA PutStep ==
    ASSUME SigningInv, NEW w \in Workers,
           PutSave(w) \/ PutClear(w) \/ PutGrant(w) \/ PutDone(w)
    PROVE  SigningInv'
<1>1. UNCHANGED <<row, holder, kind, revoked, operated>>
  BY DEF PutSave, PutClear, PutGrant, PutDone, dbVars
<1>2. RowsInv' /\ RowsStay
  BY <1>1, RowsUntouched
<1>3. /\ status' \in [Entities -> Status \cup {"unregistered", "deleted"}]
      /\ \A e \in Entities : Registered(e) => Registered(e)'
      /\ entitlement' \in [Entities \X Entitlements -> {"none", "active", "inactive"}]
  <2>1. ent[w] \in Entities
    BY DEF SigningInv, RequestsSound, RequestSound, PutSave, PutClear, PutGrant, PutDone
  <2>2. CASE PutSave(w)
    BY <2>1, <2>2
       DEF PutSave, SigningInv, SigningTypeOK, RequestsSound, RequestSound, Registered
  <2>3. CASE PutClear(w)
    BY <2>1, <2>3 DEF PutClear, SigningInv, SigningTypeOK, Registered
  <2>4. CASE PutGrant(w)
    BY <2>1, <2>4 DEF PutGrant, SigningInv, SigningTypeOK, Registered
  <2>5. CASE PutDone(w)
    BY <2>5 DEF PutDone, dbVars, SigningInv, SigningTypeOK, Registered
  <2>6. QED BY <2>2, <2>3, <2>4, <2>5
<1>4. ASSUME Finish(w) PROVE RequestsSound' /\ SigningTypeOK'
  <2>1. RequestsSound'
    BY <1>4, <1>2, FinishSound
  <2>2. SigningTypeOK'
    BY <1>4, <1>1, <1>3 DEF Finish, SigningInv, SigningTypeOK, PC
  <2>3. QED BY <2>1, <2>2
<1>5. ASSUME UNCHANGED <<ent, typ, cert, rows, stored>>,
             NEW s \in {"clearing", "granting"}, pc' = [pc EXCEPT ![w] = s],
             pc[w] \in {"loaded", "clearing", "granting"},
             todo' \in [Workers -> Seq(Entitlements)]
      PROVE  RequestsSound' /\ SigningTypeOK'
  <2>1. SigningTypeOK'
    BY <1>5, <1>1, <1>3 DEF SigningInv, SigningTypeOK, PC
  <2>2. RequestSound(w)'
    BY <1>5, <1>2 DEF SigningInv, SigningTypeOK, RequestsSound, RequestSound
  <2>3. RequestsSound'
    BY <1>5, <1>2, <2>2, StepSound DEF SigningInv, SigningTypeOK
  <2>4. QED BY <2>1, <2>3
<1>6. RequestsSound' /\ SigningTypeOK'
  <2>1. todo \in [Workers -> Seq(Entitlements)] /\ pc \in [Workers -> PC]
    BY DEF SigningInv, SigningTypeOK
  <2>2. CASE PutSave(w)
    BY <2>1, <2>2, <1>4, <1>5 DEF PutSave
  <2>3. CASE PutClear(w)
    BY <2>1, <2>3, <1>5 DEF PutClear
  <2>4. CASE PutGrant(w)
    <3>1. CASE Finish(w)
      BY <3>1, <1>4
    <3>2. CASE /\ todo' = [todo EXCEPT ![w] = Tail(@)] /\ todo[w] # <<>>
               /\ UNCHANGED <<pc, ent, typ, cert, rows, stored>> /\ pc[w] = "granting"
      <4>1. todo' \in [Workers -> Seq(Entitlements)]
        <5>1. Tail(todo[w]) \in Seq(Entitlements)
          BY <2>1, <3>2
        <5>2. QED BY <2>1, <3>2, <5>1
      <4>2. pc' = [pc EXCEPT ![w] = "granting"]
        BY <2>1, <3>2
      <4>3. QED BY <3>2, <4>1, <4>2, <1>5
    <3>3. QED BY <2>4, <3>1, <3>2 DEF PutGrant
  <2>5. CASE PutDone(w)
    BY <2>5, <1>4 DEF PutDone
  <2>6. QED BY <2>2, <2>3, <2>4, <2>5
<1>7. QED BY <1>1, <1>2, <1>3, <1>6 DEF SigningInv, SigningTypeOK, RowsInv

\* A request that ends without a commit.
LEMMA Abandoned ==
    ASSUME SigningInv, NEW w \in Workers, Finish(w), UNCHANGED dbVars
    PROVE  SigningInv'
<1>1. RowsInv' /\ RowsStay
  BY RowsUntouched DEF dbVars
<1>2. RequestsSound'
  BY <1>1, FinishSound
<1>3. SigningTypeOK'
  BY DEF Finish, dbVars, SigningInv, SigningTypeOK, PC
<1>4. QED BY <1>1, <1>2, <1>3 DEF SigningInv, RowsInv, dbVars, Registered

-----------------------------------------------------------------------------
(***************************************************************************)
(* Steps that change certificate rows                                      *)
(***************************************************************************)

\* A deletion takes every row of its entity, none of them locked.
LEMMA DeleteStep ==
    ASSUME SigningInv, NEW e \in Entities, Delete(e)
    PROVE  SigningInv'
<1>1. SigningTypeOK'
  BY DEF Delete, SigningInv, SigningTypeOK, workerVars
<1>2. RowsStay
  <2>1. SUFFICES ASSUME NEW v \in Workers, NEW c \in Certs, c \in rows[v], c \in Stored
                 PROVE  c \in Stored' /\ holder'[c] = holder[c] /\ kind'[c] = kind[c]
    BY DEF RowsStay
  <2>2. holder[c] # e
    <3>1. /\ pc[v] = "storing" /\ typ[v] \in Issuers
          /\ c \in RowsFor(ent[v], typ[v])
      BY <2>1 DEF SigningInv, RequestsSound, RequestSound
    <3>2. Locked(c) /\ typ[v] \in Entitlements
      BY <2>1, <3>1, SigningInputs DEF Locked
    <3>3. QED BY <3>1, <3>2 DEF Delete, RowsFor
  <2>3. QED BY <2>1, <2>2 DEF Delete, Stored
<1>3. RequestsSound'
  BY <1>2, UntouchedSound DEF Delete
<1>4. RowsInv'
  <2>1. ASSUME NEW f \in Entities, NEW t \in Issuers
        PROVE  /\ RowsFor(f, t)' = IF f = e THEN {} ELSE RowsFor(f, t)
               /\ CurrentFor(f, t)' = IF f = e THEN {} ELSE CurrentFor(f, t)
    BY DEF Delete, RowsFor, CurrentFor, Stored
  <2>2. OneCurrentSigning'
    BY <2>1 DEF SigningInv, OneCurrentSigning
  <2>3. HasCurrentSigning'
    BY <2>1 DEF SigningInv, HasCurrentSigning, Delete
  <2>4. CurrentNotRevoked' /\ (\A c \in revoked : row[c] # "unused")'
    BY DEF SigningInv, SigningTypeOK, CurrentNotRevoked, Delete
  <2>5. QED BY <2>2, <2>3, <2>4 DEF RowsInv
<1>5. (\A f \in operated : Registered(f))'
  BY DEF Delete, SigningInv, SigningTypeOK, Registered
<1>6. QED BY <1>1, <1>3, <1>4, <1>5 DEF SigningInv, RowsInv

\* The open transaction notes which rows it has updated.
LEMMA DemoteStep ==
    ASSUME SigningInv, NEW w \in Workers, UploadDemote(w)
    PROVE  SigningInv'
<1>1. RowsInv' /\ RowsStay
  BY RowsUntouched DEF UploadDemote, dbVars
<1>2. SigningTypeOK'
  BY DEF UploadDemote, dbVars, SigningInv, SigningTypeOK, PC, CurrentFor, RowsFor, Stored
<1>3. RequestSound(w)'
  BY DEF UploadDemote, dbVars, SigningInv, SigningTypeOK, RequestsSound, RequestSound,
         CurrentFor, RowsFor, Stored
<1>4. RequestsSound'
  BY <1>1, <1>3, StepSound DEF UploadDemote, SigningInv, SigningTypeOK
<1>5. QED BY <1>1, <1>2, <1>4 DEF SigningInv, RowsInv, UploadDemote, dbVars, Registered

\* The upload that commits is the only current one of its entity and type.
LEMMA StoreStep ==
    ASSUME SigningInv, NEW w \in Workers, UploadStore(w)
    PROVE  SigningInv'
<1>1. CASE UNCHANGED <<row, holder, kind>>
  BY <1>1, Abandoned DEF UploadStore, dbVars
<1>2. ASSUME NEW c \in Certs, row[c] = "unused", Unique(w),
             row' = [d \in Certs |-> IF d = c THEN "current"
                                     ELSE IF d \in rows[w] THEN "historical"
                                     ELSE row[d]],
             holder' = [holder EXCEPT ![c] = ent[w]],
             kind' = [kind EXCEPT ![c] = typ[w]]
      PROVE  SigningInv'
  <2>1. /\ ent[w] \in Entities /\ typ[w] \in Issuers
        /\ rows[w] \subseteq RowsFor(ent[w], typ[w])
    BY DEF UploadStore, SigningInv, RequestsSound, RequestSound
  <2>2. c \notin Stored /\ c \notin revoked
    BY <1>2 DEF Stored, SigningInv
  <2>3. Stored' = Stored \cup {c}
    BY <1>2, <2>1 DEF Stored, RowsFor
  <2>4. RowsStay
    BY <1>2, <2>2, <2>3 DEF RowsStay, SigningInv, SigningTypeOK
  <2>5. RequestsSound'
    BY <2>4, FinishSound DEF UploadStore
  <2>6. SigningTypeOK'
    BY <1>2, <2>1 DEF UploadStore, Finish, SigningInv, SigningTypeOK, PC
  <2>7. PICK g \in Entities, i \in Issuers : g = ent[w] /\ i = typ[w]
    BY <2>1
  <2>8. ASSUME NEW e \in Entities, NEW t \in Issuers, e # g \/ t # i
        PROVE  /\ RowsFor(e, t)' = RowsFor(e, t)
               /\ CurrentFor(e, t)' = CurrentFor(e, t)
    <3>1. RowsFor(e, t)' = RowsFor(e, t)
      BY <1>2, <2>2, <2>3, <2>7, <2>8 DEF RowsFor, SigningInv, SigningTypeOK
    <3>2. \A d \in RowsFor(e, t) : row'[d] = row[d]
      BY <1>2, <2>1, <2>2, <2>7, <2>8 DEF RowsFor, Stored
    <3>3. QED BY <3>1, <3>2 DEF CurrentFor
  <2>9. CurrentFor(g, i)' = {c}
    <3>1. ASSUME NEW d \in CurrentFor(g, i)' PROVE d = c
      <4>1. /\ d \in Stored \cup {c} /\ row'[d] = "current"
            /\ holder'[d] = g /\ kind'[d] = i
        BY <2>3 DEF CurrentFor, RowsFor
      <4>2. SUFFICES ASSUME d # c PROVE FALSE
        OBVIOUS
      <4>3. d \in CurrentFor(g, i) /\ d \notin rows[w]
        BY <1>2, <4>1, <4>2 DEF CurrentFor, RowsFor, Stored, SigningInv, SigningTypeOK
      <4>4. QED BY <1>2, <2>7, <4>3 DEF Unique
    <3>2. c \in CurrentFor(g, i)'
      BY <1>2, <2>3, <2>7 DEF CurrentFor, RowsFor, SigningInv, SigningTypeOK
    <3>3. QED BY <3>1, <3>2
  <2>10. OneCurrentSigning' /\ HasCurrentSigning'
    <3>1. OneCurrentSigning'
      <4>1. SUFFICES ASSUME NEW e \in Entities, NEW t \in Issuers,
                            NEW x \in CurrentFor(e, t)', NEW y \in CurrentFor(e, t)'
                     PROVE  x = y
        BY DEF OneCurrentSigning
      <4>2. CASE e = g /\ t = i
        BY <2>9, <4>2
      <4>3. CASE e # g \/ t # i
        BY <2>8, <4>3 DEF SigningInv, OneCurrentSigning
      <4>4. QED BY <4>2, <4>3
    <3>2. HasCurrentSigning'
      <4>1. SUFFICES ASSUME NEW e \in Entities, NEW t \in Issuers,
                            RowsFor(e, t)' # {}, (RowsFor(e, t) \cap revoked)' = {}
                     PROVE  CurrentFor(e, t)' # {}
        BY DEF HasCurrentSigning
      <4>2. CASE e = g /\ t = i
        BY <2>9, <4>2
      <4>3. CASE e # g \/ t # i
        BY <2>8, <4>1, <4>3 DEF SigningInv, HasCurrentSigning, UploadStore
      <4>4. QED BY <4>2, <4>3
    <3>3. QED BY <3>1, <3>2
  <2>11. CurrentNotRevoked' /\ (\A d \in revoked : row[d] # "unused")'
    BY <1>2, <2>2 DEF SigningInv, CurrentNotRevoked, UploadStore, SigningTypeOK
  <2>12. QED
    BY <2>5, <2>6, <2>10, <2>11 DEF SigningInv, UploadStore, Registered
<1>3. QED BY <1>1, <1>2 DEF UploadStore

\* A revocation only ever takes away, and not from a locked row.
LEMMA RevokeStep ==
    ASSUME SigningInv, NEW w \in Workers, RevokeSave(w)
    PROVE  SigningInv'
<1>1. CASE UNCHANGED <<row, revoked>>
  BY <1>1, Abandoned DEF RevokeSave, dbVars
<1>2. CASE /\ cert[w] \in Stored
           /\ revoked' = revoked \cup {cert[w]}
           /\ row' = [row EXCEPT ![cert[w]] = "historical"]
  <2>1. cert[w] \in Certs /\ Stored' = Stored
    BY <1>2 DEF Stored, SigningInv, SigningTypeOK
  <2>2. RowsStay
    BY <2>1 DEF RowsStay, RevokeSave
  <2>3. RequestsSound'
    BY <2>2, FinishSound DEF RevokeSave
  <2>4. SigningTypeOK'
    BY <1>2, <2>1 DEF RevokeSave, Finish, SigningInv, SigningTypeOK, PC
  <2>5. ASSUME NEW e \in Entities, NEW t \in Issuers
        PROVE  /\ RowsFor(e, t)' = RowsFor(e, t)
               /\ CurrentFor(e, t)' = CurrentFor(e, t) \ {cert[w]}
    BY <1>2, <2>1 DEF RevokeSave, RowsFor, CurrentFor, SigningInv, SigningTypeOK
  <2>6. OneCurrentSigning'
    BY <2>5 DEF SigningInv, OneCurrentSigning
  <2>7. HasCurrentSigning'
    <3>1. SUFFICES ASSUME NEW e \in Entities, NEW t \in Issuers,
                          RowsFor(e, t) # {}, RowsFor(e, t) \cap revoked' = {}
                   PROVE  CurrentFor(e, t)' # {}
      BY <2>5 DEF HasCurrentSigning
    <3>2. cert[w] \notin RowsFor(e, t) /\ RowsFor(e, t) \cap revoked = {}
      BY <1>2, <3>1
    <3>3. CurrentFor(e, t) # {} /\ cert[w] \notin CurrentFor(e, t)
      BY <3>1, <3>2 DEF SigningInv, HasCurrentSigning, CurrentFor
    <3>4. QED BY <2>5, <3>3
  <2>8. CurrentNotRevoked' /\ (\A d \in revoked : row[d] # "unused")'
    BY <1>2, <2>1 DEF SigningInv, CurrentNotRevoked, SigningTypeOK
  <2>9. QED
    BY <2>3, <2>4, <2>6, <2>7, <2>8 DEF SigningInv, RevokeSave, Registered
<1>3. QED BY <1>1, <1>2 DEF RevokeSave

-----------------------------------------------------------------------------
(***************************************************************************)
(* The theorems                                                            *)
(***************************************************************************)

LEMMA NextSigning ==
    ASSUME SigningInv, [Next]_vars
    PROVE  SigningInv'
<1>1. CASE UNCHANGED vars
  <2>1. RowsInv' /\ RequestsSound'
    BY <1>1, RowsUntouched, UntouchedSound DEF vars, dbVars
  <2>2. SigningTypeOK'
    BY <1>1 DEF vars, dbVars, workerVars, SigningInv, SigningTypeOK
  <2>3. QED BY <1>1, <2>1, <2>2 DEF SigningInv, RowsInv, vars, dbVars, Registered
<1>2. ASSUME NEW e \in Entities, Register(e) \/ AdminSave(e) PROVE SigningInv'
  BY <1>2, EntitySaved
<1>3. ASSUME NEW e \in Entities, Delete(e) PROVE SigningInv'
  BY <1>3, DeleteStep
<1>4. ASSUME NEW w \in Workers, NEW e \in Entities,
             PutLoad(w, e) \/ \E t \in Entitlements : UploadValidate(w, e, t)
      PROVE  SigningInv'
  BY <1>4, PutLoadStep, UploadValidateStep
<1>5. ASSUME NEW w \in Workers, NEW c \in Certs, RevokeRead(w, c) PROVE SigningInv'
  BY <1>5, RevokeReadStep
<1>6. ASSUME NEW w \in Workers, Advance(w) PROVE SigningInv'
  <2>1. CASE UploadFail(w)
    BY <2>1, Abandoned DEF UploadFail
  <2>2. QED
    BY <1>6, <2>1, DemoteStep, StoreStep, RevokeStep, PutStep DEF Advance
<1>7. ASSUME NEW w \in Workers, Crash(w) PROVE SigningInv'
  BY <1>7, Abandoned DEF Crash
<1>8. QED BY <1>1, <1>2, <1>3, <1>4, <1>5, <1>6, <1>7 DEF Next

\* SigningInv holds in every reachable state.
THEOREM SigningInvAlways == Spec => []SigningInv
BY InitSigning, NextSigning, PTL DEF Spec

\* Columns and locals keep their types, for any number of workers and entities.
THEOREM SigningTypeOKAlways == Spec => []SigningTypeOK
BY SigningInvAlways, PTL DEF SigningInv

\* However uploads race, an entity has one current signing certificate for a type.
THEOREM OneCurrentSigningAlways == Spec => []OneCurrentSigning
BY SigningInvAlways, PTL DEF SigningInv

\* Replacing a certificate never leaves an issuer without a current one.
THEOREM HasCurrentSigningAlways == Spec => []HasCurrentSigning
BY SigningInvAlways, PTL DEF SigningInv

\* The current certificate is never one that was revoked.
THEOREM CurrentNotRevokedAlways == Spec => []CurrentNotRevoked
BY SigningInvAlways, PTL DEF SigningInv

-----------------------------------------------------------------------------
(***************************************************************************)
(* Entitlements                                                            *)
(***************************************************************************)

\* A PUT has still to create an entitlement of e.
Owed(e) ==
    \E w \in Workers : ent[w] = e /\ pc[w] \in {"clearing", "granting"} /\ todo[w] # <<>>

\* An entity is entitled, or it is owed its entitlements.
EntitledInv ==
    /\ \A e \in Entities : Registered(e) => Entitled(e) # {} \/ Owed(e)
    /\ \A w \in Workers : pc[w] \in {"loaded", "clearing"} => todo[w] # <<>>

\* What the invariant asks of the environment: no PUT dies between the deletion
\* and its end, none comes without entitlements, and no administrator takes the
\* last one away.
Undisturbed ==
    CrashAt \cap {"clearing", "granting"} = {} /\ <<>> \notin Requests /\ "none" \notin AdminRows

\* Steps of a worker that is not one that owes, and that changes no entitlement.
LEMMA EntitledIdle ==
    ASSUME SigningInv, EntitledInv, NEW w \in Workers,
           pc[w] \notin {"clearing", "granting"} \/ todo[w] = <<>>,
           UNCHANGED <<status, entitlement>>,
           \A v \in Workers \ {w} : pc'[v] = pc[v] /\ ent'[v] = ent[v] /\ todo'[v] = todo[v],
           pc'[w] \in {"loaded", "clearing"} => todo'[w] # <<>>
    PROVE  EntitledInv'
<1>1. \A e \in Entities : Owed(e) => Owed(e)'
  BY DEF Owed
<1>2. QED BY <1>1 DEF EntitledInv, Registered, Entitled

\* Registrations, admin edits and deletions, each in one transaction.
LEMMA EntitledEdited ==
    ASSUME SigningInv, EntitledInv, Undisturbed, NEW e \in Entities,
           Register(e) \/ AdminSave(e) \/ Delete(e)
    PROVE  EntitledInv'
<1>1. \A d \in Entities : Owed(d) => Owed(d)'
  BY DEF Owed, Register, AdminSave, Delete, workerVars
<1>2. UNCHANGED <<pc, todo>>
  BY DEF Register, AdminSave, Delete, workerVars
<1> SUFFICES ASSUME NEW d \in Entities, Registered(d)' PROVE Entitled(d)' # {} \/ Owed(d)'
  BY <1>2 DEF EntitledInv
<1>3. CASE Register(e)
  <2>1. CASE d = e
    <3>1. PICK req \in Requests \ {<<>>} :
              entitlement' = [et \in Entities \X Entitlements |->
                  IF et[1] = e /\ et[2] \in Range(req) THEN "active" ELSE entitlement[et]]
      BY <1>3 DEF Register
    <3>2. req \in Seq(Entitlements) /\ req # <<>>
      BY <3>1, SigningInputs
    <3>3. req[1] \in Entitlements /\ req[1] \in Range(req)
      BY <3>2 DEF Range
    <3>4. entitlement'[<<e, req[1]>>] = "active"
      BY <3>1, <3>3
    <3>5. QED BY <2>1, <3>3, <3>4 DEF Entitled
  <2>2. CASE d # e
    <3>1. Registered(d) /\ \A t \in Entitlements : entitlement'[<<d, t>>] = entitlement[<<d, t>>]
      BY <1>3, <2>2 DEF Register, Registered, SigningInv, SigningTypeOK
    <3>2. Entitled(d)' = Entitled(d)
      BY <3>1 DEF Entitled
    <3>3. QED BY <1>1, <3>1, <3>2 DEF EntitledInv
  <2>3. QED BY <2>1, <2>2
<1>4. CASE AdminSave(e)
  <2>1. Registered(d)
    BY <1>4 DEF AdminSave, Registered, SigningInv, SigningTypeOK
  <2>2. \A t \in Entitlements : entitlement[<<d, t>>] # "none" => entitlement'[<<d, t>>] # "none"
    <3>1. entitlement \in [Entities \X Entitlements -> {"none", "active", "inactive"}]
      BY DEF SigningInv, SigningTypeOK
    <3>2. \/ UNCHANGED entitlement
          \/ \E u \in Entitlements, x \in AdminRows : entitlement' = [entitlement EXCEPT ![<<e, u>>] = x]
      BY <1>4 DEF AdminSave
    <3>3. ASSUME NEW u \in Entitlements, NEW x \in AdminRows, NEW t \in Entitlements,
                 entitlement' = [entitlement EXCEPT ![<<e, u>>] = x], entitlement[<<d, t>>] # "none"
          PROVE  entitlement'[<<d, t>>] # "none"
      <4>1. x # "none"
        BY DEF Undisturbed
      <4>2. entitlement'[<<d, t>>] = IF <<d, t>> = <<e, u>> THEN x ELSE entitlement[<<d, t>>]
        BY <3>1, <3>3
      <4>3. QED BY <3>3, <4>1, <4>2
    <3>4. QED BY <3>2, <3>3
  <2>3. Entitled(d) \subseteq Entitled(d)'
    BY <2>2 DEF Entitled
  <2>4. QED BY <1>1, <2>1, <2>3 DEF EntitledInv
<1>5. CASE Delete(e)
  <2>1. d # e /\ Registered(d)
    BY <1>5 DEF Delete, Registered, Status, SigningInv, SigningTypeOK
  <2>2. \A t \in Entitlements : entitlement'[<<d, t>>] = entitlement[<<d, t>>]
    BY <1>5, <2>1 DEF Delete
  <2>3. Entitled(d)' = Entitled(d)
    BY <2>2 DEF Entitled
  <2>4. QED BY <1>1, <2>1, <2>3 DEF EntitledInv
<1>6. QED BY <1>3, <1>4, <1>5

\* The invariant of the next state, one half for the entities and one for the workers.
LEMMA EntitledParts ==
    ASSUME EntitledInv, NEW w \in Workers,
           \A v \in Workers \ {w} : pc'[v] = pc[v] /\ todo'[v] = todo[v],
           pc'[w] \in {"loaded", "clearing"} => todo'[w] # <<>>,
           \A e \in Entities : Registered(e)' => Entitled(e)' # {} \/ Owed(e)'
    PROVE  EntitledInv'
BY DEF EntitledInv

\* A PUT passes what it owes from the list it was sent to the table.
LEMMA EntitledPut ==
    ASSUME SigningInv, EntitledInv, NEW w \in Workers, PutSave(w) \/ PutClear(w) \/ PutGrant(w)
    PROVE  EntitledInv'
<1>1. /\ ent[w] \in Entities /\ todo[w] \in Seq(Entitlements)
      /\ pc[w] \in {"loaded", "clearing", "granting"}
      /\ pc \in [Workers -> PC] /\ todo \in [Workers -> Seq(Entitlements)]
      /\ ent \in [Workers -> Entities \cup {NoEntity}]
      /\ status \in [Entities -> Status \cup {"unregistered", "deleted"}]
      /\ entitlement \in [Entities \X Entitlements -> {"none", "active", "inactive"}]
  BY DEF SigningInv, SigningTypeOK, RequestsSound, RequestSound, PutSave, PutClear, PutGrant
<1>2. \A v \in Workers \ {w} : pc'[v] = pc[v] /\ ent'[v] = ent[v] /\ todo'[v] = todo[v]
  BY <1>1 DEF PutSave, PutClear, PutGrant, Finish
<1>3. ASSUME NEW d \in Entities, d # ent[w], Registered(d)' PROVE Entitled(d)' # {} \/ Owed(d)'
  <2>1. Registered(d) /\ \A t \in Entitlements : entitlement'[<<d, t>>] = entitlement[<<d, t>>]
    <3>1. Registered(d)
      BY <1>1, <1>3 DEF PutSave, PutClear, PutGrant, Registered
    <3>2. CASE PutSave(w)
      BY <3>1, <3>2 DEF PutSave
    <3>3. CASE PutClear(w)
      BY <1>3, <3>1, <3>3 DEF PutClear
    <3>4. CASE PutGrant(w)
      BY <1>1, <1>3, <3>1, <3>4 DEF PutGrant
    <3>5. QED BY <3>2, <3>3, <3>4
  <2>2. Entitled(d)' = Entitled(d)
    BY <2>1 DEF Entitled
  <2>3. Owed(d) => Owed(d)'
    BY <1>2, <1>3 DEF Owed
  <2>4. QED BY <2>1, <2>2, <2>3 DEF EntitledInv
<1>4. CASE PutSave(w)
  <2>1. todo[w] # <<>> /\ pc' = [pc EXCEPT ![w] = "clearing"] /\ UNCHANGED <<ent, todo>>
    BY <1>4 DEF PutSave, EntitledInv
  <2>2. Owed(ent[w])'
    BY <1>1, <2>1 DEF Owed
  <2>3. QED BY <1>1, <1>2, <1>3, <2>1, <2>2 DEF EntitledInv
<1>5. CASE PutClear(w)
  <2>1. todo[w] # <<>> /\ pc' = [pc EXCEPT ![w] = "granting"] /\ UNCHANGED <<ent, todo>>
    BY <1>5 DEF PutClear, EntitledInv
  <2>2. Owed(ent[w])'
    BY <1>1, <2>1 DEF Owed
  <2>3. QED BY <1>1, <1>2, <1>3, <2>1, <2>2 DEF EntitledInv
<1>6. CASE PutGrant(w)
  <2>1. PICK f \in Entities, t \in Entitlements : f = ent[w] /\ t = Head(todo[w])
    BY <1>1, <1>6 DEF PutGrant
  <2>2. status' = status
    BY <1>6 DEF PutGrant
  <2>3. Registered(f) => entitlement'[<<f, t>>] # "none"
    BY <1>1, <1>6, <2>1 DEF PutGrant
  <2>4. Registered(f)' => Entitled(f)' # {}
    BY <2>1, <2>2, <2>3 DEF Entitled, Registered
  <2>5. pc'[w] \in {"granting", "idle"}
    BY <1>1, <1>6 DEF PutGrant, Finish
  <2>6. QED BY <1>2, <1>3, <2>1, <2>4, <2>5, EntitledParts
<1>7. QED BY <1>4, <1>5, <1>6

\* Every step keeps it.
LEMMA EntitledNext ==
    ASSUME SigningInv, EntitledInv, Undisturbed, [Next]_vars
    PROVE  EntitledInv'
<1>1. CASE UNCHANGED vars
  BY <1>1, SMTT(30) DEF vars, dbVars, workerVars, EntitledInv, Registered, Entitled, Owed
<1>2. ASSUME NEW e \in Entities, Register(e) \/ AdminSave(e) \/ Delete(e) PROVE EntitledInv'
  BY <1>2, EntitledEdited
<1>3. /\ pc \in [Workers -> PC] /\ todo \in [Workers -> Seq(Entitlements)]
      /\ ent \in [Workers -> Entities \cup {NoEntity}]
  BY DEF SigningInv, SigningTypeOK
<1>4. ASSUME NEW w \in Workers, NEW e \in Entities, PutLoad(w, e) PROVE EntitledInv'
  <2>1. PICK req \in Requests : todo' = [todo EXCEPT ![w] = req]
    BY <1>4 DEF PutLoad
  <2>2. req # <<>>
    BY DEF Undisturbed
  <2>3. QED BY <1>3, <1>4, <2>1, <2>2, EntitledIdle DEF PutLoad, dbVars
<1>5. ASSUME NEW w \in Workers, NEW e \in Entities, NEW t \in Entitlements, UploadValidate(w, e, t)
      PROVE  EntitledInv'
  BY <1>3, <1>5, EntitledIdle DEF UploadValidate, dbVars
<1>6. ASSUME NEW w \in Workers, NEW c \in Certs, RevokeRead(w, c) PROVE EntitledInv'
  BY <1>3, <1>6, EntitledIdle DEF RevokeRead, dbVars
<1>7. ASSUME NEW w \in Workers, UploadDemote(w) PROVE EntitledInv'
  BY <1>3, <1>7, EntitledIdle DEF UploadDemote, dbVars
<1>8. ASSUME NEW w \in Workers, Finish(w), UNCHANGED <<status, entitlement>>,
             pc[w] \notin {"clearing", "granting"} \/ todo[w] = <<>>
      PROVE  EntitledInv'
  BY <1>3, <1>8, EntitledIdle DEF Finish
<1>9. ASSUME NEW w \in Workers,
             UploadStore(w) \/ UploadFail(w) \/ RevokeSave(w) \/ PutDone(w) \/ Crash(w)
      PROVE  EntitledInv'
  BY <1>8, <1>9 DEF UploadStore, UploadFail, RevokeSave, PutDone, Crash, Undisturbed, dbVars
<1>10. QED
  BY <1>1, <1>2, <1>4, <1>5, <1>6, <1>7, <1>9, EntitledPut DEF Next, Advance

\* Nobody is registered yet.
LEMMA InitEntitled == Init => EntitledInv
BY DEF Init, EntitledInv, Registered, Status

\* Once the PUTs have ended, a registered entity has an entitlement, unless one
\* died halfway, came without any, or an administrator took the last one away.
THEOREM EntitledWhenQuietAlways == ASSUME Undisturbed PROVE Spec => []EntitledWhenQuiet
<1>1. EntitledInv => EntitledWhenQuiet
  BY DEF EntitledInv, EntitledWhenQuiet, Owed
<1>2. SigningInv /\ EntitledInv /\ [Next]_vars => EntitledInv'
  BY EntitledNext
<1>3. QED BY <1>1, <1>2, InitEntitled, SigningInvAlways, PTL DEF Spec
=============================================================================
