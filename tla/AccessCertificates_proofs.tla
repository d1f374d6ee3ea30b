---------------------- MODULE AccessCertificates_proofs ----------------------
(***************************************************************************)
(* Proofs about AccessCertificates, for any sets of entities, certificates *)
(* and workers, with or without crashes and refusals by the CA.            *)
(*                                                                         *)
(* The argument has one inductive invariant, IInv. Its heart is LocalsInv: *)
(* what a request has read some steps ago (the rows it will supersede or   *)
(* revoke, the certificate it has just revoked at the CA) stays true of    *)
(* the database under the steps of every other request, because a          *)
(* certificate never changes its holder and a revocation is final.         *)
(***************************************************************************)
EXTENDS AccessCertificates, TLAPS

\* Certificates only ever gain: a signed one keeps its holder, a revocation
\* stays one.
CertsStable ==
    \A c \in Certs : ca[c] # "unissued" =>
        /\ holder'[c] = holder[c]
        /\ ca'[c] # "unissued"
        /\ ca[c] \in Reasons => ca'[c] \in Reasons

\* Nothing is wrong before the first registration.
LEMMA InitIInv == Init => IInv
BY SentinelAssumption
   DEF Init, IInv, TypeOK, DbTypeOK, WorkerTypeOK, NotedIsRevokedAtCA, HasCurrent, RowsOf,
       RowsBelongToRegistered, LocalsInv, LocalsSound, PC

-----------------------------------------------------------------------------
(***************************************************************************)
(* The locals of the requests                                              *)
(***************************************************************************)

\* A request whose own locals a step leaves alone stays sound if the step
\* changes the certificates only in a stable way.
LEMMA StaysSound ==
    ASSUME WorkerTypeOK, CertsStable, NEW v \in Workers, LocalsSound(v),
           pc'[v] = pc[v], ent'[v] = ent[v], new'[v] = new[v],
           rows'[v] = rows[v], cert'[v] = cert[v]
    PROVE  LocalsSound(v)'
<1>1. rows[v] \subseteq Certs
  BY DEF WorkerTypeOK
<1>2. QED BY <1>1 DEF LocalsSound, CertsStable, Reasons

\* A worker that finishes leaves no locals behind; the others' survive any
\* change of the certificates that is stable.
LEMMA FinishSound ==
    ASSUME IInv, NEW w \in Workers, Finish(w), CertsStable
    PROVE  WorkerTypeOK' /\ LocalsInv'
<1>1. WorkerTypeOK'
  BY DEF IInv, TypeOK, WorkerTypeOK, Finish, PC
<1>2. ASSUME NEW v \in Workers PROVE LocalsSound(v)'
  <2>1. CASE v = w
    BY <2>1 DEF IInv, TypeOK, WorkerTypeOK, Finish, LocalsSound
  <2>2. CASE v # w
    BY <1>2, <2>2, StaysSound DEF IInv, TypeOK, WorkerTypeOK, Finish, LocalsInv
  <2>3. QED BY <2>1, <2>2
<1>3. QED BY <1>1, <1>2 DEF LocalsInv

\* Requests that are not touched stay sound under a stable change.
LEMMA UntouchedSound ==
    ASSUME IInv, UNCHANGED workerVars, CertsStable
    PROVE  WorkerTypeOK' /\ LocalsInv'
<1>1. WorkerTypeOK'
  BY DEF IInv, TypeOK, WorkerTypeOK, workerVars
<1>2. ASSUME NEW v \in Workers PROVE LocalsSound(v)'
  BY StaysSound DEF IInv, TypeOK, LocalsInv, workerVars
<1>3. QED BY <1>1, <1>2 DEF LocalsInv

\* A step of one worker: only its own locals have to be looked at.
LEMMA StepSound ==
    ASSUME IInv, NEW w \in Workers, CertsStable, LocalsSound(w)',
           \A v \in Workers \ {w} :
               /\ pc'[v] = pc[v] /\ ent'[v] = ent[v] /\ new'[v] = new[v]
               /\ rows'[v] = rows[v] /\ cert'[v] = cert[v]
    PROVE  LocalsInv'
<1>1. ASSUME NEW v \in Workers, v # w PROVE LocalsSound(v)'
  BY <1>1, StaysSound DEF IInv, TypeOK, LocalsInv
<1>2. QED BY <1>1 DEF LocalsInv

\* What is left of the invariant speaks of the database only.
LEMMA DbUntouched ==
    ASSUME IInv, UNCHANGED dbVars, WorkerTypeOK', LocalsInv'
    PROVE  IInv'
BY DEF IInv, TypeOK, DbTypeOK, NotedIsRevokedAtCA, HasCurrent, RowsOf, CurrentOf,
       RowsBelongToRegistered, Registered, dbVars

LEMMA UntouchedDbStable ==
    ASSUME UNCHANGED dbVars
    PROVE  CertsStable
BY DEF dbVars, CertsStable

-----------------------------------------------------------------------------
(***************************************************************************)
(* One lemma per action                                                    *)
(***************************************************************************)

\* Registering an entity, by the API or by an administrator, touches no
\* certificate and no request.
LEMMA RegisterIInv ==
    ASSUME IInv, NEW e \in Entities, Register(e) \/ AdminRegister(e)
    PROVE  IInv'
<1>1. /\ UNCHANGED <<record, holder, noted, ca, workerVars>>
      /\ operated' = operated \cup {e}
      /\ \E s \in Status : status' = [status EXCEPT ![e] = s]
  BY FormAssumption DEF Register, AdminRegister, Status
<1>2. CertsStable
  BY <1>1 DEF CertsStable
<1>3. WorkerTypeOK' /\ LocalsInv'
  BY <1>1, <1>2, UntouchedSound
<1>4. DbTypeOK'
  BY <1>1 DEF IInv, TypeOK, DbTypeOK
<1>5. NotedIsRevokedAtCA' /\ HasCurrent'
  BY <1>1 DEF IInv, NotedIsRevokedAtCA, HasCurrent, CurrentOf, RowsOf
<1>6. ASSUME NEW f \in Entities, Registered(f) \/ f = e
      PROVE  Registered(f)'
  BY <1>1, <1>6 DEF IInv, TypeOK, DbTypeOK, Registered
<1>7. RowsBelongToRegistered'
  BY <1>1, <1>6 DEF IInv, RowsBelongToRegistered
<1>8. /\ (\A c \in Certs : ca[c] = "unissued" <=> holder[c] = NoEntity)'
      /\ (\A f \in operated : Registered(f))'
  BY <1>1, <1>6 DEF IInv, TypeOK, DbTypeOK
<1>9. QED BY <1>3, <1>4, <1>5, <1>7, <1>8 DEF IInv, TypeOK

\* Deletion takes all rows of the entity with their recorded revocations; a
\* request under way keeps its locals, whose certificates the CA still knows.
LEMMA DeleteIInv ==
    ASSUME IInv, NEW e \in Entities, Delete(e)
    PROVE  IInv'
<1>1. CertsStable
  BY DEF Delete, CertsStable
<1>2. WorkerTypeOK' /\ LocalsInv'
  BY <1>1, UntouchedSound DEF Delete
<1>3. DbTypeOK'
  BY DEF IInv, TypeOK, DbTypeOK, Delete
<1>4. NotedIsRevokedAtCA'
  BY DEF IInv, NotedIsRevokedAtCA, Delete
<1>5. HasCurrent'
  <2>1. SUFFICES ASSUME NEW f \in Entities, NEW c \in Certs, c \in RowsOf(f)'
                 PROVE  CurrentOf(f)' # {}
    BY DEF HasCurrent, RowsOf
  <2>2. holder[c] = f /\ f # e /\ c \in RowsOf(f)
    BY <2>1 DEF RowsOf, Delete
  <2>3. PICK d \in Certs : holder[d] = f /\ record[d] = "current"
    BY <2>2 DEF IInv, HasCurrent, CurrentOf, RowsOf
  <2>4. d \in CurrentOf(f)'
    BY <2>2, <2>3 DEF Delete, CurrentOf, RowsOf
  <2>5. QED BY <2>4
<1>6. RowsBelongToRegistered'
  BY DEF IInv, TypeOK, DbTypeOK, RowsBelongToRegistered, Registered, Delete
<1>7. /\ (\A c \in Certs : ca[c] = "unissued" <=> holder[c] = NoEntity)'
      /\ (\A f \in operated : Registered(f))'
  BY DEF IInv, TypeOK, DbTypeOK, Registered, Delete
<1>8. QED BY <1>2, <1>3, <1>4, <1>5, <1>6, <1>7 DEF IInv, TypeOK

\* Accepting a request reads the entity: it is registered.
LEMMA AcceptIInv ==
    ASSUME IInv, NEW w \in Workers, NEW e \in Entities,
           IssueRequest(w, e) \/ PutLoad(w, e) \/ AdminLoad(w, e)
    PROVE  IInv'
<1>1. UNCHANGED dbVars /\ CertsStable
  BY UntouchedDbStable DEF IssueRequest, PutLoad, AdminLoad
<1>2. status[e] \in Status \/ AdminLoad(w, e)
  BY DEF IInv, Registered, IssueRequest, PutLoad
<1>3. WorkerTypeOK'
  BY <1>2, FormAssumption
     DEF IInv, TypeOK, WorkerTypeOK, IssueRequest, PutLoad, AdminLoad, PC, Status
<1>4. ASSUME NEW v \in Workers PROVE LocalsSound(v)'
  <2>1. CASE v = w
    <3>1. rows[w] = {} /\ rows' = rows
      BY DEF IInv, LocalsInv, LocalsSound, IssueRequest, PutLoad, AdminLoad
    <3>2. pc'[w] \in {"requested", "loaded"} /\ ent'[w] = e
      BY DEF IInv, TypeOK, WorkerTypeOK, IssueRequest, PutLoad, AdminLoad
    <3>3. pc'[w] = "loaded" => new'[w] \in Status
      BY <1>2, FormAssumption
         DEF IInv, TypeOK, WorkerTypeOK, IssueRequest, PutLoad, AdminLoad, Status
    <3>4. QED BY <2>1, <3>1, <3>2, <3>3 DEF LocalsSound
  <2>2. CASE v # w
    <3>1. /\ pc'[v] = pc[v] /\ ent'[v] = ent[v] /\ new'[v] = new[v]
          /\ rows'[v] = rows[v] /\ cert'[v] = cert[v]
      BY <2>2 DEF IInv, TypeOK, WorkerTypeOK, IssueRequest, PutLoad, AdminLoad
    <3>2. QED BY <1>1, <3>1, StaysSound DEF IInv, TypeOK, LocalsInv
  <2>3. QED BY <2>1, <2>2
<1>5. QED BY <1>1, <1>3, <1>4, DbUntouched DEF LocalsInv

\* The second read of the entity changes nothing but the program counter.
LEMMA IssueCheckIInv ==
    ASSUME IInv, NEW w \in Workers, IssueCheck(w)
    PROVE  IInv'
<1>1. UNCHANGED dbVars /\ CertsStable
  BY UntouchedDbStable DEF IssueCheck
<1>2. CASE Finish(w)
  BY <1>1, <1>2, FinishSound, DbUntouched
<1>3. CASE ~Finish(w)
  <2>1. /\ pc[w] = "requested"
        /\ pc' = [pc EXCEPT ![w] = "eligible"]
        /\ UNCHANGED <<ent, new, old, rows, cert, admin>>
    BY <1>3 DEF IssueCheck
  <2>2. WorkerTypeOK'
    BY <2>1 DEF IInv, TypeOK, WorkerTypeOK, PC
  <2>3. LocalsSound(w)'
    BY <2>1 DEF IInv, TypeOK, WorkerTypeOK, LocalsInv, LocalsSound
  <2>4. LocalsInv'
    BY <1>1, <2>1, <2>3, StepSound DEF IInv, TypeOK, WorkerTypeOK
  <2>5. QED BY <1>1, <2>2, <2>4, DbUntouched
<1>4. QED BY <1>2, <1>3

\* The rows to supersede belong to the entity of the request, and the CA signed
\* each of them, because they have a holder.
LEMMA IssueSupersedeIInv ==
    ASSUME IInv, NEW w \in Workers, IssueSupersede(w)
    PROVE  IInv'
<1>1. UNCHANGED dbVars /\ CertsStable
  BY UntouchedDbStable DEF IssueSupersede
<1>2. /\ pc[w] = "eligible" /\ ent[w] \in Entities
      /\ pc' = [pc EXCEPT ![w] = "superseding"]
      /\ rows' = [rows EXCEPT ![w] = CurrentOf(ent[w])]
      /\ UNCHANGED <<ent, new, old, cert, admin>>
  BY DEF IssueSupersede, IInv, LocalsInv, LocalsSound
<1>3. \A c \in CurrentOf(ent[w]) : c \in Certs /\ holder[c] = ent[w] /\ ca[c] # "unissued"
  BY <1>2, SentinelAssumption DEF CurrentOf, RowsOf, IInv
<1>4. WorkerTypeOK'
  BY <1>2, <1>3 DEF IInv, TypeOK, WorkerTypeOK, PC
<1>5. LocalsSound(w)'
  BY <1>1, <1>2, <1>3 DEF IInv, TypeOK, WorkerTypeOK, LocalsSound, dbVars
<1>6. LocalsInv'
  BY <1>1, <1>2, <1>5, StepSound DEF IInv, TypeOK, WorkerTypeOK
<1>7. QED BY <1>1, <1>4, <1>6, DbUntouched

\* What committing an issuance does to the rows: the new row is current, rows of
\* other entities stay, and whatever was not a row is still none.
LEMMA IssueCommitIInv ==
    ASSUME IInv, NEW w \in Workers, IssueCommit(w)
    PROVE  IInv'
<1>1. PICK c \in Certs :
        /\ ca[c] = "unissued"
        /\ ca' = [ca EXCEPT ![c] = "valid"]
        /\ holder' = [holder EXCEPT ![c] = ent[w]]
        /\ record' = [d \in Certs |->
                        IF d = c THEN "current"
                        ELSE IF d \in rows[w] /\ record[d] # "none" THEN "superseded"
                        ELSE record[d]]
  BY DEF IssueCommit
<1>2. /\ ent[w] \in Entities /\ Registered(ent[w])
      /\ \A d \in rows[w] : holder[d] = ent[w] /\ d \in Certs
      /\ Finish(w) /\ UNCHANGED <<status, operated, noted>>
  BY DEF IssueCommit, IInv, TypeOK, WorkerTypeOK, LocalsInv, LocalsSound
<1>3. CertsStable
  BY <1>1 DEF CertsStable, IInv, TypeOK, DbTypeOK, Reasons
<1>4. WorkerTypeOK' /\ LocalsInv'
  BY <1>2, <1>3, FinishSound
<1>5. DbTypeOK'
  BY <1>1, <1>2 DEF IInv, TypeOK, DbTypeOK
<1>6. NotedIsRevokedAtCA'
  BY <1>1, <1>2 DEF IInv, TypeOK, DbTypeOK, NotedIsRevokedAtCA, Reasons
<1>7. holder[c] = NoEntity /\ record[c] = "none"
  BY <1>1, SentinelAssumption DEF IInv, RowsBelongToRegistered
<1>8. HasCurrent'
  <2>1. SUFFICES ASSUME NEW f \in Entities, NEW d \in Certs, d \in RowsOf(f)'
                 PROVE  CurrentOf(f)' # {}
    BY DEF HasCurrent, RowsOf
  <2>2. CASE f = ent[w]
    <3>1. c \in CurrentOf(f)'
      BY <1>1, <2>2 DEF IInv, TypeOK, DbTypeOK, CurrentOf, RowsOf
    <3>2. QED BY <3>1
  <2>3. CASE f # ent[w]
    <3>1. d # c /\ d \in RowsOf(f)
      BY <1>1, <2>1, <2>3 DEF IInv, TypeOK, DbTypeOK, RowsOf
    <3>2. PICK b \in Certs : holder[b] = f /\ record[b] = "current"
      BY <3>1 DEF IInv, HasCurrent, CurrentOf, RowsOf
    <3>3. b # c /\ b \notin rows[w]
      BY <1>2, <1>7, <2>3, <3>2
    <3>4. b \in CurrentOf(f)'
      BY <1>1, <3>2, <3>3 DEF IInv, TypeOK, DbTypeOK, CurrentOf, RowsOf
    <3>5. QED BY <3>4
  <2>4. QED BY <2>2, <2>3
<1>9. RowsBelongToRegistered'
  BY <1>1, <1>2 DEF IInv, TypeOK, DbTypeOK, RowsBelongToRegistered, Registered
<1>10. /\ (\A d \in Certs : ca[d] = "unissued" <=> holder[d] = NoEntity)'
       /\ (\A f \in operated : Registered(f))'
  BY <1>1, <1>2, SentinelAssumption DEF IInv, TypeOK, DbTypeOK, Registered
<1>11. QED BY <1>4, <1>5, <1>6, <1>8, <1>9, <1>10 DEF IInv, TypeOK

\* Steps that only end the request: a failed issuance, a finished revocation,
\* a killed worker.
LEMMA EndIInv ==
    ASSUME IInv, NEW w \in Workers, IssueFail(w) \/ RevokeDone(w) \/ Crash(w)
    PROVE  IInv'
<1>1. UNCHANGED dbVars /\ Finish(w) /\ CertsStable
  BY UntouchedDbStable DEF IssueFail, RevokeDone, Crash
<1>2. QED BY <1>1, FinishSound, DbUntouched

\* The pre_save handler only reads.
LEMMA PreSaveIInv ==
    ASSUME IInv, NEW w \in Workers, PreSave(w)
    PROVE  IInv'
<1>1. UNCHANGED dbVars /\ CertsStable
  BY UntouchedDbStable DEF PreSave
<1>2. WorkerTypeOK'
  BY DEF PreSave, IInv, TypeOK, WorkerTypeOK, Registered, PC
<1>3. LocalsSound(w)'
  BY DEF PreSave, IInv, TypeOK, WorkerTypeOK, LocalsInv, LocalsSound
<1>4. LocalsInv'
  BY <1>1, <1>3, StepSound DEF PreSave, IInv, TypeOK, WorkerTypeOK
<1>5. QED BY <1>1, <1>2, <1>4, DbUntouched

\* The save writes a status that some form or some earlier read produced; an
\* entity may reappear, none disappears.
LEMMA SaveRowIInv ==
    ASSUME IInv, NEW w \in Workers, SaveRow(w)
    PROVE  IInv'
<1>1. /\ ent[w] \in Entities /\ new[w] \in Status
      /\ status' = [status EXCEPT ![ent[w]] = new[w]]
      /\ operated' \subseteq operated \cup {ent[w]}
      /\ UNCHANGED <<record, holder, noted, ca>>
  BY DEF SaveRow, IInv, LocalsInv, LocalsSound
<1>2. CertsStable
  BY <1>1 DEF CertsStable
<1>3. WorkerTypeOK' /\ LocalsInv'
  <2>1. CASE Finish(w)
    BY <1>2, <2>1, FinishSound
  <2>2. CASE ~Finish(w)
    <3>1. /\ pc[w] = "snapshot"
          /\ pc' = [pc EXCEPT ![w] = "committed"]
          /\ UNCHANGED <<ent, new, old, rows, cert, admin>>
      BY <2>2 DEF SaveRow
    <3>2. WorkerTypeOK'
      BY <3>1 DEF IInv, TypeOK, WorkerTypeOK, PC
    <3>3. LocalsSound(w)'
      BY <3>1 DEF IInv, TypeOK, WorkerTypeOK, LocalsInv, LocalsSound
    <3>4. QED BY <1>2, <3>1, <3>2, <3>3, StepSound DEF IInv, TypeOK, WorkerTypeOK
  <2>3. QED BY <2>1, <2>2
<1>4. DbTypeOK'
  BY <1>1 DEF IInv, TypeOK, DbTypeOK
<1>5. NotedIsRevokedAtCA' /\ HasCurrent'
  BY <1>1 DEF IInv, NotedIsRevokedAtCA, HasCurrent, CurrentOf, RowsOf
<1>6. ASSUME NEW f \in Entities, Registered(f) \/ f = ent[w]
      PROVE  Registered(f)'
  BY <1>1, <1>6 DEF IInv, TypeOK, DbTypeOK, Registered
<1>7. RowsBelongToRegistered'
  BY <1>1, <1>6 DEF IInv, RowsBelongToRegistered
<1>8. /\ (\A c \in Certs : ca[c] = "unissued" <=> holder[c] = NoEntity)'
      /\ (\A f \in operated : Registered(f))'
  BY <1>1, <1>6 DEF IInv, TypeOK, DbTypeOK
<1>9. QED BY <1>3, <1>4, <1>5, <1>7, <1>8 DEF IInv, TypeOK

\* The rows to revoke belong to the entity, so the CA knows them.
LEMMA RevokeSelectIInv ==
    ASSUME IInv, NEW w \in Workers, RevokeSelect(w)
    PROVE  IInv'
<1>1. UNCHANGED dbVars /\ CertsStable
  BY UntouchedDbStable DEF RevokeSelect
<1>2. CASE Finish(w)
  BY <1>1, <1>2, FinishSound, DbUntouched
<1>3. CASE ~Finish(w)
  <2>1. /\ pc[w] = "committed" /\ ent[w] \in Entities /\ new[w] \in Status
        /\ pc' = [pc EXCEPT ![w] = "revoking"]
        /\ rows' = [rows EXCEPT ![w] = RevocableOf(ent[w])]
        /\ UNCHANGED <<ent, new, old, cert, admin>>
    BY <1>3 DEF RevokeSelect, IInv, LocalsInv, LocalsSound
  <2>2. \A c \in RevocableOf(ent[w]) :
           c \in Certs /\ holder[c] = ent[w] /\ ca[c] # "unissued"
    BY <2>1, SentinelAssumption DEF RevocableOf, CurrentOf, RowsOf, IInv
  <2>3. WorkerTypeOK'
    BY <2>1, <2>2 DEF IInv, TypeOK, WorkerTypeOK, PC
  <2>4. LocalsSound(w)'
    BY <1>1, <2>1, <2>2 DEF IInv, TypeOK, WorkerTypeOK, LocalsSound, dbVars
  <2>5. LocalsInv'
    BY <1>1, <2>1, <2>4, StepSound DEF IInv, TypeOK, WorkerTypeOK
  <2>6. QED BY <1>1, <2>3, <2>5, DbUntouched
<1>4. QED BY <1>2, <1>3

\* A revocation at the CA replaces "valid", or another reason, by a reason.
LEMMA RevokeAtCAIInv ==
    ASSUME IInv, NEW w \in Workers, NEW c \in Certs, RevokeAtCA(w, c)
    PROVE  IInv'
<1>1. /\ UNCHANGED <<status, operated, record, holder, noted>>
      /\ ca' = [ca EXCEPT ![c] = Reason(new[w])]
      /\ Reason(new[w]) \in Reasons
      /\ c \in rows[w] /\ ca[c] # "unissued"
  BY DEF RevokeAtCA, Reason, Reasons, IInv, LocalsInv, LocalsSound
<1>2. CertsStable
  BY <1>1 DEF CertsStable, IInv, TypeOK, DbTypeOK, Reasons
<1>3. WorkerTypeOK'
  BY DEF RevokeAtCA, IInv, TypeOK, WorkerTypeOK, PC
<1>4. LocalsSound(w)'
  <2>1. rows[w] \subseteq Certs
    BY DEF IInv, TypeOK, WorkerTypeOK
  <2>2. QED BY <1>1, <1>2, <2>1
            DEF RevokeAtCA, IInv, TypeOK, DbTypeOK, WorkerTypeOK, LocalsInv, LocalsSound,
                CertsStable
<1>5. LocalsInv'
  BY <1>2, <1>4, StepSound DEF RevokeAtCA, IInv, TypeOK, WorkerTypeOK
<1>6. DbTypeOK'
  BY <1>1 DEF IInv, TypeOK, DbTypeOK
<1>7. /\ NotedIsRevokedAtCA' /\ HasCurrent' /\ RowsBelongToRegistered'
      /\ (\A d \in Certs : ca[d] = "unissued" <=> holder[d] = NoEntity)'
      /\ (\A f \in operated : Registered(f))'
  BY <1>1 DEF IInv, TypeOK, DbTypeOK, NotedIsRevokedAtCA, HasCurrent, CurrentOf, RowsOf,
              RowsBelongToRegistered, Registered, Reasons
<1>8. QED BY <1>3, <1>5, <1>6, <1>7 DEF IInv, TypeOK

\* A refusal only takes a row from the list.
LEMMA RevokeRefusedIInv ==
    ASSUME IInv, NEW w \in Workers, NEW c \in Certs, RevokeRefused(w, c)
    PROVE  IInv'
<1>1. UNCHANGED dbVars /\ CertsStable
  BY UntouchedDbStable DEF RevokeRefused
<1>2. WorkerTypeOK'
  BY DEF RevokeRefused, IInv, TypeOK, WorkerTypeOK
<1>3. LocalsSound(w)'
  BY <1>1 DEF RevokeRefused, IInv, TypeOK, WorkerTypeOK, LocalsInv, LocalsSound, dbVars
<1>4. LocalsInv'
  BY <1>1, <1>3, StepSound DEF RevokeRefused, IInv, TypeOK, WorkerTypeOK
<1>5. QED BY <1>1, <1>2, <1>4, DbUntouched

\* The local row is marked after the CA has revoked the certificate: this is
\* what LocalsInv says of the certificate the worker remembers.
LEMMA NoteRevocationIInv ==
    ASSUME IInv, NEW w \in Workers, NoteRevocation(w)
    PROVE  IInv'
<1>1. /\ UNCHANGED <<status, operated, record, holder, ca>>
      /\ pc[w] = "caRevoked" /\ cert[w] \in Certs /\ ca[cert[w]] \in Reasons
      /\ ent[w] \in Entities /\ new[w] \in Status
  BY DEF NoteRevocation, IInv, LocalsInv, LocalsSound
<1>2. noted' = noted \/ noted' = [noted EXCEPT ![cert[w]] = Reason(new[w])]
  BY DEF NoteRevocation
<1>3. CertsStable
  BY <1>1 DEF CertsStable
<1>4. WorkerTypeOK' /\ LocalsInv'
  <2>1. CASE Finish(w)
    BY <1>3, <2>1, FinishSound
  <2>2. CASE ~Finish(w)
    <3>1. /\ pc' = [pc EXCEPT ![w] = "revoking"]
          /\ cert' = [cert EXCEPT ![w] = NoCert]
          /\ UNCHANGED <<ent, new, old, rows, admin>>
      BY <2>2 DEF NoteRevocation
    <3>2. WorkerTypeOK'
      BY <3>1 DEF IInv, TypeOK, WorkerTypeOK, PC
    <3>3. LocalsSound(w)'
      BY <1>1, <3>1 DEF IInv, TypeOK, WorkerTypeOK, LocalsInv, LocalsSound
    <3>4. QED BY <1>3, <3>1, <3>2, <3>3, StepSound DEF IInv, TypeOK, WorkerTypeOK
  <2>3. QED BY <2>1, <2>2
<1>5. DbTypeOK' /\ NotedIsRevokedAtCA'
  BY <1>1, <1>2 DEF IInv, TypeOK, DbTypeOK, NotedIsRevokedAtCA, Reason, Reasons
<1>6. /\ HasCurrent' /\ RowsBelongToRegistered'
      /\ (\A d \in Certs : ca[d] = "unissued" <=> holder[d] = NoEntity)'
      /\ (\A f \in operated : Registered(f))'
  BY <1>1 DEF IInv, HasCurrent, CurrentOf, RowsOf, RowsBelongToRegistered, Registered
<1>7. QED BY <1>4, <1>5, <1>6 DEF IInv, TypeOK

-----------------------------------------------------------------------------
(***************************************************************************)
(* The invariants                                                          *)
(***************************************************************************)

\* IInv is inductive.
LEMMA NextIInv ==
    ASSUME IInv, [Next]_vars
    PROVE  IInv'
<1>1. CASE UNCHANGED vars
  <2>1. UNCHANGED dbVars /\ UNCHANGED workerVars /\ CertsStable
    BY <1>1, UntouchedDbStable DEF vars
  <2>2. QED BY <2>1, UntouchedSound, DbUntouched
<1>2. ASSUME NEW e \in Entities, Register(e) \/ AdminRegister(e) PROVE IInv'
  BY <1>2, RegisterIInv
<1>3. ASSUME NEW e \in Entities, Delete(e) PROVE IInv'
  BY <1>3, DeleteIInv
<1>4. ASSUME NEW w \in Workers, NEW e \in Entities,
             IssueRequest(w, e) \/ PutLoad(w, e) \/ AdminLoad(w, e)
      PROVE  IInv'
  BY <1>4, AcceptIInv
<1>5. ASSUME NEW w \in Workers, Advance(w) \/ Crash(w) PROVE IInv'
  BY <1>5, IssueCheckIInv, IssueSupersedeIInv, IssueCommitIInv, EndIInv, PreSaveIInv,
     SaveRowIInv, RevokeSelectIInv, RevokeAtCAIInv, RevokeRefusedIInv, NoteRevocationIInv
     DEF Advance
<1>6. QED BY <1>1, <1>2, <1>3, <1>4, <1>5 DEF Next

\* In every reachable state, for any number of workers, IInv holds.
THEOREM IInvAlways == Spec => []IInv
<1>1. Init => IInv
  BY InitIInv
<1>2. IInv /\ [Next]_vars => IInv'
  BY NextIInv
<1>3. QED BY <1>1, <1>2, PTL DEF Spec

\* The database and the locals of all requests keep their types.
THEOREM TypeOKAlways == Spec => []TypeOK
<1>1. IInv => TypeOK
  BY DEF IInv
<1>2. QED BY <1>1, IInvAlways, PTL

\* A revocation recorded in the registry has happened at the CA.
THEOREM NotedIsRevokedAtCAAlways == Spec => []NotedIsRevokedAtCA
<1>1. IInv => NotedIsRevokedAtCA
  BY DEF IInv
<1>2. QED BY <1>1, IInvAlways, PTL

\* An entity with certificates has a current one.
THEOREM HasCurrentAlways == Spec => []HasCurrent
<1>1. IInv => HasCurrent
  BY DEF IInv
<1>2. QED BY <1>1, IInvAlways, PTL

\* No row survives its entity, and none is created for a deleted one.
THEOREM RowsBelongToRegisteredAlways == Spec => []RowsBelongToRegistered
<1>1. IInv => RowsBelongToRegistered
  BY DEF IInv
<1>2. QED BY <1>1, IInvAlways, PTL

-----------------------------------------------------------------------------
(***************************************************************************)
(* AccessCertificates implements CertificateLedger                         *)
(***************************************************************************)

\* Steps that leave the ledger's variables alone are stutters.
LEMMA StutterLedger ==
    ASSUME UNCHANGED <<record, holder, noted, ca>>
    PROVE  [Ledger!Next]_(Ledger!ledgerVars)
BY DEF Ledger!ledgerVars

\* Committing an issuance is the ledger's Issue: the rows it supersedes are those
\* of the request that are still current, and they belong to the same entity.
LEMMA IssueLedger ==
    ASSUME IInv, NEW w \in Workers, IssueCommit(w)
    PROVE  Ledger!Next
<1>1. PICK c \in Certs :
        /\ ca[c] = "unissued"
        /\ ca' = [ca EXCEPT ![c] = "valid"]
        /\ holder' = [holder EXCEPT ![c] = ent[w]]
        /\ record' = [d \in Certs |->
                        IF d = c THEN "current"
                        ELSE IF d \in rows[w] /\ record[d] # "none" THEN "superseded"
                        ELSE record[d]]
  BY DEF IssueCommit
<1> DEFINE replaced == {d \in rows[w] : record[d] = "current"}
<1>2. ent[w] \in Entities /\ noted' = noted
  BY DEF IssueCommit, IInv, LocalsInv, LocalsSound
<1>3. replaced \subseteq Ledger!CurrentRows(ent[w])
  BY DEF IInv, TypeOK, WorkerTypeOK, LocalsInv, LocalsSound, Ledger!CurrentRows
<1>4. record' = [d \in Certs |-> IF d = c THEN "current"
                                 ELSE IF d \in replaced THEN "superseded"
                                 ELSE record[d]]
  BY <1>1 DEF IInv, TypeOK, DbTypeOK
<1>5. Ledger!Issue(c, ent[w], replaced)
  BY <1>1, <1>2, <1>3, <1>4 DEF Ledger!Issue
<1>6. QED BY <1>2, <1>3, <1>5 DEF Ledger!Next

\* Revoking at the CA, noting it and deleting an entity are the ledger's Revoke,
\* Note and Remove.
LEMMA RevokeLedger ==
    ASSUME IInv, NEW w \in Workers, NEW c \in Certs, RevokeAtCA(w, c)
    PROVE  Ledger!Next
<1>1. Reason(new[w]) \in Ledger!Reasons /\ ca[c] # "unissued"
  BY DEF RevokeAtCA, Reason, Ledger!Reasons, IInv, LocalsInv, LocalsSound
<1>2. Ledger!Revoke(c, Reason(new[w]))
  BY <1>1 DEF RevokeAtCA, Ledger!Revoke
<1>3. QED BY <1>1, <1>2 DEF Ledger!Next

LEMMA NoteLedger ==
    ASSUME IInv, NEW w \in Workers, NoteRevocation(w)
    PROVE  [Ledger!Next]_(Ledger!ledgerVars)
<1>1. CASE noted' = noted
  BY <1>1, StutterLedger DEF NoteRevocation
<1>2. CASE noted' # noted
  <2>1. /\ cert[w] \in Certs /\ ca[cert[w]] \in Ledger!Reasons
        /\ Reason(new[w]) \in Ledger!Reasons
    BY DEF NoteRevocation, Reason, Reasons, Ledger!Reasons, IInv, LocalsInv, LocalsSound
  <2>2. Ledger!Note(cert[w], Reason(new[w]))
    BY <1>2, <2>1 DEF NoteRevocation, Ledger!Note
  <2>3. QED BY <2>1, <2>2 DEF Ledger!Next
<1>3. QED BY <1>1, <1>2

LEMMA RemoveLedger ==
    ASSUME NEW e \in Entities, Delete(e)
    PROVE  Ledger!Next
<1>1. Ledger!Remove(e)
  BY DEF Delete, Ledger!Remove
<1>2. QED BY <1>1 DEF Ledger!Next

\* Every step is a step of the ledger or leaves it alone.
LEMMA NextLedger ==
    ASSUME IInv, [Next]_vars
    PROVE  [Ledger!Next]_(Ledger!ledgerVars)
<1>1. CASE UNCHANGED vars
  BY <1>1, StutterLedger DEF vars, dbVars
<1>2. ASSUME NEW e \in Entities, Register(e) \/ AdminRegister(e)
      PROVE  [Ledger!Next]_(Ledger!ledgerVars)
  BY <1>2, StutterLedger DEF Register, AdminRegister
<1>3. ASSUME NEW e \in Entities, Delete(e) PROVE [Ledger!Next]_(Ledger!ledgerVars)
  BY <1>3, RemoveLedger
<1>4. ASSUME NEW w \in Workers, NEW e \in Entities,
             IssueRequest(w, e) \/ PutLoad(w, e) \/ AdminLoad(w, e)
      PROVE  [Ledger!Next]_(Ledger!ledgerVars)
  BY <1>4, StutterLedger DEF IssueRequest, PutLoad, AdminLoad, dbVars
<1>5. ASSUME NEW w \in Workers, Advance(w)
      PROVE  [Ledger!Next]_(Ledger!ledgerVars)
  <2>1. CASE IssueCommit(w)
    BY <2>1, IssueLedger
  <2>2. CASE NoteRevocation(w)
    BY <2>2, NoteLedger
  <2>3. CASE \E c \in Certs : RevokeAtCA(w, c)
    BY <2>3, RevokeLedger
  <2>4. CASE \/ IssueCheck(w) \/ IssueSupersede(w) \/ IssueFail(w) \/ PreSave(w)
             \/ SaveRow(w) \/ RevokeSelect(w) \/ RevokeDone(w)
             \/ \E c \in Certs : RevokeRefused(w, c)
    BY <2>4, StutterLedger
       DEF IssueCheck, IssueSupersede, IssueFail, PreSave, SaveRow, RevokeSelect, RevokeDone,
           RevokeRefused, dbVars
  <2>5. QED BY <1>5, <2>1, <2>2, <2>3, <2>4 DEF Advance
<1>6. ASSUME NEW w \in Workers, Crash(w) PROVE [Ledger!Next]_(Ledger!ledgerVars)
  BY <1>6, StutterLedger DEF Crash, dbVars
<1>7. QED BY <1>1, <1>2, <1>3, <1>4, <1>5, <1>6 DEF Next

\* The registry keeps what CertificateLedger promises: rows are superseded only by
\* the issuance that replaces them, recorded revocations follow the CA, and no
\* certificate becomes valid again.
THEOREM ImplementsLedger == Spec => LedgerSpec
<1>1. Init => Ledger!Init
  BY DEF Init, Ledger!Init
<1>2. IInv /\ [Next]_vars => [Ledger!Next]_(Ledger!ledgerVars)
  BY NextLedger
<1>3. QED BY <1>1, <1>2, IInvAlways, PTL DEF Spec, LedgerSpec, Ledger!Spec
=============================================================================
