------------------------- MODULE AccessSerial_proofs -------------------------
(***************************************************************************)
(* Proofs about AccessCertificates when requests are served one at a time, *)
(* the CA refuses nothing and no request is cut off: what the sequential   *)
(* reading of the code achieves, for any sets of entities and              *)
(* certificates. SerialInv says that every certificate that should not be  *)
(* valid any more is on the list of the request under way; between two     *)
(* requests there is no such list, hence no such certificate.              *)
(***************************************************************************)
EXTENDS AccessCertificates_proofs, FiniteSetTheorems

\* One worker, no refusal, no crash.
OneAtATime == ~CAFailures /\ ~Crashes /\ \E w \in Workers : Workers = {w}

\* The parts of SerialInv that a step has to preserve once IInv is known to be.
SuspensionOwed ==
    \A c \in Certs :
        record[c] = "current" /\ ca[c] = "valid" /\ status[holder[c]] \in RevocationStatus =>
            RevocationOwed(c)
UniqueCurrent ==
    \A c, d \in Certs :
        record[c] = "current" /\ record[d] = "current" /\ holder[c] = holder[d] => c = d

\* Nothing is wrong before the first registration.
LEMMA InitSerial == Init => SerialInv
<1>1. Init => IInv
  BY InitIInv
<1>2. Init => SerialInv
  BY <1>1 DEF Init, SerialInv, SerialLocals, ReasonInSync
<1>3. QED BY <1>2

-----------------------------------------------------------------------------
(***************************************************************************)
(* One lemma per action                                                    *)
(***************************************************************************)

\* A worker that finishes has nothing left to be right about.
LEMMA FinishedLocals ==
    ASSUME IInv, NEW w \in Workers, Workers = {w}, Finish(w)
    PROVE  \A v \in Workers : SerialLocals(v)'
BY DEF Finish, SerialLocals, IInv, TypeOK, WorkerTypeOK

\* A new entity has no certificates and no request is about it.
LEMMA RegisterSerial ==
    ASSUME OneAtATime, SerialInv, IInv', NEW e \in Entities, Register(e) \/ AdminRegister(e)
    PROVE  SerialInv'
<1>1. /\ UNCHANGED <<record, holder, noted, ca, workerVars>>
      /\ status[e] = "unregistered"
      /\ \A f \in Entities : f # e => status'[f] = status[f]
  BY DEF Register, AdminRegister, IInv, SerialInv, TypeOK, DbTypeOK
<1>2. ASSUME NEW w \in Workers PROVE SerialLocals(w)'
  <2>1. SerialLocals(w)
    BY DEF SerialInv
  <2>2. pc[w] # "idle" => ent[w] \in Entities /\ ent[w] # e
    BY <1>1, <2>1 DEF SerialLocals, SerialInv, IInv, LocalsInv, LocalsSound
  <2>3. QED BY <1>1, <2>1, <2>2
            DEF SerialLocals, workerVars, Registered, CurrentOf, RowsOf, Status
<1>3. SuspensionOwed'
  <2>1. \A c \in Certs : record[c] # "none" => holder[c] \in Entities /\ holder[c] # e
    BY <1>1 DEF SerialInv, IInv, RowsBelongToRegistered, Registered, Status
  <2>2. QED BY <1>1, <2>1
            DEF SerialInv, SuspensionOwed, RevocationOwed, RevocationStatus, workerVars
<1>4. UniqueCurrent' /\ ReasonInSync'
  BY <1>1 DEF SerialInv, UniqueCurrent, ReasonInSync
<1>5. QED BY <1>2, <1>3, <1>4 DEF SerialInv, SuspensionOwed, UniqueCurrent

\* Deleting an entity takes its rows; what a request still has to do for it is
\* vacuous from then on.
LEMMA DeleteSerial ==
    ASSUME OneAtATime, SerialInv, IInv', NEW e \in Entities, Delete(e)
    PROVE  SerialInv'
<1>1. /\ UNCHANGED <<holder, ca, workerVars>>
      /\ status'[e] = "deleted" /\ status[e] \in Status
      /\ \A f \in Entities : f # e => status'[f] = status[f]
      /\ \A c \in Certs : holder[c] = e => record'[c] = "none" /\ noted'[c] = "unset"
      /\ \A c \in Certs : holder[c] # e => record'[c] = record[c] /\ noted'[c] = noted[c]
  BY DEF Delete, SerialInv, IInv, TypeOK, DbTypeOK, Registered
<1>2. ASSUME NEW w \in Workers PROVE SerialLocals(w)'
  <2>1. /\ SerialLocals(w)
        /\ pc[w] # "idle" => ent[w] \in Entities
        /\ rows[w] \subseteq Certs
        /\ \A c \in rows[w] : holder[c] = ent[w]
    BY DEF SerialInv, IInv, LocalsInv, LocalsSound, TypeOK, WorkerTypeOK
  <2>2. pc[w] = "superseding" => rows[w] = CurrentOf(ent[w])'
    <3>1. SUFFICES ASSUME pc[w] = "superseding" PROVE rows[w] = CurrentOf(ent[w])'
      OBVIOUS
    <3>2. rows[w] = CurrentOf(ent[w])
      BY <2>1, <3>1 DEF SerialLocals
    <3>3. CASE ent[w] # e
      BY <1>1, <3>2, <3>3 DEF CurrentOf, RowsOf, workerVars
    <3>4. CASE ent[w] = e
      <4>1. rows[w] = {}
        BY <3>1, <3>2, <3>4 DEF Delete, Locked, CurrentOf, RowsOf
      <4>2. CurrentOf(ent[w])' = {}
        BY <1>1, <3>4 DEF CurrentOf, RowsOf, workerVars
      <4>3. QED BY <4>1, <4>2
    <3>5. QED BY <3>3, <3>4
  <2>3. pc[w] = "caRevoked" =>
          (record'[cert[w]] = "none" => status'[ent[w]] = "deleted")
    <3>1. pc[w] = "caRevoked" => cert[w] \in Certs /\ holder[cert[w]] = ent[w]
      BY DEF SerialInv, SerialLocals, IInv, LocalsInv, LocalsSound
    <3>2. QED BY <1>1, <2>1, <3>1 DEF SerialLocals
  <2>4. /\ pc[w] # "idle" => status'[ent[w]] # "unregistered"
        /\ pc[w] \in {"requested", "eligible", "superseding"} =>
              status'[ent[w]] \in {"active", "deleted"}
        /\ pc[w] = "snapshot" /\ Registered(ent[w])' => old[w] = status'[ent[w]]
    BY <1>1, <2>1 DEF SerialLocals, Registered, Status, workerVars
  <2>5. pc[w] \in {"revoking", "caRevoked"} =>
          \A c \in rows[w] :
              noted'[c] = "unset" /\ (record'[c] = "none" => status'[ent[w]] = "deleted")
    BY <1>1, <2>1 DEF SerialLocals
  <2>6. QED BY <1>1, <2>1, <2>2, <2>3, <2>4, <2>5 DEF SerialLocals, workerVars, Reason
<1>3. SuspensionOwed'
  <2>1. \A c \in Certs : record[c] # "none" => holder[c] \in Entities
    BY DEF SerialInv, IInv, RowsBelongToRegistered
  <2>2. ASSUME NEW c \in Certs, record'[c] = "current", ca'[c] = "valid",
               status'[holder'[c]] \in RevocationStatus
        PROVE  RevocationOwed(c)'
    <3>1. holder[c] # e /\ record[c] = "current" /\ status'[holder[c]] = status[holder[c]]
      BY <1>1, <2>1, <2>2
    <3>2. RevocationOwed(c)
      BY <1>1, <2>2, <3>1 DEF SerialInv
    <3>3. QED BY <1>1, <3>2 DEF RevocationOwed, workerVars
  <2>3. QED BY <2>2 DEF SuspensionOwed
<1>4. UniqueCurrent' /\ ReasonInSync'
  BY <1>1 DEF SerialInv, UniqueCurrent, ReasonInSync
<1>5. QED BY <1>2, <1>3, <1>4 DEF SerialInv, SuspensionOwed, UniqueCurrent

\* Accepting a request: nothing was owed, because no request was under way.
LEMMA AcceptSerial ==
    ASSUME OneAtATime, SerialInv, IInv', NEW w \in Workers, NEW e \in Entities,
           IssueRequest(w, e) \/ PutLoad(w, e) \/ AdminLoad(w, e)
    PROVE  SerialInv'
<1>1. Workers = {w}
  BY DEF OneAtATime
<1>2. /\ UNCHANGED dbVars
      /\ pc[w] = "idle" /\ pc'[w] \in {"requested", "loaded"} /\ ent'[w] = e
      /\ pc'[w] = "requested" => status[e] = "active"
      /\ status[e] \in Status
  BY DEF IssueRequest, PutLoad, AdminLoad, SerialInv, IInv, TypeOK, WorkerTypeOK, Registered
<1>3. ASSUME NEW v \in Workers PROVE SerialLocals(v)'
  BY <1>1, <1>2 DEF SerialLocals, dbVars, Status
<1>4. SuspensionOwed'
  BY <1>1, <1>2 DEF SerialInv, SuspensionOwed, RevocationOwed, dbVars
<1>5. UniqueCurrent' /\ ReasonInSync'
  BY <1>2 DEF SerialInv, UniqueCurrent, ReasonInSync, dbVars
<1>6. QED BY <1>3, <1>4, <1>5 DEF SerialInv, SuspensionOwed, UniqueCurrent

\* Reads, and the end of a request that owes nothing.
LEMMA ReadSerial ==
    ASSUME OneAtATime, SerialInv, IInv', NEW w \in Workers,
           \/ IssueCheck(w) \/ IssueSupersede(w) \/ IssueFail(w) \/ PreSave(w) \/ RevokeDone(w)
    PROVE  SerialInv'
<1>1. Workers = {w}
  BY DEF OneAtATime
<1>2. UNCHANGED dbVars
  BY DEF IssueCheck, IssueSupersede, IssueFail, PreSave, RevokeDone
<1>3. ASSUME NEW v \in Workers PROVE SerialLocals(v)'
  <2>1. CASE Finish(w)
    BY <1>1, <2>1, FinishedLocals DEF SerialInv
  <2>2. CASE ~Finish(w)
    <3>1. /\ v = w /\ SerialLocals(w)
          /\ pc'[w] = "eligible" => pc[w] = "requested" /\ ent'[w] = ent[w]
          /\ pc'[w] = "superseding" =>
                pc[w] = "eligible" /\ ent'[w] = ent[w] /\ rows'[w] = CurrentOf(ent[w])
          /\ pc'[w] = "snapshot" =>
                /\ pc[w] = "loaded" /\ ent'[w] = ent[w]
                /\ Registered(ent[w]) => old'[w] = status[ent[w]]
          /\ pc'[w] \in {"eligible", "superseding", "snapshot"}
      BY <1>1, <2>2
         DEF IssueCheck, IssueSupersede, IssueFail, PreSave, RevokeDone, SerialInv, IInv,
             TypeOK, WorkerTypeOK
    <3>2. QED BY <1>2, <3>1 DEF SerialLocals, dbVars, Registered, CurrentOf, RowsOf
  <2>3. QED BY <2>1, <2>2
<1>4. SuspensionOwed'
  BY <1>1, <1>2
     DEF SerialInv, SuspensionOwed, RevocationOwed, dbVars, IssueCheck, IssueSupersede,
         IssueFail, PreSave, RevokeDone
<1>5. UniqueCurrent' /\ ReasonInSync'
  BY <1>2 DEF SerialInv, UniqueCurrent, ReasonInSync, dbVars
<1>6. QED BY <1>3, <1>4, <1>5 DEF SerialInv, SuspensionOwed, UniqueCurrent

\* The entity of a committing issuance is still active, and every row that was
\* current is superseded.
LEMMA IssueCommitSerial ==
    ASSUME OneAtATime, SerialInv, IInv', NEW w \in Workers, IssueCommit(w)
    PROVE  SerialInv'
<1>1. Workers = {w}
  BY DEF OneAtATime
<1>2. PICK c \in Certs :
        /\ ca[c] = "unissued"
        /\ ca' = [ca EXCEPT ![c] = "valid"]
        /\ holder' = [holder EXCEPT ![c] = ent[w]]
        /\ record' = [d \in Certs |->
                        IF d = c THEN "current"
                        ELSE IF d \in rows[w] /\ record[d] # "none" THEN "superseded"
                        ELSE record[d]]
  BY DEF IssueCommit
<1>3. /\ pc[w] = "superseding" /\ Finish(w) /\ UNCHANGED <<status, operated, noted>>
      /\ status[ent[w]] = "active" /\ rows[w] = CurrentOf(ent[w])
  BY DEF IssueCommit, SerialInv, SerialLocals, Registered, Status
<1>4. ASSUME NEW v \in Workers PROVE SerialLocals(v)'
  BY <1>1, <1>3, FinishedLocals DEF SerialInv
<1>5. noted[c] = "unset"
  BY <1>2 DEF SerialInv, IInv, NotedIsRevokedAtCA, Reasons
<1>6. \A d \in Certs : d # c => holder'[d] = holder[d] /\ ca'[d] = ca[d]
  BY <1>2 DEF SerialInv, IInv, TypeOK, DbTypeOK
<1>7. holder'[c] = ent[w]
  BY <1>2 DEF SerialInv, IInv, TypeOK, DbTypeOK
<1>8. \A d \in Certs : d # c /\ record'[d] = "current" =>
                         record[d] = "current" /\ holder[d] # ent[w]
  BY <1>2, <1>3 DEF CurrentOf, RowsOf
<1>9. SuspensionOwed'
  BY <1>1, <1>3, <1>6, <1>7, <1>8
     DEF SerialInv, SuspensionOwed, RevocationOwed, RevocationStatus
<1>10. UniqueCurrent'
  BY <1>6, <1>7, <1>8 DEF SerialInv, UniqueCurrent
<1>11. ReasonInSync'
  BY <1>3, <1>5, <1>6 DEF SerialInv, ReasonInSync
<1>12. QED BY <1>4, <1>9, <1>10, <1>11 DEF SerialInv, SuspensionOwed, UniqueCurrent

\* A save that suspends an entity owes the revocation of all its certificates;
\* one that finds it suspended already owes nothing new.
LEMMA SaveRowSerial ==
    ASSUME OneAtATime, SerialInv, IInv', NEW w \in Workers, SaveRow(w)
    PROVE  SerialInv'
<1>1. Workers = {w}
  BY DEF OneAtATime
<1>2. /\ pc[w] = "snapshot" /\ ent[w] \in Entities /\ new[w] \in Status
      /\ status' = [status EXCEPT ![ent[w]] = new[w]]
      /\ UNCHANGED <<record, holder, noted, ca>>
      /\ Registered(ent[w]) => old[w] = status[ent[w]]
  BY DEF SaveRow, SerialInv, SerialLocals, IInv, LocalsInv, LocalsSound
<1>3. /\ status'[ent[w]] = new[w]
      /\ \A f \in Entities : f # ent[w] => status'[f] = status[f]
  BY <1>2 DEF SerialInv, IInv, TypeOK, DbTypeOK
<1>4. \A c \in Certs : record[c] # "none" => holder[c] \in Entities /\ Registered(holder[c])
  BY DEF SerialInv, IInv, RowsBelongToRegistered
<1>5. UniqueCurrent' /\ ReasonInSync'
  BY <1>2 DEF SerialInv, UniqueCurrent, ReasonInSync
<1>6. CASE RevocationDue(w)
  <2>1. pc'[w] = "committed" /\ ent' = ent
    BY <1>2, <1>6 DEF SaveRow, SerialInv, IInv, TypeOK, WorkerTypeOK
  <2>2. ASSUME NEW v \in Workers PROVE SerialLocals(v)'
    BY <1>1, <1>2, <1>3, <2>1 DEF SerialLocals, Status
  <2>3. SuspensionOwed'
    BY <1>1, <1>2, <1>3, <1>4, <2>1 DEF SerialInv, SuspensionOwed, RevocationOwed
  <2>4. QED BY <1>5, <2>2, <2>3 DEF SerialInv, SuspensionOwed, UniqueCurrent
<1>7. CASE ~RevocationDue(w)
  <2>1. Finish(w)
    BY <1>7 DEF SaveRow
  <2>2. ASSUME NEW v \in Workers PROVE SerialLocals(v)'
    BY <1>1, <2>1, FinishedLocals DEF SerialInv
  <2>3. \A c \in Certs : ~RevocationOwed(c)
    BY <1>1, <1>2 DEF RevocationOwed
  <2>4. SuspensionOwed'
    BY <1>2, <1>3, <1>4, <1>7, <2>3 DEF SerialInv, SuspensionOwed, RevocationDue
  <2>5. QED BY <1>5, <2>2, <2>4 DEF SerialInv, SuspensionOwed, UniqueCurrent
<1>8. QED BY <1>6, <1>7

\* The callback selects every current certificate that is still valid: those it
\* leaves out are noted as revoked, and the CA has revoked them.
LEMMA RevokeSelectSerial ==
    ASSUME OneAtATime, SerialInv, IInv', NEW w \in Workers, RevokeSelect(w)
    PROVE  SerialInv'
<1>1. Workers = {w}
  BY DEF OneAtATime
<1>2. UNCHANGED dbVars /\ pc[w] = "committed" /\ ent[w] \in Entities
  BY DEF RevokeSelect, SerialInv, IInv, LocalsInv, LocalsSound
<1>3. UniqueCurrent' /\ ReasonInSync'
  BY <1>2 DEF SerialInv, UniqueCurrent, ReasonInSync, dbVars
<1>4. CASE Registered(ent[w])
  <2>1. pc'[w] = "revoking" /\ ent' = ent /\ rows'[w] = RevocableOf(ent[w])
    BY <1>4 DEF RevokeSelect, SerialInv, IInv, TypeOK, WorkerTypeOK
  <2>2. ASSUME NEW v \in Workers PROVE SerialLocals(v)'
    BY <1>1, <1>2, <1>4, <2>1
       DEF SerialLocals, dbVars, RevocableOf, CurrentOf, RowsOf, Registered, Status
  <2>3. \A c \in Certs : ca[c] = "valid" => noted[c] = "unset"
    BY DEF SerialInv, IInv, TypeOK, DbTypeOK, NotedIsRevokedAtCA, Reasons
  <2>4. SuspensionOwed'
    BY <1>1, <1>2, <2>1, <2>3
       DEF SerialInv, SuspensionOwed, RevocationOwed, dbVars, RevocableOf, CurrentOf, RowsOf
  <2>5. QED BY <1>3, <2>2, <2>4 DEF SerialInv, SuspensionOwed, UniqueCurrent
<1>5. CASE ~Registered(ent[w])
  <2>1. Finish(w)
    BY <1>5 DEF RevokeSelect
  <2>2. ASSUME NEW v \in Workers PROVE SerialLocals(v)'
    BY <1>1, <2>1, FinishedLocals DEF SerialInv
  <2>3. SuspensionOwed'
    BY <1>1, <1>2, <1>5
       DEF SerialInv, SuspensionOwed, RevocationOwed, dbVars, Registered, Status,
           RevocationStatus
  <2>4. QED BY <1>3, <2>2, <2>3 DEF SerialInv, SuspensionOwed, UniqueCurrent
<1>6. QED BY <1>4, <1>5

\* The revoked certificate leaves the list because it is not valid any more.
LEMMA RevokeAtCASerial ==
    ASSUME OneAtATime, SerialInv, IInv', NEW w \in Workers, NEW c \in Certs, RevokeAtCA(w, c)
    PROVE  SerialInv'
<1>1. Workers = {w} /\ SerialLocals(w) /\ rows[w] \subseteq Certs
  BY DEF OneAtATime, SerialInv, IInv, TypeOK, WorkerTypeOK
<1>2. /\ UNCHANGED <<status, operated, record, holder, noted, ent, new, old, admin>>
      /\ pc[w] = "revoking" /\ c \in rows[w] /\ holder[c] = ent[w]
      /\ ca'[c] = Reason(new[w]) /\ \A d \in Certs : d # c => ca'[d] = ca[d]
      /\ pc'[w] = "caRevoked" /\ cert'[w] = c /\ rows'[w] = rows[w] \ {c}
  BY DEF RevokeAtCA, SerialInv, IInv, TypeOK, DbTypeOK, WorkerTypeOK, LocalsInv, LocalsSound
<1>3. ASSUME NEW v \in Workers PROVE SerialLocals(v)'
  BY <1>1, <1>2 DEF SerialLocals, Registered, Reason
<1>4. ca'[c] # "valid" /\ noted[c] = "unset"
  BY <1>1, <1>2 DEF Reason, SerialLocals
<1>5. SuspensionOwed'
  BY <1>1, <1>2, <1>4 DEF SerialInv, SuspensionOwed, RevocationOwed
<1>6. UniqueCurrent' /\ ReasonInSync'
  BY <1>2, <1>4 DEF SerialInv, UniqueCurrent, ReasonInSync
<1>7. QED BY <1>3, <1>5, <1>6 DEF SerialInv, SuspensionOwed, UniqueCurrent

\* The noted reason is the one just sent to the CA; when the row is gone its
\* entity is, and the rest of the list is of no interest.
LEMMA NoteRevocationSerial ==
    ASSUME OneAtATime, SerialInv, IInv', NEW w \in Workers, NoteRevocation(w)
    PROVE  SerialInv'
<1>1. Workers = {w} /\ SerialLocals(w) /\ rows[w] \subseteq Certs
  BY DEF OneAtATime, SerialInv, IInv, TypeOK, WorkerTypeOK
<1>2. /\ UNCHANGED <<status, operated, record, holder, ca>>
      /\ pc[w] = "caRevoked" /\ cert[w] \in Certs /\ cert[w] \notin rows[w]
      /\ ca[cert[w]] = Reason(new[w])
  BY <1>1 DEF NoteRevocation, SerialLocals, SerialInv, IInv, LocalsInv, LocalsSound
<1>3. UniqueCurrent'
  BY <1>2 DEF SerialInv, UniqueCurrent
<1>4. CASE record[cert[w]] # "none"
  <2>1. /\ pc'[w] = "revoking" /\ UNCHANGED <<ent, new, old, rows, admin>>
        /\ noted'[cert[w]] = Reason(new[w])
        /\ \A d \in Certs : d # cert[w] => noted'[d] = noted[d]
    BY <1>2, <1>4 DEF NoteRevocation, SerialInv, IInv, TypeOK, DbTypeOK, WorkerTypeOK
  <2>2. ASSUME NEW v \in Workers PROVE SerialLocals(v)'
    BY <1>1, <1>2, <2>1 DEF SerialLocals
  <2>3. SuspensionOwed'
    BY <1>1, <1>2, <2>1 DEF SerialInv, SuspensionOwed, RevocationOwed
  <2>4. ReasonInSync'
    BY <1>2, <2>1 DEF SerialInv, ReasonInSync
  <2>5. QED BY <1>3, <2>2, <2>3, <2>4 DEF SerialInv, SuspensionOwed, UniqueCurrent
<1>5. CASE record[cert[w]] = "none"
  <2>1. Finish(w) /\ UNCHANGED noted /\ status[ent[w]] = "deleted"
    BY <1>1, <1>2, <1>5 DEF NoteRevocation, SerialLocals
  <2>2. ASSUME NEW v \in Workers PROVE SerialLocals(v)'
    BY <1>1, <2>1, FinishedLocals DEF SerialInv
  <2>3. SuspensionOwed'
    BY <1>1, <1>2, <2>1 DEF SerialInv, SuspensionOwed, RevocationOwed, RevocationStatus
  <2>4. ReasonInSync'
    BY <1>2, <2>1 DEF SerialInv, ReasonInSync
  <2>5. QED BY <1>3, <2>2, <2>3, <2>4 DEF SerialInv, SuspensionOwed, UniqueCurrent
<1>6. QED BY <1>4, <1>5

-----------------------------------------------------------------------------
(***************************************************************************)
(* The properties of one request at a time                                 *)
(***************************************************************************)

\* SerialInv is inductive; refusals and crashes are excluded by OneAtATime.
LEMMA NextSerial ==
    ASSUME OneAtATime, SerialInv, [Next]_vars
    PROVE  SerialInv'
<1>1. IInv'
  BY NextIInv DEF SerialInv
<1>2. CASE UNCHANGED vars
  BY <1>1, <1>2
     DEF SerialInv, SerialLocals, RevocationOwed, ReasonInSync, Registered, CurrentOf, RowsOf,
         vars, dbVars, workerVars
<1>3. ASSUME NEW e \in Entities, Register(e) \/ AdminRegister(e) \/ Delete(e) PROVE SerialInv'
  BY <1>1, <1>3, RegisterSerial, DeleteSerial
<1>4. ASSUME NEW w \in Workers, NEW e \in Entities,
             IssueRequest(w, e) \/ PutLoad(w, e) \/ AdminLoad(w, e)
      PROVE  SerialInv'
  BY <1>1, <1>4, AcceptSerial
<1>5. ASSUME NEW w \in Workers, Advance(w) PROVE SerialInv'
  <2>1. \A c \in Certs : ~RevokeRefused(w, c)
    BY DEF OneAtATime, RevokeRefused
  <2>2. QED BY <1>1, <1>5, <2>1, ReadSerial, IssueCommitSerial, SaveRowSerial,
               RevokeSelectSerial, RevokeAtCASerial, NoteRevocationSerial DEF Advance
<1>6. ASSUME NEW w \in Workers, Crash(w) PROVE SerialInv'
  BY <1>6 DEF OneAtATime, Crash
<1>7. QED BY <1>2, <1>3, <1>4, <1>5, <1>6 DEF Next

THEOREM SerialInvAlways ==
    ASSUME OneAtATime
    PROVE  Spec => []SerialInv
<1>1. Init => SerialInv
  BY InitSerial
<1>2. SerialInv /\ [Next]_vars => SerialInv'
  BY NextSerial
<1>3. QED BY <1>1, <1>2, PTL DEF Spec

\* Served one at a time, every suspension revokes what is current: between two
\* requests nothing current of a suspended or revoked entity is valid.
THEOREM SerialSuspensionRevokes ==
    ASSUME OneAtATime
    PROVE  Spec => []SuspensionRevokes
<1>1. SerialInv => SuspensionRevokes
  BY DEF SerialInv, SuspensionRevokes, Quiet, RevocationOwed, CurrentOf, RowsOf
<1>2. QED BY <1>1, SerialInvAlways, PTL

\* Served one at a time, re-issuing leaves one current row.
THEOREM SerialOneCurrent ==
    ASSUME OneAtATime
    PROVE  Spec => []OneCurrent
<1>1. ASSUME SerialInv, NEW e \in Entities PROVE Cardinality(CurrentOf(e)) <= 1
  <2>1. \A c, d \in CurrentOf(e) : c = d
    BY <1>1 DEF SerialInv, CurrentOf, RowsOf
  <2>2. CurrentOf(e) = {} \/ \E c \in CurrentOf(e) : CurrentOf(e) = {c}
    BY <2>1
  <2>3. CASE CurrentOf(e) = {}
    BY <2>3, FS_EmptySet
  <2>4. ASSUME NEW c \in CurrentOf(e), CurrentOf(e) = {c}
        PROVE  Cardinality(CurrentOf(e)) <= 1
    <3>1. Cardinality({c}) = 1
      BY FS_Singleton
    <3>2. QED BY <2>4, <3>1
  <2>5. QED BY <2>2, <2>3, <2>4
<1>2. SerialInv => OneCurrent
  BY <1>1 DEF OneCurrent
<1>3. QED BY <1>2, SerialInvAlways, PTL

\* Served one at a time, the registry shows the reason the CA publishes.
THEOREM SerialReasonInSync ==
    ASSUME OneAtATime
    PROVE  Spec => []ReasonInSync
<1>1. SerialInv => ReasonInSync
  BY DEF SerialInv
<1>2. QED BY <1>1, SerialInvAlways, PTL
=============================================================================
