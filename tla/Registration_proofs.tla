------------------------ MODULE Registration_proofs ------------------------
(***************************************************************************)
(* Proofs about Registration, for any sets of entities, legal entities and *)
(* workers, with or without crashes.                                       *)
(*                                                                         *)
(* The chains of intermediaries end because an edge is only ever created   *)
(* together with the entity it starts from, towards entities that exist,   *)
(* and a deletion removes the edges with the entity: the entity a stale    *)
(* PUT inserts again has none.                                             *)
(***************************************************************************)
EXTENDS Registration, TLAPS

\* What no step does to the rows a request has seen.
RowsStay ==
    /\ \A l \in Legal : party[l] # "unused" => party'[l] # "unused"
    /\ \A e \in Entities : entity[e] # "unused" =>
          entity'[e] # "unused" /\ holder'[e] = holder[e]

\* The part of the invariant that speaks of the database only.
DbInv ==
    /\ \A e \in Registered : holder[e] \in Stored
    /\ uses \subseteq Registered \X Registered
    /\ UsesAcyclic

LEMMA InitReg == Init => RegInv
<1> SUFFICES ASSUME Init PROVE RegInv
  OBVIOUS
<1>1. RegTypeOK
  BY DEF Init, RegTypeOK, Rows, PC
<1>2. (\A w \in Workers : RequestSound(w)) /\ Registered = {}
  BY DEF Init, RequestSound, Registered
<1>3. UsesAcyclic
  BY DEF Init, UsesAcyclic
<1>4. QED BY <1>1, <1>2, <1>3 DEF RegInv, Init

-----------------------------------------------------------------------------
(***************************************************************************)
(* The locals of the requests                                              *)
(***************************************************************************)

LEMMA StaysSound ==
    ASSUME RegTypeOK, RowsStay, NEW v \in Workers, RequestSound(v),
           pc'[v] = pc[v], ent'[v] = ent[v], par'[v] = par[v], dom'[v] = dom[v],
           ident'[v] = ident[v]
    PROVE  RequestSound(v)'
BY DEF RequestSound, RowsStay, RegTypeOK

\* A step of one worker: only its own locals have to be looked at.
LEMMA StepSound ==
    ASSUME RegInv, RowsStay, NEW w \in Workers, RequestSound(w)',
           \A v \in Workers \ {w} :
               /\ pc'[v] = pc[v] /\ ent'[v] = ent[v] /\ par'[v] = par[v]
               /\ dom'[v] = dom[v] /\ ident'[v] = ident[v]
    PROVE  \A v \in Workers : RequestSound(v)'
<1>1. ASSUME NEW v \in Workers, v # w PROVE RequestSound(v)'
  BY <1>1, StaysSound DEF RegInv
<1>2. QED BY <1>1

\* A worker that finishes forgets its locals; the others stay sound.
LEMMA FinishSound ==
    ASSUME RegInv, RowsStay, NEW w \in Workers, Finish(w)
    PROVE  \A v \in Workers : RequestSound(v)'
<1>1. RequestSound(w)'
  BY DEF Finish, RequestSound, RegInv, RegTypeOK
<1>2. QED BY <1>1, StepSound DEF Finish, RegInv, RegTypeOK

LEMMA UntouchedSound ==
    ASSUME RegInv, RowsStay, UNCHANGED workerVars
    PROVE  \A v \in Workers : RequestSound(v)'
BY StaysSound DEF RegInv, workerVars

\* The types of the locals of a worker that has finished.
LocalsTypeOK ==
    /\ pc \in [Workers -> PC]
    /\ ent \in [Workers -> Entities \cup {NoEntity}]
    /\ par \in [Workers -> Legal \cup {NoLegal}]
    /\ dom \in [Workers -> Hosts \cup {NoHost}]
    /\ flag \in [Workers -> BOOLEAN]
    /\ ident \in [Workers -> Identifiers \cup {NoIdentifier}]
    /\ want \in [Workers -> SUBSET Entities]

LEMMA FinishTypes ==
    ASSUME RegTypeOK, NEW w \in Workers, Finish(w)
    PROVE  LocalsTypeOK'
BY DEF RegTypeOK, Finish, LocalsTypeOK, PC

\* The types of the database.
RowsTypeOK ==
    /\ party \in [Legal -> Rows]
    /\ identifier \in [Legal -> Identifiers \cup {NoIdentifier}]
    /\ linked \subseteq Legal
    /\ entity \in [Entities -> Rows]
    /\ holder \in [Entities -> Legal \cup {NoLegal}]
    /\ host \in [Entities -> Hosts \cup {NoHost}]
    /\ \A e \in Entities : entity[e] # "unused" => holder[e] \in Legal /\ host[e] \in Hosts
    /\ intermediary \subseteq Entities
    /\ uses \subseteq Entities \X Entities

LEMMA TypeParts == RegTypeOK <=> RowsTypeOK /\ LocalsTypeOK
BY DEF RegTypeOK, RowsTypeOK, LocalsTypeOK

\* A read leaves the database as it is.
LEMMA DbUntouched ==
    ASSUME RegInv, UNCHANGED <<partyVars, entityVars>>
    PROVE  RowsTypeOK' /\ DbInv' /\ RowsStay
BY TypeParts DEF RegInv, DbInv, partyVars, entityVars, RowsStay, RowsTypeOK, Registered, Stored,
   UsesAcyclic

\* The read that starts or continues a request changes nothing but its locals.
LEMMA ReadStep ==
    ASSUME RegInv, NEW w \in Workers, UNCHANGED <<partyVars, entityVars>>,
           LocalsTypeOK', RequestSound(w)',
           \A v \in Workers \ {w} :
               /\ pc'[v] = pc[v] /\ ent'[v] = ent[v] /\ par'[v] = par[v]
               /\ dom'[v] = dom[v] /\ ident'[v] = ident[v]
    PROVE  RegInv'
<1>1. RowsTypeOK' /\ DbInv' /\ RowsStay
  BY DbUntouched
<1>2. \A v \in Workers : RequestSound(v)'
  BY <1>1, StepSound
<1>3. RegTypeOK'
  BY <1>1, TypeParts DEF RegTypeOK, RowsTypeOK, LocalsTypeOK
<1>4. QED BY <1>1, <1>2, <1>3 DEF RegInv, DbInv

\* A request that ends without having written.
LEMMA Abandoned ==
    ASSUME RegInv, NEW w \in Workers, Finish(w), UNCHANGED <<partyVars, entityVars>>
    PROVE  RegInv'
<1>1. RequestSound(w)'
  BY DEF Finish, RequestSound, RegInv, RegTypeOK
<1>2. LocalsTypeOK'
  BY FinishTypes DEF RegInv
<1>3. QED BY <1>1, <1>2, ReadStep DEF Finish, RegInv, RegTypeOK

-----------------------------------------------------------------------------
(***************************************************************************)
(* Chains of intermediaries                                                *)
(***************************************************************************)

\* Fewer edges have no more cycles.
LEMMA FewerUses ==
    ASSUME UsesAcyclic, uses' \subseteq uses
    PROVE  UsesAcyclic'
BY DEF UsesAcyclic

\* An entity that nothing uses yet may use any others.
LEMMA NewUses ==
    ASSUME RegInv, NEW e \in Entities, e \notin Registered, NEW X \in SUBSET Registered,
           uses' = uses \cup {<<e, x>> : x \in X}
    PROVE  UsesAcyclic'
<1> SUFFICES ASSUME NEW S \in SUBSET Entities, S # {}
             PROVE  \E m \in S : \A x \in S : <<m, x>> \notin uses' \ AdminUses
  BY DEF UsesAcyclic
<1>1. \A x \in Entities : <<x, e>> \notin uses'
  BY DEF RegInv
<1>2. CASE S \ {e} = {}
  <2>1. e \in S /\ S = {e}
    BY <1>2
  <2>2. QED BY <1>1, <2>1
<1>3. CASE S \ {e} # {}
  <2>1. PICK m \in S \ {e} : \A x \in S \ {e} : <<m, x>> \notin uses \ AdminUses
    <3>1. (S \ {e}) \in SUBSET Entities
      OBVIOUS
    <3>2. QED BY <1>3, <3>1 DEF RegInv, UsesAcyclic
  <2>2. \A x \in S \ {e} : <<m, x>> \notin uses' \ AdminUses
    BY <2>1
  <2>3. QED BY <1>1, <2>1, <2>2
<1>4. QED BY <1>2, <1>3

-----------------------------------------------------------------------------
(***************************************************************************)
(* Reads                                                                   *)
(***************************************************************************)

LEMMA FormReads ==
    ASSUME RegInv, NEW w \in Workers, FormSubmit(w) \/ FormValidate(w)
    PROVE  RegInv'
<1>1. CASE FormSubmit(w)
  <2>1. PICK l \in Stored : par' = [par EXCEPT ![w] = l]
    BY <1>1 DEF FormSubmit
  <2>2. PICK h \in FormHosts : dom' = [dom EXCEPT ![w] = h]
    BY <1>1 DEF FormSubmit
  <2>3. l \in Legal /\ party'[l] = "stored" /\ h \in Hosts
    BY <1>1, RegistrationInputs DEF FormSubmit, Stored, partyVars
  <2>4. LocalsTypeOK'
    BY <1>1, <2>1, <2>2, <2>3 DEF FormSubmit, RegInv, RegTypeOK, LocalsTypeOK, PC
  <2>5. RequestSound(w)'
    BY <1>1, <2>1, <2>2, <2>3 DEF FormSubmit, RegInv, RegTypeOK, RequestSound
  <2>6. QED
    BY <1>1, <2>4, <2>5, ReadStep DEF FormSubmit, RegInv, RegTypeOK
<1>2. CASE FormValidate(w)
  <2>1. CASE pc'[w] = "validated"
    <3>1. LocalsTypeOK'
      BY <1>2, <2>1 DEF FormValidate, Finish, RegInv, RegTypeOK, LocalsTypeOK, PC
    <3>2. RequestSound(w)'
      BY <1>2, <2>1 DEF FormValidate, Finish, RegInv, RegTypeOK, RequestSound, partyVars
    <3>3. QED
      BY <1>2, <2>1, <3>1, <3>2, ReadStep DEF FormValidate, Finish, RegInv, RegTypeOK
  <2>2. CASE Finish(w)
    BY <1>2, <2>2, Abandoned DEF FormValidate
  <2>3. QED BY <1>2, <2>1, <2>2 DEF FormValidate, RegInv, RegTypeOK
<1>3. QED BY <1>1, <1>2

LEMMA WrpPostStep ==
    ASSUME RegInv, NEW w \in Workers, WrpPost(w)
    PROVE  RegInv'
<1>1. PICK i \in Identifiers, h \in FreeHosts, f \in BOOLEAN, x \in SUBSET Intermediaries :
        /\ ident' = [ident EXCEPT ![w] = i]
        /\ dom' = [dom EXCEPT ![w] = h]
        /\ flag' = [flag EXCEPT ![w] = f]
        /\ want' = [want EXCEPT ![w] = x]
        /\ \E l \in Legal \cup {NoLegal} : par' = [par EXCEPT ![w] = l]
  BY DEF WrpPost, Stored
<1>2. h \in Hosts /\ x \in SUBSET Entities
  BY RegistrationInputs DEF Intermediaries, Registered
<1>3. LocalsTypeOK'
  BY <1>1, <1>2 DEF WrpPost, RegInv, RegTypeOK, LocalsTypeOK, PC
<1>4. RequestSound(w)'
  BY <1>1, <1>2 DEF WrpPost, RegInv, RegTypeOK, RequestSound
<1>5. QED
  BY <1>1, <1>3, <1>4, ReadStep DEF WrpPost, RegInv, RegTypeOK

LEMMA PutLoadStep ==
    ASSUME RegInv, NEW w \in Workers, PutLoad(w)
    PROVE  RegInv'
<1>1. PICK e \in Registered :
        /\ ent' = [ent EXCEPT ![w] = e]
        /\ par' = [par EXCEPT ![w] = holder[e]]
        /\ \E h \in FreeHosts \cup {host[e]} : dom' = [dom EXCEPT ![w] = h]
  BY DEF PutLoad
<1>2. PICK h \in FreeHosts \cup {host[e]} : dom' = [dom EXCEPT ![w] = h]
  BY <1>1
<1>3. /\ e \in Entities /\ entity[e] # "unused"
      /\ h \in Hosts /\ holder[e] \in Legal
  BY <1>1, <1>2, RegistrationInputs DEF Registered, RegInv, RegTypeOK
<1>4. LocalsTypeOK'
  BY <1>1, <1>2, <1>3 DEF PutLoad, RegInv, RegTypeOK, LocalsTypeOK, PC
<1>5. RequestSound(w)'
  BY <1>1, <1>2, <1>3 DEF PutLoad, RegInv, RegTypeOK, RequestSound, entityVars
<1>6. QED
  BY <1>1, <1>2, <1>4, <1>5, ReadStep DEF PutLoad, RegInv, RegTypeOK

-----------------------------------------------------------------------------
(***************************************************************************)
(* Writes                                                                  *)
(***************************************************************************)

\* Legal entities are created and linked without touching the entities.
LEMMA LegalStep ==
    ASSUME RegInv, NEW w \in Workers, LegalCreate(w) \/ LegalLink(w)
    PROVE  RegInv'
<1>1. /\ UNCHANGED entityVars
      /\ \A l \in Stored : party'[l] = "stored"
      /\ \A l \in Legal : party[l] # "unused" => party'[l] = party[l]
  BY DEF LegalCreate, LegalLink, RegInv, RegTypeOK, Stored
<1>2. RowsStay /\ DbInv'
  <2>1. RowsStay
    BY <1>1 DEF RowsStay, entityVars
  <2>2. Registered' = Registered /\ UsesAcyclic'
    BY <1>1, FewerUses DEF entityVars, Registered, RegInv
  <2>3. \A l \in Stored : l \in Stored'
    BY <1>1 DEF Stored
  <2>4. QED BY <1>1, <2>1, <2>2, <2>3 DEF DbInv, RegInv, entityVars
<1>3. CASE LegalCreate(w)
  <2>1. PICK l \in Legal, i \in Identifiers :
          /\ party' = [party EXCEPT ![l] = "stored"]
          /\ identifier' = [identifier EXCEPT ![l] = i]
          /\ par' = [par EXCEPT ![w] = l]
    BY <1>3 DEF LegalCreate
  <2>2. PICK h \in FormHosts \cup {NoHost} : dom' = [dom EXCEPT ![w] = h]
    BY <1>3 DEF LegalCreate
  <2>3. h \in Hosts \cup {NoHost}
    BY RegistrationInputs
  <2>4. RegTypeOK'
    BY <1>3, <2>1, <2>2, <2>3 DEF LegalCreate, RegInv, RegTypeOK, PC, Rows, entityVars
  <2>5. RequestSound(w)'
    BY <1>3, <2>1, <2>2 DEF LegalCreate, RegInv, RegTypeOK, RequestSound
  <2>6. \A v \in Workers : RequestSound(v)'
    BY <1>2, <1>3, <2>1, <2>2, <2>5, StepSound DEF LegalCreate, RegInv, RegTypeOK
  <2>7. QED BY <1>2, <2>4, <2>6 DEF RegInv, DbInv
<1>4. CASE LegalLink(w)
  <2>1. RowsTypeOK'
    BY <1>1, <1>4 DEF LegalLink, RegInv, RegTypeOK, RowsTypeOK, Stored, entityVars
  <2>2. CASE Finish(w)
    <3>1. LocalsTypeOK' /\ \A v \in Workers : RequestSound(v)'
      BY <1>2, <2>2, FinishTypes, FinishSound DEF RegInv
    <3>2. RegTypeOK'
      BY <2>1, <3>1 DEF RegTypeOK, RowsTypeOK, LocalsTypeOK
    <3>3. QED BY <1>2, <3>1, <3>2 DEF RegInv, DbInv
  <2>3. CASE ~Finish(w)
    <3>1. /\ par[w] \in Stored /\ dom[w] # NoHost
          /\ pc' = [pc EXCEPT ![w] = "form"]
          /\ UNCHANGED <<ent, par, dom, flag, ident, want>>
      BY <1>4, <2>3 DEF LegalLink
    <3>2. LocalsTypeOK'
      BY <3>1 DEF RegInv, RegTypeOK, LocalsTypeOK, PC
    <3>3. RequestSound(w)'
      BY <1>1, <1>4, <3>1 DEF LegalLink, RegInv, RegTypeOK, RequestSound, Stored
    <3>4. \A v \in Workers : RequestSound(v)'
      BY <1>2, <3>1, <3>3, StepSound DEF RegInv, RegTypeOK
    <3>5. RegTypeOK'
      BY <2>1, <3>2 DEF RegTypeOK, RowsTypeOK, LocalsTypeOK
    <3>6. QED BY <1>2, <3>4, <3>5 DEF RegInv, DbInv
  <2>4. QED BY <2>2, <2>3
<1>5. QED BY <1>3, <1>4

\* A new entity, of a stored legal entity and with intermediaries that exist.
LEMMA Created ==
    ASSUME RegInv, NEW e \in Entities, NEW l \in Legal, NEW h \in Hosts, NEW f \in BOOLEAN,
           CreateEntity(e, l, h, f), l \in Stored', RowsStay,
           \A m \in Stored : m \in Stored',
           NEW X \in SUBSET Registered, uses' = uses \cup {<<e, x>> : x \in X}
    PROVE  DbInv'
<1>1. e \notin Registered
  BY DEF CreateEntity, Registered
<1>2. Registered' = Registered \cup {e}
  BY DEF CreateEntity, Registered, RegInv, RegTypeOK
<1>3. UsesAcyclic'
  BY <1>1, NewUses
<1>4. \A d \in Registered' : holder'[d] \in Stored'
  BY <1>2 DEF CreateEntity, RegInv, RegTypeOK, Registered
<1>5. uses' \subseteq Registered' \X Registered'
  BY <1>2 DEF RegInv
<1>6. QED BY <1>3, <1>4, <1>5 DEF DbInv

\* The columns of a new entity.
LEMMA CreatedTypes ==
    ASSUME RegTypeOK, NEW e \in Entities, NEW l \in Legal, NEW h \in Hosts, NEW f \in BOOLEAN,
           CreateEntity(e, l, h, f)
    PROVE  /\ entity' \in [Entities -> Rows]
           /\ holder' \in [Entities -> Legal \cup {NoLegal}]
           /\ host' \in [Entities -> Hosts \cup {NoHost}]
           /\ \A d \in Entities : entity'[d] # "unused" => holder'[d] \in Legal /\ host'[d] \in Hosts
           /\ intermediary' \subseteq Entities
           /\ \A d \in Entities : entity[d] # "unused" =>
                 entity'[d] # "unused" /\ holder'[d] = holder[d]
BY DEF RegTypeOK, CreateEntity, Rows

LEMMA FormStoreStep ==
    ASSUME RegInv, NEW w \in Workers, FormStore(w)
    PROVE  RegInv'
<1>1. CASE par[w] \in Stored
  <2>1. PICK e \in Entities : CreateEntity(e, par[w], dom[w], flag[w])
    BY <1>1 DEF FormStore
  <2>2. /\ par[w] \in Legal /\ dom[w] \in Hosts /\ flag[w] \in BOOLEAN
        /\ UNCHANGED <<partyVars, uses>> /\ Finish(w)
    BY <1>1 DEF FormStore, RegInv, RegTypeOK, RequestSound, Stored
  <2>3. RowsStay
    BY <2>1, <2>2, CreatedTypes DEF RegInv, RowsStay, partyVars
  <2>4. DbInv'
    <3>1. uses' = uses \cup {<<e, x>> : x \in {}} /\ {} \in SUBSET Registered
      BY <2>2
    <3>2. Stored' = Stored
      BY <2>2 DEF Stored, partyVars
    <3>3. QED BY <1>1, <2>1, <2>2, <2>3, <3>1, <3>2, Created
  <2>5. RowsTypeOK'
    BY <2>1, <2>2, CreatedTypes DEF RegInv, RegTypeOK, RowsTypeOK, partyVars
  <2>6. LocalsTypeOK' /\ \A v \in Workers : RequestSound(v)'
    BY <2>2, <2>3, FinishTypes, FinishSound DEF RegInv
  <2>7. RegTypeOK'
    BY <2>5, <2>6 DEF RegTypeOK, RowsTypeOK, LocalsTypeOK
  <2>8. QED BY <2>4, <2>6, <2>7 DEF RegInv, DbInv
<1>2. CASE par[w] \notin Stored
  BY <1>2, Abandoned DEF FormStore, entityVars
<1>3. QED BY <1>1, <1>2

LEMMA WrpCommitStep ==
    ASSUME RegInv, NEW w \in Workers, WrpCommit(w)
    PROVE  RegInv'
<1>1. CASE par[w] \in Stored \cup {NoLegal} /\ want[w] \subseteq Registered
  <2>1. PICK e \in Entities, l \in Legal :
          /\ PostParty(w, l)
          /\ CreateEntity(e, l, dom[w], flag[w])
          /\ uses' = uses \cup {<<e, x>> : x \in want[w]}
    BY <1>1 DEF WrpCommit
  <2>2. /\ dom[w] \in Hosts /\ flag[w] \in BOOLEAN /\ ident[w] \in Identifiers
        /\ want[w] \in SUBSET Registered /\ Finish(w)
    BY <1>1 DEF WrpCommit, RegInv, RegTypeOK, RequestSound
  <2>3. /\ party' \in [Legal -> Rows]
        /\ identifier' \in [Legal -> Identifiers \cup {NoIdentifier}]
        /\ linked' \subseteq Legal
        /\ l \in Stored'
        /\ \A m \in Stored : m \in Stored'
        /\ \A m \in Legal : party[m] # "unused" => party'[m] # "unused"
    <3>1. CASE par[w] = NoLegal
      BY <2>1, <2>2, <3>1 DEF PostParty, RegInv, RegTypeOK, Stored, Rows
    <3>2. CASE par[w] # NoLegal
      BY <1>1, <2>1, <3>2 DEF PostParty, RegInv, RegTypeOK, Stored, partyVars
    <3>3. QED BY <3>1, <3>2
  <2>4. RowsStay
    BY <2>1, <2>2, <2>3, CreatedTypes DEF RegInv, RowsStay
  <2>5. DbInv'
    BY <2>1, <2>2, <2>3, <2>4, Created
  <2>6. RowsTypeOK'
    <3>1. uses' \subseteq Entities \X Entities
      BY <2>1, <2>2 DEF RegInv, RegTypeOK, Registered
    <3>2. QED BY <2>1, <2>2, <2>3, <3>1, CreatedTypes DEF RegInv, RowsTypeOK
  <2>7. LocalsTypeOK' /\ \A v \in Workers : RequestSound(v)'
    BY <2>2, <2>4, FinishTypes, FinishSound DEF RegInv
  <2>8. RegTypeOK'
    BY <2>6, <2>7 DEF RegTypeOK, RowsTypeOK, LocalsTypeOK
  <2>9. QED BY <2>5, <2>7, <2>8 DEF RegInv, DbInv
<1>2. CASE ~(par[w] \in Stored \cup {NoLegal} /\ want[w] \subseteq Registered)
  BY <1>2, Abandoned DEF WrpCommit
<1>3. QED BY <1>1, <1>2

\* A stale PUT may insert an entity again: its legal entity is stored, and the
\* edges went with the deletion.
LEMMA PutSaveStep ==
    ASSUME RegInv, NEW w \in Workers, PutSave(w)
    PROVE  RegInv'
<1>1. CASE par[w] \in Stored
  <2>1. /\ SaveLoaded(w) /\ Finish(w) /\ UNCHANGED <<partyVars, holder, uses>>
        /\ ent[w] \in Entities /\ dom[w] \in Hosts /\ par[w] = holder[ent[w]]
        /\ entity[ent[w]] # "unused"
    BY <1>1 DEF PutSave, RegInv, RequestSound
  <2>2. RowsStay
    BY <2>1 DEF SaveLoaded, RegInv, RegTypeOK, RowsStay, partyVars
  <2>3. Registered' = Registered \cup {ent[w]} /\ Stored' = Stored
    BY <2>1 DEF SaveLoaded, RegInv, RegTypeOK, Registered, Stored, partyVars
  <2>4. DbInv'
    BY <1>1, <2>1, <2>3, FewerUses DEF DbInv, RegInv
  <2>5. RowsTypeOK'
    BY <2>1 DEF SaveLoaded, RegInv, RegTypeOK, RowsTypeOK, Rows, partyVars
  <2>6. LocalsTypeOK' /\ \A v \in Workers : RequestSound(v)'
    BY <2>1, <2>2, FinishTypes, FinishSound DEF RegInv
  <2>7. RegTypeOK'
    BY <2>5, <2>6 DEF RegTypeOK, RowsTypeOK, LocalsTypeOK
  <2>8. QED BY <2>4, <2>6, <2>7 DEF RegInv, DbInv
<1>2. CASE par[w] \notin Stored
  BY <1>2, Abandoned DEF PutSave, entityVars
<1>3. QED BY <1>1, <1>2

\* An administrator changes columns of an entity, or adds a pair of AdminUses.
LEMMA AdminStep ==
    ASSUME RegInv, NEW e \in Entities,
           AdminEdit(e) \/ \E x \in Entities : AdminUse(e, x)
    PROVE  RegInv'
<1>1. /\ UNCHANGED <<partyVars, entity, holder, workerVars>>
      /\ intermediary' \subseteq Entities
      /\ host' \in [Entities -> Hosts \cup {NoHost}]
      /\ \A d \in Entities : entity[d] # "unused" => host'[d] \in Hosts
  <2>1. CASE AdminEdit(e)
    <3>1. PICK h \in FreeHosts \cup {host[e]} : host' = [host EXCEPT ![e] = h]
      BY <2>1 DEF AdminEdit
    <3>2. h \in Hosts
      BY <2>1, RegistrationInputs DEF AdminEdit, RegInv, RegTypeOK, Registered
    <3>3. QED BY <2>1, <3>1, <3>2 DEF AdminEdit, RegInv, RegTypeOK
  <2>2. CASE \E x \in Entities : AdminUse(e, x)
    BY <2>2 DEF AdminUse, RegInv, RegTypeOK
  <2>3. QED BY <2>1, <2>2
<1>2. uses' = uses \/ \E p \in AdminUses \cap (Registered \X Registered) : uses' = uses \cup {p}
  <2>1. ASSUME NEW x \in Entities, AdminUse(e, x)
        PROVE  /\ <<e, x>> \in AdminUses \cap (Registered \X Registered)
               /\ uses' = uses \cup {<<e, x>>}
    BY <2>1 DEF AdminUse
  <2>2. QED BY <2>1 DEF AdminEdit
<1>3. Registered' = Registered /\ Stored' = Stored /\ RowsStay
  BY <1>1 DEF Registered, Stored, RowsStay, partyVars
<1>4. DbInv'
  <2>1. UsesAcyclic'
    BY <1>2 DEF RegInv, UsesAcyclic
  <2>2. uses' \subseteq Registered' \X Registered'
    BY <1>2, <1>3 DEF RegInv
  <2>3. QED BY <1>1, <1>3, <2>1, <2>2 DEF DbInv, RegInv
<1>5. RegTypeOK'
  <2>1. uses' \subseteq Entities \X Entities
    BY <1>4 DEF DbInv, Registered
  <2>2. QED BY <1>1, <2>1 DEF RegInv, RegTypeOK, partyVars, workerVars
<1>6. \A v \in Workers : RequestSound(v)'
  BY <1>1, <1>3, UntouchedSound
<1>7. QED BY <1>4, <1>5, <1>6 DEF RegInv, DbInv

\* Deleting entities, with or without a legal entity of theirs.
LEMMA RemoveStep ==
    ASSUME RegInv, NEW gone \in SUBSET Registered, Remove(gone),
           UNCHANGED <<identifier, workerVars>>,
           party' \in [Legal -> Rows], linked' \subseteq linked,
           \A l \in Legal : party[l] # "unused" => party'[l] # "unused",
           \A e \in Registered \ gone : holder[e] \in Stored'
    PROVE  RegInv'
<1>1. Registered' = Registered \ gone
  BY DEF Remove, Registered, RegInv, RegTypeOK
<1>2. RowsStay
  BY DEF Remove, RowsStay, Registered, RegInv, RegTypeOK
<1>3. DbInv'
  <2>1. UsesAcyclic'
    BY FewerUses DEF Remove, RegInv
  <2>2. uses' \subseteq Registered' \X Registered'
    <3>1. ASSUME NEW p \in uses' PROVE p \in Registered' \X Registered'
      BY <1>1, <3>1 DEF Remove, RegInv
    <3>2. QED BY <3>1
  <2>3. QED BY <1>1, <2>1, <2>2 DEF DbInv, Remove
<1>4. RegTypeOK'
  <2>1. entity' \in [Entities -> Rows]
    BY DEF Remove, RegInv, RegTypeOK, Rows
  <2>2. \A e \in Entities : entity'[e] # "unused" => entity[e] # "unused"
    BY DEF Remove, Registered
  <2>3. uses' \subseteq Entities \X Entities /\ intermediary' \subseteq Entities
    BY DEF Remove, RegInv, RegTypeOK
  <2>4. QED BY <2>1, <2>2, <2>3 DEF Remove, RegInv, RegTypeOK, workerVars
<1>5. \A v \in Workers : RequestSound(v)'
  BY <1>2, UntouchedSound
<1>6. QED BY <1>3, <1>4, <1>5 DEF RegInv, DbInv

LEMMA DeleteStep ==
    ASSUME RegInv, (\E e \in Entities : DeleteEntity(e)) \/ (\E l \in Legal : DeleteLegal(l))
    PROVE  RegInv'
<1>1. ASSUME NEW e \in Entities, DeleteEntity(e) PROVE RegInv'
  <2>1. Stored' = Stored /\ {e} \in SUBSET Registered
    BY <1>1 DEF DeleteEntity, Stored, partyVars
  <2>2. QED BY <1>1, <2>1, RemoveStep DEF DeleteEntity, partyVars, RegInv, RegTypeOK
<1>2. ASSUME NEW l \in Legal, DeleteLegal(l) PROVE RegInv'
  <2>1. party' \in [Legal -> Rows] /\ Stored' = Stored \ {l}
    BY <1>2 DEF DeleteLegal, RegInv, RegTypeOK, Rows, Stored
  <2>2. \A m \in Legal : party[m] # "unused" => party'[m] # "unused"
    BY <1>2 DEF DeleteLegal, RegInv, RegTypeOK
  <2>3. {e \in Registered : holder[e] = l} \in SUBSET Registered
    OBVIOUS
  <2>4. \A e \in Registered \ {d \in Registered : holder[d] = l} : holder[e] \in Stored'
    BY <2>1 DEF RegInv
  <2>5. QED BY <1>2, <2>1, <2>2, <2>3, <2>4, RemoveStep DEF DeleteLegal
<1>3. QED BY <1>1, <1>2

-----------------------------------------------------------------------------
(***************************************************************************)
(* The theorems                                                            *)
(***************************************************************************)

LEMMA NextReg ==
    ASSUME RegInv, [Next]_vars
    PROVE  RegInv'
<1>1. CASE UNCHANGED vars
  <2>1. RowsTypeOK' /\ DbInv' /\ RowsStay
    BY <1>1, DbUntouched DEF vars
  <2>2. (\A v \in Workers : RequestSound(v)') /\ RegTypeOK'
    <3>1. RegTypeOK'
      BY <1>1 DEF vars, partyVars, entityVars, workerVars, RegInv, RegTypeOK
    <3>2. QED BY <1>1, <2>1, <3>1, UntouchedSound DEF vars
  <2>3. QED BY <2>1, <2>2 DEF RegInv, DbInv
<1>2. ASSUME NEW w \in Workers, LegalCreate(w) \/ FormSubmit(w) \/ WrpPost(w) \/ PutLoad(w)
      PROVE  RegInv'
  BY <1>2, LegalStep, FormReads, WrpPostStep, PutLoadStep
<1>3. ASSUME NEW w \in Workers, Advance(w) PROVE RegInv'
  BY <1>3, LegalStep, FormReads, FormStoreStep, WrpCommitStep, PutSaveStep DEF Advance
<1>4. ASSUME NEW w \in Workers, Crash(w) PROVE RegInv'
  BY <1>4, Abandoned DEF Crash
<1>5. ASSUME NEW e \in Entities, AdminEdit(e) \/ \E x \in Entities : AdminUse(e, x)
      PROVE  RegInv'
  BY <1>5, AdminStep
<1>6. CASE (\E e \in Entities : DeleteEntity(e)) \/ (\E l \in Legal : DeleteLegal(l))
  BY <1>6, DeleteStep
<1>7. QED BY <1>1, <1>2, <1>3, <1>4, <1>5, <1>6 DEF Next

\* RegInv holds in every reachable state.
THEOREM RegInvAlways == Spec => []RegInv
BY InitReg, NextReg, PTL DEF Spec

\* Columns and locals keep their types, and an entity its legal entity and domain.
THEOREM RegTypeOKAlways == Spec => []RegTypeOK
BY RegInvAlways, PTL DEF RegInv

\* to_representation, which follows the intermediaries of an entity and theirs,
\* comes to an end on everything the API has created, for any number of entities.
THEOREM UsesAcyclicAlways == Spec => []UsesAcyclic
BY RegInvAlways, PTL DEF RegInv

-----------------------------------------------------------------------------
(***************************************************************************)
(* Entities are findable, as long as no worker is killed between the two   *)
(* statements that store a legal entity and its identifier.                *)
(***************************************************************************)

\* A legal entity has its identifier, or the request that links it is alive.
LinkInv ==
    \A l \in Stored :
        \/ l \in linked
        \/ \E w \in Workers : pc[w] = "linking" /\ par[w] = l

\* A worker that is not about to link anything is nobody's hope.
LEMMA OtherLinks ==
    ASSUME LinkInv, NEW w \in Workers, pc[w] # "linking",
           \A v \in Workers \ {w} : pc'[v] = pc[v] /\ par'[v] = par[v],
           linked \subseteq linked', Stored' \subseteq Stored \cup linked'
    PROVE  LinkInv'
<1> SUFFICES ASSUME NEW l \in Stored', l \notin linked'
             PROVE  \E v \in Workers : pc'[v] = "linking" /\ par'[v] = l
  BY DEF LinkInv
<1>1. PICK v \in Workers : pc[v] = "linking" /\ par[v] = l
  BY DEF LinkInv
<1>2. QED BY <1>1

LEMMA LegalLinks ==
    ASSUME RegInv, LinkInv, NEW w \in Workers, LegalCreate(w) \/ LegalLink(w)
    PROVE  LinkInv'
<1>1. CASE LegalCreate(w)
  <2>1. PICK l \in Legal : party' = [party EXCEPT ![l] = "stored"] /\ par' = [par EXCEPT ![w] = l]
    BY <1>1 DEF LegalCreate
  <2>2. /\ pc' = [pc EXCEPT ![w] = "linking"] /\ linked' = linked /\ pc[w] = "idle"
        /\ Stored' \subseteq Stored \cup {l}
    BY <1>1, <2>1 DEF LegalCreate, Stored, RegInv, RegTypeOK
  <2>3. pc'[w] = "linking" /\ par'[w] = l
    BY <2>1, <2>2 DEF RegInv, RegTypeOK
  <2>4. ASSUME NEW m \in Stored, m \notin linked
        PROVE  \E v \in Workers : pc'[v] = "linking" /\ par'[v] = m
    <3>1. PICK v \in Workers : pc[v] = "linking" /\ par[v] = m
      BY <2>4 DEF LinkInv
    <3>2. v # w
      BY <2>2, <3>1
    <3>3. QED BY <2>1, <2>2, <3>1, <3>2 DEF RegInv, RegTypeOK
  <2>5. QED BY <2>2, <2>3, <2>4 DEF LinkInv
<1>2. CASE LegalLink(w)
  <2>1. /\ Stored' = Stored
        /\ linked' = IF par[w] \in Stored THEN linked \cup {par[w]} ELSE linked
        /\ \A v \in Workers \ {w} : pc'[v] = pc[v] /\ par'[v] = par[v]
    BY <1>2 DEF LegalLink, Finish, Stored, RegInv, RegTypeOK
  <2>2. ASSUME NEW m \in Stored, m \notin linked'
        PROVE  \E v \in Workers : pc'[v] = "linking" /\ par'[v] = m
    <3>1. PICK v \in Workers : pc[v] = "linking" /\ par[v] = m
      BY <2>1, <2>2 DEF LinkInv
    <3>2. v # w
      BY <2>1, <2>2, <3>1
    <3>3. QED BY <2>1, <3>1, <3>2
  <2>3. QED BY <2>1, <2>2 DEF LinkInv
<1>3. QED BY <1>1, <1>2

LEMMA OtherStepLinks ==
    ASSUME RegInv, LinkInv, NEW w \in Workers,
           \/ FormSubmit(w) \/ FormValidate(w) \/ FormStore(w) \/ WrpPost(w)
           \/ WrpCommit(w) \/ PutLoad(w) \/ PutSave(w)
    PROVE  LinkInv'
<1>1. pc[w] # "linking"
  BY DEF FormSubmit, FormValidate, FormStore, WrpPost, WrpCommit, PutLoad, PutSave
<1>2. \A v \in Workers \ {w} : pc'[v] = pc[v] /\ par'[v] = par[v]
  BY DEF FormSubmit, FormValidate, FormStore, WrpPost, WrpCommit, PutLoad, PutSave, Finish,
         RegInv, RegTypeOK, Stored
<1>3. linked \subseteq linked' /\ Stored' \subseteq Stored \cup linked'
  <2>1. CASE WrpCommit(w)
    <3>1. UNCHANGED partyVars \/ \E l \in Legal : PostParty(w, l)
      BY <2>1 DEF WrpCommit
    <3>2. QED BY <3>1 DEF PostParty, partyVars, Stored, RegInv, RegTypeOK
  <2>2. CASE ~WrpCommit(w)
    BY <2>2 DEF FormSubmit, FormValidate, FormStore, WrpPost, PutLoad, PutSave, partyVars, Stored
  <2>3. QED BY <2>1, <2>2
<1>4. QED BY <1>1, <1>2, <1>3, OtherLinks

LEMMA NextLinks ==
    ASSUME "linking" \notin CrashAt, RegInv, LinkInv, [Next]_vars
    PROVE  LinkInv'
<1>1. CASE UNCHANGED <<partyVars, workerVars>>
  BY <1>1 DEF LinkInv, Stored, partyVars, workerVars
<1>2. ASSUME NEW w \in Workers, Crash(w) PROVE LinkInv'
  <2>1. pc[w] # "linking" /\ \A v \in Workers \ {w} : pc'[v] = pc[v] /\ par'[v] = par[v]
    BY <1>2 DEF Crash, Finish, RegInv, RegTypeOK
  <2>2. QED BY <1>2, <2>1, OtherLinks DEF Crash, Stored, partyVars
<1>3. ASSUME NEW l \in Legal, DeleteLegal(l) PROVE LinkInv'
  <2>1. Stored' = Stored \ {l} /\ linked' = linked \ {l} /\ UNCHANGED workerVars
    BY <1>3 DEF DeleteLegal, Stored, RegInv, RegTypeOK
  <2>2. QED BY <2>1 DEF LinkInv, workerVars
<1>4. ASSUME NEW w \in Workers,
             LegalCreate(w) \/ FormSubmit(w) \/ WrpPost(w) \/ PutLoad(w) \/ Advance(w)
      PROVE  LinkInv'
  BY <1>4, LegalLinks, OtherStepLinks DEF Advance
<1>5. ASSUME NEW e \in Entities, AdminEdit(e) \/ DeleteEntity(e) \/ \E x \in Entities : AdminUse(e, x)
      PROVE  LinkInv'
  BY <1>1, <1>5 DEF AdminEdit, DeleteEntity, AdminUse
<1>6. CASE UNCHANGED vars
  BY <1>1, <1>6 DEF vars
<1>7. QED BY <1>2, <1>3, <1>4, <1>5, <1>6 DEF Next

\* Every registered entity can be found by the identifier of its legal entity, or
\* the request that is to link the identifier is alive, if no process is killed
\* between the two statements of a legal entity's creation.
THEOREM EntitiesFindableAlways ==
    ASSUME "linking" \notin CrashAt
    PROVE  Spec => []EntitiesFindable
<1>1. Init => LinkInv
  BY DEF Init, LinkInv, Stored
<1>2. RegInv /\ LinkInv /\ [Next]_vars => LinkInv'
  BY NextLinks
<1>3. RegInv /\ LinkInv => EntitiesFindable
  BY DEF RegInv, LinkInv, EntitiesFindable
<1>4. QED BY <1>1, <1>2, <1>3, RegInvAlways, PTL DEF Spec

-----------------------------------------------------------------------------
(***************************************************************************)
(* The domain guard of the form: "two distinct legal entities must not     *)
(* both claim the same domain".  It compares before it stores, so that two *)
(* processes may pass it side by side, and other ways in do not compare at *)
(* all.  Without these it is enough.                                       *)
(***************************************************************************)

\* A host of two legal entities came through the WRP API or an admin form.
SharedOnlyFree ==
    \A e, f \in Registered : host[e] = host[f] => host[e] \in FreeHosts \/ holder[e] = holder[f]

\* No entity of another legal entity has the host.
Guarded(h, l) == h \in FreeHosts \/ \A e \in Registered : host[e] = h => holder[e] = l

\* What a worker is about to store has been compared, or is one of FreeHosts.
HostInv(w) ==
    /\ SharedOnlyFree
    /\ pc[w] = "posting" => dom[w] \in FreeHosts
    /\ pc[w] \in {"validated", "put"} => Guarded(dom[w], par[w])

\* One row is created or saved, with a host that has been compared.
LEMMA RowSaved ==
    ASSUME SharedOnlyFree, NEW e \in Entities, NEW h, NEW l, Guarded(h, l),
           Registered' \subseteq Registered \cup {e}, host'[e] = h, holder'[e] = l,
           \A f \in Registered \ {e} : host'[f] = host[f] /\ holder'[f] = holder[f]
    PROVE  SharedOnlyFree'
<1>1. ASSUME NEW f \in Registered', NEW g \in Registered', host'[f] = host'[g]
      PROVE  host'[f] \in FreeHosts \/ holder'[f] = holder'[g]
  <2>1. CASE f = e \/ g = e
    BY <1>1, <2>1 DEF Guarded
  <2>2. CASE f # e /\ g # e
    BY <1>1, <2>2 DEF SharedOnlyFree
  <2>3. QED BY <2>1, <2>2
<1>2. QED BY <1>1 DEF SharedOnlyFree

\* The only worker answers: nothing is left to store.
LEMMA Answered ==
    ASSUME RegInv, NEW w \in Workers, Finish(w), SharedOnlyFree'
    PROVE  HostInv(w)'
BY DEF Finish, HostInv, RegInv, RegTypeOK

LEMMA FinishHosts ==
    ASSUME RegInv, NEW w \in Workers, HostInv(w), Finish(w), UNCHANGED entityVars
    PROVE  HostInv(w)'
<1>1. SharedOnlyFree'
  BY DEF HostInv, SharedOnlyFree, entityVars, Registered
<1>2. QED BY <1>1, Answered

\* The steps that read, or write other tables only.
LEMMA ReadHosts ==
    ASSUME RegInv, NEW w \in Workers, HostInv(w),
           LegalCreate(w) \/ FormSubmit(w) \/ LegalLink(w) \/ FormValidate(w) \/ WrpPost(w) \/ PutLoad(w)
    PROVE  HostInv(w)'
<1>1. UNCHANGED entityVars /\ Registered' = Registered /\ SharedOnlyFree'
  BY DEF LegalCreate, FormSubmit, LegalLink, FormValidate, WrpPost, PutLoad, entityVars, HostInv,
         SharedOnlyFree, Registered
<1>2. CASE LegalCreate(w) \/ FormSubmit(w)
  <2>1. pc'[w] \in {"linking", "form"}
    BY <1>2 DEF LegalCreate, FormSubmit, RegInv, RegTypeOK
  <2>2. QED BY <1>1, <2>1 DEF HostInv
<1>3. CASE LegalLink(w)
  <2>1. pc'[w] = "form" \/ Finish(w)
    BY <1>3 DEF LegalLink, RegInv, RegTypeOK
  <2>2. QED BY <1>1, <2>1, FinishHosts DEF HostInv
<1>4. CASE FormValidate(w)
  <2>1. CASE Finish(w)
    BY <1>1, <2>1, FinishHosts
  <2>2. CASE ~Finish(w)
    <3>1. /\ ~Claimed(dom[w], par[w]) /\ pc'[w] = "validated"
          /\ dom' = dom /\ par' = par /\ host' = host /\ holder' = holder
      BY <1>1, <1>4, <2>2 DEF FormValidate, RegInv, RegTypeOK, entityVars
    <3>2. Guarded(dom[w], par[w])'
      BY <1>1, <3>1 DEF Guarded, Claimed
    <3>3. QED BY <1>1, <3>1, <3>2 DEF HostInv
  <2>3. QED BY <2>1, <2>2
<1>5. CASE WrpPost(w)
  <2>1. pc'[w] = "posting" /\ dom'[w] \in FreeHosts
    BY <1>5 DEF WrpPost, RegInv, RegTypeOK
  <2>2. QED BY <1>1, <2>1 DEF HostInv
<1>6. CASE PutLoad(w)
  <2>1. PICK e \in Registered :
            /\ par' = [par EXCEPT ![w] = holder[e]]
            /\ \E h \in FreeHosts \cup {host[e]} : dom' = [dom EXCEPT ![w] = h]
    BY <1>6 DEF PutLoad
  <2>2. par'[w] = holder[e] /\ (dom'[w] \in FreeHosts \/ dom'[w] = host[e])
    BY <2>1 DEF RegInv, RegTypeOK
  <2>3. pc'[w] = "put"
    BY <1>6 DEF PutLoad, RegInv, RegTypeOK
  <2>4. Guarded(dom[w], par[w])'
    BY <1>1, <2>2 DEF Guarded, HostInv, SharedOnlyFree, entityVars
  <2>5. QED BY <1>1, <2>3, <2>4 DEF HostInv
<1>7. QED BY <1>2, <1>3, <1>4, <1>5, <1>6

\* A new row, with a host that has been compared or comes from the WRP API.
LEMMA CreatedHosts ==
    ASSUME RegInv, NEW w \in Workers, HostInv(w), NEW e \in Entities, NEW l, NEW f,
           CreateEntity(e, l, dom[w], f), Guarded(dom[w], l)
    PROVE  SharedOnlyFree'
<1>1. /\ Registered' \subseteq Registered \cup {e} /\ host'[e] = dom[w] /\ holder'[e] = l
      /\ \A g \in Registered \ {e} : host'[g] = host[g] /\ holder'[g] = holder[g]
  BY DEF CreateEntity, Registered, RegInv, RegTypeOK
<1>2. QED BY <1>1, RowSaved DEF HostInv

LEMMA StoreHosts ==
    ASSUME RegInv, NEW w \in Workers, HostInv(w), FormStore(w) \/ WrpCommit(w)
    PROVE  HostInv(w)'
<1>1. Finish(w)
  BY DEF FormStore, WrpCommit
<1>2. CASE UNCHANGED <<entity, holder, host>>
  BY <1>1, <1>2, Answered DEF HostInv, SharedOnlyFree, Registered
<1>3. CASE FormStore(w) /\ ~UNCHANGED <<entity, holder, host>>
  <2>1. PICK e \in Entities : CreateEntity(e, par[w], dom[w], flag[w])
    BY <1>3 DEF FormStore
  <2>2. Guarded(dom[w], par[w])
    BY <1>3 DEF FormStore, HostInv
  <2>3. QED BY <1>1, <2>1, <2>2, CreatedHosts, Answered
<1>4. CASE WrpCommit(w) /\ ~UNCHANGED <<entity, holder, host>>
  <2>1. PICK e \in Entities, l \in Legal : CreateEntity(e, l, dom[w], flag[w])
    BY <1>4 DEF WrpCommit, entityVars
  <2>2. Guarded(dom[w], l)
    BY <1>4 DEF WrpCommit, HostInv, Guarded
  <2>3. QED BY <1>1, <2>1, <2>2, CreatedHosts, Answered
<1>5. QED BY <1>2, <1>3, <1>4

\* PUT may insert a deleted entity again; its host was compared when it was loaded.
LEMMA PutHosts ==
    ASSUME RegInv, NEW w \in Workers, HostInv(w), PutSave(w)
    PROVE  HostInv(w)'
<1>1. Finish(w) /\ pc[w] = "put" /\ holder' = holder
  BY DEF PutSave
<1>2. CASE UNCHANGED <<entity, host>>
  BY <1>1, <1>2, Answered DEF HostInv, SharedOnlyFree, Registered
<1>3. CASE SaveLoaded(w)
  <2>1. ent[w] \in Entities /\ par[w] = holder[ent[w]]
    BY <1>1 DEF RegInv, RequestSound
  <2>2. /\ Registered' \subseteq Registered \cup {ent[w]} /\ host'[ent[w]] = dom[w]
        /\ \A g \in Registered \ {ent[w]} : host'[g] = host[g]
    BY <1>3, <2>1 DEF SaveLoaded, Registered, RegInv, RegTypeOK
  <2>3. Guarded(dom[w], par[w]) /\ SharedOnlyFree
    BY <1>1 DEF HostInv
  <2>4. SharedOnlyFree'
    BY <1>1, <2>1, <2>2, <2>3, RowSaved
  <2>5. QED BY <1>1, <2>4, Answered
<1>4. QED BY <1>2, <1>3 DEF PutSave

\* An administrator keeps the host of an entity or enters one of FreeHosts.
LEMMA EditHosts ==
    ASSUME RegInv, NEW w \in Workers, HostInv(w), NEW e \in Entities, AdminEdit(e)
    PROVE  HostInv(w)'
<1>1. PICK h \in FreeHosts \cup {host[e]} : host' = [host EXCEPT ![e] = h]
  BY DEF AdminEdit
<1>2. /\ Registered' = Registered /\ e \in Registered /\ holder' = holder
      /\ pc' = pc /\ dom' = dom /\ par' = par
  BY DEF AdminEdit, Registered, workerVars
<1>3. host'[e] = h /\ \A g \in Registered \ {e} : host'[g] = host[g]
  BY <1>1, <1>2 DEF RegInv, RegTypeOK, Registered
<1>4. SharedOnlyFree'
  <2>1. Guarded(h, holder[e])
    BY <1>1, <1>2 DEF Guarded, HostInv, SharedOnlyFree
  <2>2. QED BY <1>2, <1>3, <2>1, RowSaved DEF HostInv
<1>5. ASSUME Guarded(dom[w], par[w]) PROVE Guarded(dom[w], par[w])'
  BY <1>1, <1>2, <1>3, <1>5 DEF Guarded
<1>6. QED BY <1>2, <1>4, <1>5 DEF HostInv

\* Fewer rows share fewer hosts.
LEMMA RemoveHosts ==
    ASSUME NEW w \in Workers, HostInv(w), NEW gone, Remove(gone), UNCHANGED workerVars
    PROVE  HostInv(w)'
<1>1. Registered' \subseteq Registered /\ host' = host /\ holder' = holder
  BY DEF Remove, Registered
<1>2. QED BY <1>1 DEF HostInv, SharedOnlyFree, Guarded, workerVars

LEMMA NextHosts ==
    ASSUME RegInv, NEW w \in Workers, Workers = {w}, HostInv(w), [Next]_vars
    PROVE  HostInv(w)'
<1>1. ASSUME NEW v \in Workers,
             \/ LegalCreate(v) \/ FormSubmit(v) \/ WrpPost(v) \/ PutLoad(v)
             \/ Advance(v) \/ Crash(v)
      PROVE  HostInv(w)'
  <2>1. v = w
    OBVIOUS
  <2>2. CASE Crash(w)
    BY <2>2, FinishHosts DEF Crash
  <2>3. QED BY <1>1, <2>1, <2>2, ReadHosts, StoreHosts, PutHosts DEF Advance
<1>2. ASSUME NEW e \in Entities, AdminEdit(e) \/ DeleteEntity(e) \/ \E x \in Entities : AdminUse(e, x)
      PROVE  HostInv(w)'
  <2>1. CASE DeleteEntity(e)
    BY <2>1, RemoveHosts DEF DeleteEntity
  <2>2. CASE \E x \in Entities : AdminUse(e, x)
    BY <2>2 DEF AdminUse, HostInv, SharedOnlyFree, Guarded, Registered, workerVars
  <2>3. QED BY <1>2, <2>1, <2>2, EditHosts
<1>3. ASSUME NEW l \in Legal, DeleteLegal(l) PROVE HostInv(w)'
  BY <1>3, RemoveHosts DEF DeleteLegal
<1>4. CASE UNCHANGED vars
  BY <1>4 DEF vars, entityVars, workerVars, HostInv, SharedOnlyFree, Guarded, Registered
<1>5. QED BY <1>1, <1>2, <1>3, <1>4 DEF Next

\* With one process, two legal entities come to have one host only by the ways
\* that never compare it, POST and PUT /wrp and the admin forms: neither a crash
\* nor a deletion or a stale save between the check and the insert brings it about.
THEOREM FormGuardsHosts ==
    ASSUME NEW w, Workers = {w}
    PROVE  Spec => []SharedOnlyFree
<1>1. Init => HostInv(w)
  BY DEF Init, HostInv, SharedOnlyFree, Registered
<1>2. RegInv /\ HostInv(w) /\ [Next]_vars => HostInv(w)'
  BY NextHosts
<1>3. HostInv(w) => SharedOnlyFree
  BY DEF HostInv
<1>4. QED BY <1>1, <1>2, <1>3, RegInvAlways, PTL DEF Spec

\* The rule of the guard's comment holds where the form is the only way in and one
\* process answers. Two forms could pass the guard side by side, and the run that
\* violates the rule takes the WRP API, where nothing is compared.
THEOREM OneLegalEntityPerHost ==
    ASSUME NEW w, Workers = {w}, FreeHosts = {}
    PROVE  Spec => []HostOfOneLegalEntity
<1>1. SharedOnlyFree => HostOfOneLegalEntity
  BY DEF SharedOnlyFree, HostOfOneLegalEntity
<1>2. QED BY <1>1, FormGuardsHosts, PTL
=============================================================================
