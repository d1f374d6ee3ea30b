------------------------- MODULE LoteSource_proofs -------------------------
(***************************************************************************)
(* Proofs about LoteSource, for any sets of entities, certificates and     *)
(* workers and for one list or both.                                       *)
(*                                                                         *)
(* A fetch only reads, so SigningInv stays inductive.  Beyond the types,   *)
(* the second query is what matters: it looks for the certificates as they *)
(* are when the list is built, and the first query contributed statuses.   *)
(***************************************************************************)
EXTENDS LoteSource, SigningCertificates_proofs

LEMMA InitLote == LoteInit => SigningInv /\ LoteTypeOK
<1> SUFFICES ASSUME LoteInit PROVE SigningInv /\ LoteTypeOK
  OBVIOUS
<1>1. SigningInv /\ SigningTypeOK
  BY InitSigning DEF LoteInit, SigningInv
<1>2. QED BY <1>1 DEF LoteInit, LoteTypeOK

\* What a list may say of an entity.
EntryRow == [cert : Certs, service : {"absent", "notified", "withdrawn"}]

\* An entry is empty, or it has a certificate that is current and not revoked.
LEMMA EntrySound ==
    ASSUME NEW t \in Lists, NEW e \in Entities, NEW s
    PROVE  \/ Entry(t, e, s) = NoEntry
           \/ /\ Entry(t, e, s) \in EntryRow
              /\ Entry(t, e, s).cert \in Listed(t, e)
<1>1. CASE Entry(t, e, s) = NoEntry
  BY <1>1
<1>2. CASE s # "none" /\ Listed(t, e) # {}
  <2>1. PICK c \in Listed(t, e) : c = CHOOSE d \in Listed(t, e) : TRUE
    BY <1>2
  <2>2. c \in Certs
    BY <2>1 DEF Listed, CurrentFor, RowsFor, Stored
  <2>3. ServiceStatus(t, s) \in {"absent", "notified", "withdrawn"}
    BY DEF ServiceStatus
  <2>4. Entry(t, e, s) = [cert |-> c, service |-> ServiceStatus(t, s)]
    BY <1>2, <2>1 DEF Entry
  <2>5. QED BY <2>1, <2>2, <2>3, <2>4 DEF EntryRow
<1>3. QED BY <1>1, <1>2 DEF Entry

LEMMA NextLote ==
    ASSUME SigningInv, LoteTypeOK, [LoteNext]_allVars
    PROVE  SigningInv' /\ LoteTypeOK'
<1>1. SigningInv'
  <2>1. [Next]_vars
    BY DEF LoteNext, Fetch, SelectEntities, PublishList, allVars
  <2>2. QED BY <2>1, NextSigning
<1>2. SigningTypeOK'
  BY <1>1 DEF SigningInv
<1>3. CASE UNCHANGED loteVars
  BY <1>1, <1>2, <1>3 DEF LoteTypeOK, loteVars
<1>4. ASSUME NEW t \in Lists, SelectEntities(t) PROVE LoteTypeOK'
  <2>1. [e \in Entities |-> IF e \in Selectable(t) THEN status[e] ELSE "none"]
            \in [Entities -> {"none", "active", "revoked"}]
    BY DEF Selectable, Listable
  <2>2. QED BY <1>2, <1>4, <2>1 DEF LoteTypeOK, SelectEntities
<1>5. ASSUME NEW t \in Lists, PublishList(t) PROVE LoteTypeOK'
  <2>1. [e \in Entities |-> Entry(t, e, selected[t][e])]
            \in [Entities -> EntryRow \cup {NoEntry}]
    BY EntrySound
  <2>2. QED BY <1>2, <1>5, <2>1 DEF LoteTypeOK, PublishList, EntryRow
<1>6. QED BY <1>1, <1>3, <1>4, <1>5 DEF LoteNext, Fetch, allVars

\* The invariant of the uploads, and the types of what is fetched, always hold.
THEOREM LoteInvAlways == LoteSpec => [](SigningInv /\ LoteTypeOK)
BY InitLote, NextLote, PTL DEF LoteSpec

\* The published lists and the request under way keep their types.
THEOREM LoteTypeOKAlways == LoteSpec => []LoteTypeOK
BY LoteInvAlways, PTL

\* Next to the fetches, too, replacing a certificate leaves an issuer a current one.
THEOREM ListedIssuersKeepCurrent == LoteSpec => []HasCurrentSigning
BY LoteInvAlways, PTL DEF SigningInv

LEMMA NotRelisted ==
    ASSUME SigningInv, LoteTypeOK, [LoteNext]_allVars,
           NEW t \in Lists, NEW e \in Entities, published'[t][e] # published[t][e]
    PROVE  published'[t][e].cert \notin revoked
<1>1. PICK u \in Lists : PublishList(u)
  BY DEF LoteNext, Fetch, SelectEntities, loteVars, allVars
<1>2. u = t /\ published'[t][e] = Entry(t, e, selected[t][e])
  BY <1>1 DEF PublishList, LoteTypeOK
<1>3. NoCert \notin revoked
  BY SigningSentinels DEF LoteTypeOK, SigningTypeOK
<1>4. QED BY <1>2, <1>3, EntrySound DEF Listed, NoEntry

\* No fetch ever puts a revoked certificate on a list.
THEOREM RevokedNeverRelistedAlways == LoteSpec => RevokedNeverRelisted
<1>1. SigningInv /\ LoteTypeOK /\ [LoteNext]_allVars
      => [\A t \in Lists, e \in Entities :
            published'[t][e] # published[t][e] => published'[t][e].cert \notin revoked]_allVars
  BY NotRelisted
<1>2. QED BY <1>1, LoteInvAlways, PTL DEF LoteSpec, RevokedNeverRelisted
=============================================================================
