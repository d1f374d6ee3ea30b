----------------------------- MODULE LoteSource -----------------------------
(***************************************************************************)
(* The unsigned Lists of Trusted Entities of PID and PuB-EAA providers,    *)
(* built on request from the database and fetched again and again by       *)
(* tsl-tool, which signs and publishes what it got.  A response is built   *)
(* from two queries in autocommit: the entities with their status, then    *)
(* (prefetch_related) their signing certificates.                          *)
(***************************************************************************)
EXTENDS SigningCertificates

CONSTANT Lists   \* the entitlement types whose list is fetched

ASSUME ListsAssumption ==
    Lists \subseteq {"PID_Provider", "PUB_EAA_Provider"} \cap Issuers

VARIABLES
    fetching,    \* the lists whose request has run its first query
    selected,    \* per list: the status of each entity that query returned
    published    \* per list: the last fetched entry of each entity

loteVars == <<fetching, selected, published>>
allVars  == <<vars, loteVars>>

\* Mutant of Listable: one filter for both lists.
ListableAlike(t) == {"active", "revoked"}

\* The registration statuses a list is filtered on.
Listable(t) == IF t = "PID_Provider" THEN {"active"} ELSE {"active", "revoked"}

\* The entities of the first query; is_active of the entitlement is not asked.
Selectable(t) == {e \in Entities : status[e] \in Listable(t) /\ t \in Entitled(e)}

\* Mutant of ServiceStatus: the registration status itself is published.
ServiceStatusRaw(t, s) == IF t = "PID_Provider" THEN "absent" ELSE s

\* ServiceStatus of an entry; absent from the PID profile.
ServiceStatus(t, s) ==
    IF t = "PID_Provider" THEN "absent"
    ELSE IF s = "active" THEN "notified" ELSE "withdrawn"

\* Mutant of Listed: any certificate of the entity for that type will do.
ListedAny(t, e) == RowsFor(e, t)

\* _service_digital_identity: the current certificate of the type, not revoked.
Listed(t, e) == CurrentFor(e, t) \ revoked

NoEntry == [cert |-> NoCert, service |-> "none"]

\* _build_entity, for the status s the first query returned: nothing without a
\* signing certificate.
Entry(t, e, s) ==
    IF s # "none" /\ Listed(t, e) # {}
    THEN [cert |-> CHOOSE c \in Listed(t, e) : TRUE, service |-> ServiceStatus(t, s)]
    ELSE NoEntry

LoteInit ==
    /\ Init
    /\ fetching = {}
    /\ selected = [t \in Lists |-> [e \in Entities |-> "none"]]
    /\ published = [t \in Lists |-> [e \in Entities |-> NoEntry]]

\* The request's first query.
SelectEntities(t) ==
    /\ t \notin fetching
    /\ fetching' = fetching \cup {t}
    /\ selected' = [selected EXCEPT ![t] =
            [e \in Entities |-> IF e \in Selectable(t) THEN status[e] ELSE "none"]]
    /\ UNCHANGED <<vars, published>>

\* Its prefetch of the certificates; the response replaces what was published.
PublishList(t) ==
    /\ t \in fetching
    /\ fetching' = fetching \ {t}
    /\ published' = [published EXCEPT ![t] =
            [e \in Entities |-> Entry(t, e, selected[t][e])]]
    /\ selected' = [selected EXCEPT ![t] = [e \in Entities |-> "none"]]
    /\ UNCHANGED vars

Fetch(t) == SelectEntities(t) \/ PublishList(t)

LoteNext ==
    \/ Next /\ UNCHANGED loteVars
    \/ \E t \in Lists : Fetch(t)

LoteSpec == LoteInit /\ [][LoteNext]_allVars

\* tsl-tool keeps fetching; nothing else is obliged to happen.
LoteFairSpec == LoteSpec /\ \A t \in Lists : WF_allVars(Fetch(t))

-----------------------------------------------------------------------------
(***************************************************************************)
(* Properties                                                              *)
(***************************************************************************)

\* The published lists and the request under way have their types.
LoteTypeOK ==
    /\ SigningTypeOK
    /\ fetching \subseteq Lists
    /\ selected \in [Lists -> [Entities -> {"none", "active", "revoked"}]]
    /\ published \in [Lists -> [Entities ->
            [cert : Certs, service : {"absent", "notified", "withdrawn"}] \cup {NoEntry}]]

\* A fetch never puts a revoked certificate on a list, whatever its first query
\* saw: the one that is there may only stay until the next fetch.
RevokedNeverRelisted ==
    [][\A t \in Lists, e \in Entities :
        published'[t][e] # published[t][e] => published'[t][e].cert \notin revoked]_allVars

\* An issuer that stays active and entitled and keeps its certificate comes to
\* be listed with it, and stays: uploads, revocations, a fetch in the middle of
\* a PUT and a fetch between two edits delay it, but are made good.
ProvidersGetListed ==
    \A t \in Lists, e \in Entities, c \in Certs :
        <>[](status[e] = "active" /\ entitlement[<<e, t>>] = "active" /\ row[c] = "current"
             /\ holder[c] = e /\ kind[c] = t)
            => <>[](published[t][e].cert = c /\ published[t][e].service # "withdrawn")

\* What is no longer to be trusted leaves the lists: the PID provider that stays
\* out of the active status, the notified entry of a PuB-EAA provider, and every
\* revoked certificate.
UntrustedLeaveLists ==
    \A t \in Lists, e \in Entities :
        /\ <>[](status[e] # "active") =>
               <>[](published[t][e].service \notin {"absent", "notified"})
        /\ \A c \in Certs : [](c \in revoked => <>(published[t][e].cert # c))

(***************************************************************************)
(* What a comment says of the list, and the program does not do            *)
(***************************************************************************)

\* "Revoked entities remain permanently as withdrawn": the entry of an entity
\* that is still registered as revoked stays on the list of PuB-EAA providers.
WithdrawnIsPermanent ==
    [][\A e \in Entities :
        published["PUB_EAA_Provider"][e].service = "withdrawn" /\ status[e] = "revoked" =>
            published'["PUB_EAA_Provider"][e].service = "withdrawn"]_allVars

=============================================================================
