---------------------------- MODULE Registration ----------------------------
(***************************************************************************)
(* Legal entities, the entities registered for them, their hosts and the   *)
(* intermediaries they use: the registration form and JSON endpoint, the   *)
(* WRP API, admin forms and deletions, served by several processes.  One   *)
(* step of a worker is one read of the database or one commit to it.       *)
(***************************************************************************)
EXTENDS Naturals, FiniteSets

CONSTANTS
    Entities,     \* RegisteredEntity rows that may be created
    Legal,        \* LegalEntity rows that may be created
    Identifiers,  \* values of primary identifiers
    Hosts,        \* hosts of domain_uri
    Workers,      \* uwsgi processes
    NoEntity, NoLegal, NoIdentifier, NoHost,
    FormHosts,    \* hosts registered through the form or its JSON endpoint
    FreeHosts,    \* hosts sent to the WRP API and entered by administrators
    AdminUses,    \* pairs an administrator enters as entity and intermediary
    CrashAt       \* the program counters a worker may be killed at

ASSUME RegistrationSentinels ==
    /\ NoEntity \notin Entities /\ NoLegal \notin Legal
    /\ NoIdentifier \notin Identifiers /\ NoHost \notin Hosts
ASSUME RegistrationInputs ==
    /\ FormHosts \subseteq Hosts /\ FreeHosts \subseteq Hosts
    /\ AdminUses \subseteq Entities \X Entities

VARIABLES
    \* the database
    party,        \* LegalEntity: no row yet, stored, deleted
    identifier,   \* its primary identifier
    linked,       \* legal entities with their LegalEntityIdentifier row
    entity,       \* RegisteredEntity: no row yet, registered, deleted
    holder,       \* its legal entity
    host,         \* the host of its domain_uri
    intermediary, \* entities with is_intermediary
    uses,         \* EntityUsesIntermediary: entity, intermediary
    \* the workers
    pc,
    ent,          \* PUT: the entity loaded
    par,          \* the legal entity of the request
    dom,          \* the host to be stored
    flag,         \* is_intermediary to be stored
    ident,        \* POST /wrp: the primary identifier
    want          \* POST /wrp: the intermediaries found

partyVars  == <<party, identifier, linked>>
entityVars == <<entity, holder, host, intermediary, uses>>
workerVars == <<pc, ent, par, dom, flag, ident, want>>
vars       == <<partyVars, entityVars, workerVars>>

PC == {"idle",
       "linking",    \* the legal entity is stored, its identifier link is due
       "form",       \* the registration form is to be validated
       "validated",  \* it passed the domain guard
       "posting",    \* transaction of POST /wrp, everything looked up
       "put"}        \* PUT /wrp: the instance is in memory

Rows     == {"unused", "stored", "deleted"}
Stored   == {l \in Legal : party[l] = "stored"}
Registered == {e \in Entities : entity[e] = "stored"}

Init ==
    /\ party        = [l \in Legal |-> "unused"]
    /\ identifier   = [l \in Legal |-> NoIdentifier]
    /\ linked       = {}
    /\ entity       = [e \in Entities |-> "unused"]
    /\ holder       = [e \in Entities |-> NoLegal]
    /\ host         = [e \in Entities |-> NoHost]
    /\ intermediary = {}
    /\ uses         = {}
    /\ pc           = [w \in Workers |-> "idle"]
    /\ ent          = [w \in Workers |-> NoEntity]
    /\ par          = [w \in Workers |-> NoLegal]
    /\ dom          = [w \in Workers |-> NoHost]
    /\ flag         = [w \in Workers |-> FALSE]
    /\ ident        = [w \in Workers |-> NoIdentifier]
    /\ want         = [w \in Workers |-> {}]

\* The response is sent, the request raised, or the worker was killed.
Finish(w) ==
    /\ pc'    = [pc EXCEPT ![w] = "idle"]
    /\ ent'   = [ent EXCEPT ![w] = NoEntity]
    /\ par'   = [par EXCEPT ![w] = NoLegal]
    /\ dom'   = [dom EXCEPT ![w] = NoHost]
    /\ flag'  = [flag EXCEPT ![w] = FALSE]
    /\ ident' = [ident EXCEPT ![w] = NoIdentifier]
    /\ want'  = [want EXCEPT ![w] = {}]

\* RegisteredEntity.objects.create
CreateEntity(e, l, h, f) ==
    /\ entity[e] = "unused"
    /\ entity' = [entity EXCEPT ![e] = "stored"]
    /\ holder' = [holder EXCEPT ![e] = l]
    /\ host' = [host EXCEPT ![e] = h]
    /\ intermediary' = IF f THEN intermediary \cup {e} ELSE intermediary

(***************************************************************************)
(* The registration form and its JSON endpoint                             *)
(***************************************************************************)

\* A legal entity is created, by its own form (no host) or by the first part of
\* the registration form. Its identifier may be another one's: get_or_create.
LegalCreate(w) ==
    /\ pc[w] = "idle"
    /\ \E l \in Legal, i \in Identifiers :
        /\ party[l] = "unused"
        /\ party' = [party EXCEPT ![l] = "stored"]
        /\ identifier' = [identifier EXCEPT ![l] = i]
        /\ par' = [par EXCEPT ![w] = l]
    /\ \E h \in FormHosts \cup {NoHost} : dom' = [dom EXCEPT ![w] = h]
    /\ pc' = [pc EXCEPT ![w] = "linking"]
    /\ UNCHANGED <<linked, entityVars, ent, flag, ident, want>>

\* The statement after it, in autocommit: the link raises if the row is gone.
LegalLink(w) ==
    /\ pc[w] = "linking"
    /\ linked' = IF par[w] \in Stored THEN linked \cup {par[w]} ELSE linked
    /\ IF par[w] \in Stored /\ dom[w] # NoHost
       THEN /\ pc' = [pc EXCEPT ![w] = "form"]
            /\ UNCHANGED <<ent, par, dom, flag, ident, want>>
       ELSE Finish(w)
    /\ UNCHANGED <<party, identifier, entityVars>>

\* Mutant of FormSubmit: domain_uri is optional.
FormSubmitOptional(w) ==
    /\ pc[w] = "idle"
    /\ \E l \in Stored : par' = [par EXCEPT ![w] = l]
    /\ \E h \in FormHosts \cup {NoHost} : dom' = [dom EXCEPT ![w] = h]
    /\ pc' = [pc EXCEPT ![w] = "form"]
    /\ UNCHANGED <<partyVars, entityVars, ent, flag, ident, want>>

\* A registration for a legal entity chosen from the list.
FormSubmit(w) ==
    /\ pc[w] = "idle"
    /\ \E l \in Stored : par' = [par EXCEPT ![w] = l]
    /\ \E h \in FormHosts : dom' = [dom EXCEPT ![w] = h]
    /\ pc' = [pc EXCEPT ![w] = "form"]
    /\ UNCHANGED <<partyVars, entityVars, ent, flag, ident, want>>

\* The host is registered for another legal entity.
Claimed(h, l) == \E e \in Registered : host[e] = h /\ holder[e] # l

\* RegisteredEntitySerializer.validate. A rejected form leaves the legal entity
\* its first part has created.
FormValidate(w) ==
    /\ pc[w] = "form"
    /\ IF par[w] \in Stored /\ ~Claimed(dom[w], par[w])
       THEN /\ pc' = [pc EXCEPT ![w] = "validated"]
            /\ \E f \in BOOLEAN : flag' = [flag EXCEPT ![w] = f]
            /\ UNCHANGED <<ent, par, dom, ident, want>>
       ELSE Finish(w)
    /\ UNCHANGED <<partyVars, entityVars>>

\* perform_create, one transaction. A legal entity deleted meanwhile raises.
FormStore(w) ==
    /\ pc[w] = "validated"
    /\ IF par[w] \in Stored
       THEN \E e \in Entities : CreateEntity(e, par[w], dom[w], flag[w])
       ELSE UNCHANGED <<entity, holder, host, intermediary>>
    /\ Finish(w)
    /\ UNCHANGED <<partyVars, uses>>

(***************************************************************************)
(* The WRP API                                                             *)
(***************************************************************************)

\* The intermediaries of a POST that exist as such; others are skipped.
Intermediaries == Registered \cap intermediary

\* POST /wrp: the serializer rejects an intermediary that uses others, the
\* transaction looks the legal entity up by its primary identifier, and the
\* intermediaries. Nothing compares the host with those of others.
WrpPost(w) ==
    /\ pc[w] = "idle"
    /\ \E i \in Identifiers, h \in FreeHosts, f \in BOOLEAN, x \in SUBSET Intermediaries :
        /\ ~(f /\ x # {})
        /\ ident' = [ident EXCEPT ![w] = i]
        /\ dom' = [dom EXCEPT ![w] = h]
        /\ flag' = [flag EXCEPT ![w] = f]
        /\ want' = [want EXCEPT ![w] = x]
        /\ LET known == {l \in Stored : identifier[l] = i}
           IN IF known = {} THEN par' = [par EXCEPT ![w] = NoLegal]
              ELSE \E l \in known : par' = [par EXCEPT ![w] = l]
    /\ pc' = [pc EXCEPT ![w] = "posting"]
    /\ UNCHANGED <<partyVars, entityVars, ent>>

\* Mutant of PostParty: the identifier is not linked.
PostPartyUnlinked(w, l) ==
    IF par[w] = NoLegal
    THEN /\ party[l] = "unused"
         /\ party' = [party EXCEPT ![l] = "stored"]
         /\ identifier' = [identifier EXCEPT ![l] = ident[w]]
         /\ UNCHANGED linked
    ELSE /\ l = par[w]
         /\ UNCHANGED partyVars

\* The legal entity of a POST: the one found, or a new one with its link.
PostParty(w, l) ==
    IF par[w] = NoLegal
    THEN /\ party[l] = "unused"
         /\ party' = [party EXCEPT ![l] = "stored"]
         /\ identifier' = [identifier EXCEPT ![l] = ident[w]]
         /\ linked' = linked \cup {l}
    ELSE /\ l = par[w]
         /\ UNCHANGED partyVars

\* Commit. A legal entity or intermediary deleted meanwhile raises (foreign keys).
WrpCommit(w) ==
    /\ pc[w] = "posting"
    /\ IF par[w] \in Stored \cup {NoLegal} /\ want[w] \subseteq Registered
       THEN \E e \in Entities, l \in Legal :
                /\ PostParty(w, l)
                /\ CreateEntity(e, l, dom[w], flag[w])
                /\ uses' = uses \cup {<<e, x>> : x \in want[w]}
       ELSE UNCHANGED <<partyVars, entityVars>>
    /\ Finish(w)

\* Mutant of PutLoad: any identifier is taken for one of an entity.
PutLoadUnchecked(w) ==
    /\ pc[w] = "idle"
    /\ \E e \in Entities :
        /\ ent' = [ent EXCEPT ![w] = e]
        /\ par' = [par EXCEPT ![w] = holder[e]]
        /\ \E h \in FreeHosts \cup {host[e]} : dom' = [dom EXCEPT ![w] = h]
    /\ \E f \in BOOLEAN : flag' = [flag EXCEPT ![w] = f]
    /\ pc' = [pc EXCEPT ![w] = "put"]
    /\ UNCHANGED <<partyVars, entityVars, ident, want>>

\* PUT /wrp loads the instance and changes some of its fields in memory.
PutLoad(w) ==
    /\ pc[w] = "idle"
    /\ \E e \in Registered :
        /\ ent' = [ent EXCEPT ![w] = e]
        /\ par' = [par EXCEPT ![w] = holder[e]]
        /\ \E h \in FreeHosts \cup {host[e]} : dom' = [dom EXCEPT ![w] = h]
    /\ \E f \in BOOLEAN : flag' = [flag EXCEPT ![w] = f]
    /\ pc' = [pc EXCEPT ![w] = "put"]
    /\ UNCHANGED <<partyVars, entityVars, ident, want>>

\* The columns a save() of the loaded instance writes.
SaveLoaded(w) ==
    /\ host' = [host EXCEPT ![ent[w]] = dom[w]]
    /\ intermediary' = IF flag[w] THEN intermediary \cup {ent[w]}
                       ELSE intermediary \ {ent[w]}
    /\ entity' = [entity EXCEPT ![ent[w]] = "stored"]

\* Mutant of PutSave: uses_intermediaries of the request is honoured.
PutSaveUses(w) ==
    /\ pc[w] = "put"
    /\ IF par[w] \in Stored
       THEN /\ SaveLoaded(w)
            /\ uses' = uses \cup {<<ent[w], x>> : x \in Intermediaries \ {ent[w]}}
       ELSE UNCHANGED <<entity, host, intermediary, uses>>
    /\ Finish(w)
    /\ UNCHANGED <<partyVars, holder>>

\* instance.save(): all columns, so that an entity deleted meanwhile is inserted
\* again unless its legal entity is gone. uses_intermediaries is ignored.
PutSave(w) ==
    /\ pc[w] = "put"
    /\ IF par[w] \in Stored
       THEN SaveLoaded(w)
       ELSE UNCHANGED <<entity, host, intermediary>>
    /\ Finish(w)
    /\ UNCHANGED <<partyVars, holder, uses>>

(***************************************************************************)
(* Administrators, deletions, crashes                                      *)
(***************************************************************************)

\* An admin form sets is_intermediary and the host; clean() looks at the rows of
\* uses, and at no other host.
AdminEdit(e) ==
    /\ e \in Registered
    /\ \/ /\ \A x \in Entities : <<e, x>> \notin uses
          /\ intermediary' = intermediary \cup {e}
       \/ intermediary' = intermediary \ {e}
    /\ \E h \in FreeHosts \cup {host[e]} : host' = [host EXCEPT ![e] = h]
    /\ UNCHANGED <<partyVars, entity, holder, uses, workerVars>>

\* ... and adds an inline; its clean() does not ask whether x is an intermediary.
AdminUse(e, x) ==
    /\ <<e, x>> \in AdminUses
    /\ {e, x} \subseteq Registered
    /\ e # x
    /\ e \notin intermediary
    /\ uses' = uses \cup {<<e, x>>}
    /\ UNCHANGED <<partyVars, entity, holder, host, intermediary, workerVars>>

\* What a deletion of the entities in gone takes with it.
Remove(gone) ==
    /\ entity' = [e \in Entities |-> IF e \in gone THEN "deleted" ELSE entity[e]]
    /\ intermediary' = intermediary \ gone
    /\ uses' = {p \in uses : p[1] \notin gone /\ p[2] \notin gone}
    /\ UNCHANGED <<holder, host>>

DeleteEntity(e) ==
    /\ e \in Registered
    /\ Remove({e})
    /\ UNCHANGED <<partyVars, workerVars>>

\* DELETE of a legal entity, by any authenticated user; entities cascade.
DeleteLegal(l) ==
    /\ l \in Stored
    /\ party' = [party EXCEPT ![l] = "deleted"]
    /\ linked' = linked \ {l}
    /\ Remove({e \in Registered : holder[e] = l})
    /\ UNCHANGED <<identifier, workerVars>>

Crash(w) ==
    /\ pc[w] \in CrashAt \ {"idle"}
    /\ Finish(w)
    /\ UNCHANGED <<partyVars, entityVars>>

Advance(w) ==
    \/ LegalLink(w)
    \/ FormValidate(w)
    \/ FormStore(w)
    \/ WrpCommit(w)
    \/ PutSave(w)

Next ==
    \/ \E w \in Workers :
        \/ LegalCreate(w)
        \/ FormSubmit(w)
        \/ WrpPost(w)
        \/ PutLoad(w)
        \/ Advance(w)
        \/ Crash(w)
    \/ \E e \in Entities :
        \/ AdminEdit(e)
        \/ DeleteEntity(e)
        \/ \E x \in Entities : AdminUse(e, x)
    \/ \E l \in Legal : DeleteLegal(l)

Spec == Init /\ [][Next]_vars

-----------------------------------------------------------------------------
(***************************************************************************)
(* Properties                                                              *)
(***************************************************************************)

\* The columns and the locals of the requests have their types; an entity has a
\* legal entity and a domain_uri, whichever way it was created or re-inserted.
RegTypeOK ==
    /\ party \in [Legal -> Rows]
    /\ identifier \in [Legal -> Identifiers \cup {NoIdentifier}]
    /\ linked \subseteq Legal
    /\ entity \in [Entities -> Rows]
    /\ holder \in [Entities -> Legal \cup {NoLegal}]
    /\ host \in [Entities -> Hosts \cup {NoHost}]
    /\ \A e \in Entities : entity[e] # "unused" => holder[e] \in Legal /\ host[e] \in Hosts
    /\ intermediary \subseteq Entities
    /\ uses \subseteq Entities \X Entities
    /\ pc \in [Workers -> PC]
    /\ ent \in [Workers -> Entities \cup {NoEntity}]
    /\ par \in [Workers -> Legal \cup {NoLegal}]
    /\ dom \in [Workers -> Hosts \cup {NoHost}]
    /\ flag \in [Workers -> BOOLEAN]
    /\ ident \in [Workers -> Identifiers \cup {NoIdentifier}]
    /\ want \in [Workers -> SUBSET Entities]

\* Writing out an entity with the intermediaries it uses, and theirs, comes to an
\* end: PUT may turn any entity into an intermediary, deletions and insertions
\* race, but no chain of uses closes to a cycle. Administrators may close one, so
\* the pairs they enter are not counted.
UsesAcyclic ==
    \A S \in SUBSET Entities : S # {} =>
        \E e \in S : \A x \in S : <<e, x>> \notin uses \ AdminUses

\* A registered entity can be found by the identifier of its legal entity, unless
\* the request that creates the legal entity is still to link it: an entity may
\* be registered for it, and it may be deleted, before that.
EntitiesFindable ==
    \A e \in Registered :
        \/ holder[e] \in linked
        \/ \E w \in Workers : pc[w] = "linking" /\ par[w] = holder[e]

\* What a request may rely on, although it read the database some steps ago.
RequestSound(w) ==
    /\ pc[w] \in {"linking", "form", "validated"} =>
          par[w] \in Legal /\ party[par[w]] # "unused"
    /\ pc[w] \in {"form", "validated", "posting", "put"} => dom[w] \in Hosts
    /\ pc[w] = "posting" => ident[w] \in Identifiers
    /\ pc[w] = "put" => ent[w] \in Entities /\ par[w] = holder[ent[w]]
                        /\ entity[ent[w]] # "unused"

\* The inductive invariant behind UsesAcyclic: uses relates registered entities,
\* and an entity not yet registered has nothing.
RegInv ==
    /\ RegTypeOK
    /\ \A w \in Workers : RequestSound(w)
    /\ \A e \in Registered : holder[e] \in Stored
    /\ uses \subseteq Registered \X Registered
    /\ UsesAcyclic

\* "Two distinct legal entities must not both claim the same domain."
HostOfOneLegalEntity ==
    \A e, f \in Registered : host[e] = host[f] => holder[e] = holder[f]

=============================================================================
