---------------------------- MODULE IntendedUses ----------------------------
(***************************************************************************)
(* Intended uses of a relying party: declared, revoked and checked over    *)
(* REST, edited in the admin site.  A declaration runs in autocommit, one  *)
(* insert after the other; with a new entity (POST /wrp) it is one         *)
(* transaction.  An admin form, and a deletion with its cascade, is one    *)
(* transaction, too.                                                       *)
(***************************************************************************)
EXTENDS Naturals, Sequences, FiniteSets

CONSTANTS
    Entities,       \* RegisteredEntity rows: primary keys, in their order
    Uses,           \* IntendedUse rows
    Policies,       \* Policy rows
    Workers,        \* processes that serve the requests
    Unused, Deleted,    \* in place of a row that is not there
    Nothing, Missing,
    EntityRows,     \* rows of entities, with the legal entity of each
    IdentifiersOf,  \* the identifiers of each legal entity
    Langs, Uris,
    Credentials,    \* contents of credentials: format, words of the meta data, claims
    Bodies,         \* declarations that are sent
    UseForms,       \* what the admin form of a use may be saved with
    Criteria,       \* what a check asks for; Nothing where it does not
    Start,          \* the rows the registry starts with
    LastDay, MaxWrites  \* bounds on the days and on the requests that write

VARIABLES
    entity, use, policy,
    purposes,       \* languages of the purposes of each use
    privacy,        \* links of each use to its privacy policies
    creds,          \* credentials linked to each use
    req,            \* the request each worker serves
    answer,         \* what a check answers in this step
    today,
    cut,            \* uses known to be incomplete: see UseHasParts
    revoked,        \* uses that were revoked, and not saved by an administrator since
    writes

useVars == <<use, policy, purposes, privacy, creds, cut, revoked>>

Absent == {Unused, Deleted}
Days   == 1..LastDay
UseRow == [entity : Entities, start : Days, end : Days \cup {Nothing}]
Links  == [policy : Policies, primary : BOOLEAN]

\* A primary key is not given to another row.
ASSUME UsesSentinels ==
    /\ Unused # Deleted
    /\ Nothing \notin Uses /\ Nothing \notin Days /\ Nothing # Missing
    /\ {Nothing, Missing} \cap Policies = {}
    /\ Absent \cap Uris = {} /\ Absent \cap EntityRows = {} /\ Absent \cap UseRow = {}

\* Declarations passed the serializers, which ask for each of the three parts.
ASSUME UsesInputs ==
    /\ IsFiniteSet(Workers) /\ Workers # {}
    /\ Bodies \subseteq [purposes : Seq(Langs) \ {<<>>}, credentials : Seq(Credentials) \ {<<>>},
                         policies : Seq([uri : Uris, primary : BOOLEAN]) \ {<<>>}]
    /\ UseForms \subseteq [start : Days, end : Days \cup {Nothing}, langs : SUBSET Langs]
    /\ \A c \in Criteria : DOMAIN c = {"id", "use", "format", "claim", "meta", "uri"}
    /\ LastDay \in Nat /\ MaxWrites \in Nat

\* The registry starts with complete intended uses, those of entities that are
\* there, and no URI in two rows.
ASSUME UsesStart ==
    /\ Start.entity \in [Entities -> EntityRows \cup Absent]
    /\ Start.use \in [Uses -> UseRow \cup Absent]
    /\ Start.policy \in [Policies -> Uris \cup Absent]
    /\ Start.purposes \in [Uses -> SUBSET Langs]
    /\ Start.privacy \in [Uses -> SUBSET Links]
    /\ Start.creds \in [Uses -> SUBSET Credentials]
    /\ Start.today \in Days
    /\ \A u \in Uses : Start.use[u] \notin Absent =>
           /\ Start.purposes[u] # {} /\ Start.creds[u] # {}
           /\ \E l \in Start.privacy[u] : l.primary
           /\ Start.entity[Start.use[u].entity] \notin Absent
    /\ \A j, k \in Policies : Start.policy[j] = Start.policy[k] /\ Start.policy[k] \in Uris => j = k

Present(table, k) == table[k] \notin Absent
RowsOf(uri) == {k \in Policies : policy[k] = uri}

Free == [at |-> "free", entity |-> Nothing, use |-> Nothing, todo |-> <<>>,
         found |-> Nothing, asked |-> Nothing]

UsesInit ==
    /\ entity = Start.entity /\ use = Start.use /\ policy = Start.policy
    /\ purposes = Start.purposes /\ privacy = Start.privacy /\ creds = Start.creds
    /\ req = [w \in Workers |-> Free]
    /\ answer = Nothing /\ today = Start.today /\ cut = {} /\ revoked = {} /\ writes = 0

Write == writes < MaxWrites /\ writes' = writes + 1

(***************************************************************************)
(* POST of an intended use                                                 *)
(***************************************************************************)

\* Mutant of Marked: a policy is primary only if it is marked.
MarkedNone(ps) == ps

\* Unless one is marked, the first privacy policy is the primary one.
Marked(ps) ==
    IF \E i \in DOMAIN ps : ps[i].primary THEN ps
    ELSE [i \in DOMAIN ps |-> [ps[i] EXCEPT !.primary = (i = 1)]]

Items(b) ==
    <<[kind |-> "use"]>>
    \o [i \in DOMAIN b.purposes |-> [kind |-> "purpose", lang |-> b.purposes[i]]]
    \o LET ps == Marked(b.policies)
       IN [i \in DOMAIN ps |-> [kind |-> "policy", uri |-> ps[i].uri, primary |-> ps[i].primary]]
    \o [i \in DOMAIN b.credentials |-> [kind |-> "credential", cred |-> b.credentials[i]]]

Declare(w, e, b) ==
    /\ req[w] = Free /\ Write
    /\ Present(entity, e)
    /\ req' = [req EXCEPT ![w] = [Free EXCEPT !.at = "declaring", !.entity = e, !.todo = Items(b)]]
    /\ UNCHANGED <<useVars, entity, today>>

Due(w, kind) == req[w].at = "declaring" /\ Head(req[w].todo).kind = kind

\* The insert is done; the request is answered after the last one.
Done(w, r) ==
    req' = [req EXCEPT ![w] =
        IF Len(r.todo) = 1 THEN Free ELSE [r EXCEPT !.todo = Tail(@), !.found = Nothing]]

Insert == UNCHANGED <<entity, today, writes>>

InsertUse(w) ==
    /\ Due(w, "use") /\ Present(entity, req[w].entity)
    /\ \E u \in Uses :
        /\ use[u] = Unused
        /\ use' = [use EXCEPT ![u] = [entity |-> req[w].entity, start |-> today, end |-> Nothing]]
        /\ Done(w, [req[w] EXCEPT !.use = u])
    /\ Insert /\ UNCHANGED <<policy, purposes, privacy, creds, cut, revoked>>

\* One purpose per language.
InsertPurpose(w) ==
    LET lang == Head(req[w].todo).lang  u == req[w].use
    IN /\ Due(w, "purpose") /\ Present(use, u) /\ lang \notin purposes[u]
       /\ purposes' = [purposes EXCEPT ![u] = @ \cup {lang}]
       /\ Done(w, req[w])
       /\ Insert /\ UNCHANGED <<use, policy, privacy, creds, cut, revoked>>

\* Mutant of Lookup: a row is made whether there is one or not.
LookupNone(uri) == Missing

\* The query of get_or_create, when it finds at most one row.
Lookup(uri) == IF RowsOf(uri) = {} THEN Missing ELSE CHOOSE k \in RowsOf(uri) : TRUE

FindPolicy(w) ==
    LET uri == Head(req[w].todo).uri
    IN /\ Due(w, "policy") /\ req[w].found = Nothing
       /\ Cardinality(RowsOf(uri)) <= 1
       /\ req' = [req EXCEPT ![w].found = Lookup(uri)]
       /\ Insert /\ UNCHANGED useVars

\* The URI is no key: two requests that both found none make two rows.
CreatePolicy(w) ==
    /\ Due(w, "policy") /\ req[w].found = Missing
    /\ \E k \in Policies :
        /\ policy[k] = Unused
        /\ policy' = [policy EXCEPT ![k] = Head(req[w].todo).uri]
        /\ req' = [req EXCEPT ![w].found = k]
    /\ Insert /\ UNCHANGED <<use, purposes, privacy, creds, cut, revoked>>

Linked(u, k) == \E l \in privacy[u] : l.policy = k

LinkPolicy(w) ==
    LET u == req[w].use  k == req[w].found
    IN /\ Due(w, "policy") /\ k \in Policies
       /\ Present(use, u) /\ Present(policy, k) /\ ~Linked(u, k)
       /\ privacy' = [privacy EXCEPT ![u] =
              @ \cup {[policy |-> k, primary |-> Head(req[w].todo).primary]}]
       /\ Done(w, req[w])
       /\ Insert /\ UNCHANGED <<use, policy, purposes, creds, cut, revoked>>

\* The credential and its claims are stored before the link shows them.
InsertCredential(w) ==
    LET u == req[w].use
    IN /\ Due(w, "credential") /\ Present(use, u)
       /\ creds' = [creds EXCEPT ![u] = @ \cup {Head(req[w].todo).cred}]
       /\ Done(w, req[w])
       /\ Insert /\ UNCHANGED <<use, policy, purposes, privacy, cut, revoked>>

\* A row is gone, a language or policy comes twice, or a URI has two rows.
Refused(r) ==
    LET i == Head(r.todo)
    IN \/ i.kind = "use" /\ ~Present(entity, r.entity)
       \/ i.kind # "use" /\ ~Present(use, r.use)
       \/ i.kind = "purpose" /\ Present(use, r.use) /\ i.lang \in purposes[r.use]
       \/ i.kind = "policy" /\ r.found = Nothing /\ Cardinality(RowsOf(i.uri)) > 1
       \/ i.kind = "policy" /\ r.found \in Policies
              /\ (~Present(policy, r.found) \/ Linked(r.use, r.found))

\* What was inserted stays.
Abort(w) ==
    /\ req[w].at = "declaring" /\ Refused(req[w])
    /\ req' = [req EXCEPT ![w] = Free]
    /\ cut' = cut \cup ({req[w].use} \ {Nothing})
    /\ Insert /\ UNCHANGED <<use, policy, purposes, privacy, creds, revoked>>

Crash(w) ==
    /\ req[w] # Free
    /\ req' = [req EXCEPT ![w] = Free]
    /\ cut' = IF req[w].at = "declaring" THEN cut \cup ({req[w].use} \ {Nothing}) ELSE cut
    /\ Insert /\ UNCHANGED <<use, policy, purposes, privacy, creds, revoked>>

(***************************************************************************)
(* POST /wrp: the entity with an intended use, in one transaction, which   *)
(* reads what others committed and shows what it wrote at its end          *)
(***************************************************************************)

Distinct(s) == \A i, j \in DOMAIN s : s[i] = s[j] => i = j
UrisOf(b)   == {b.policies[i].uri : i \in DOMAIN b.policies}

WrpLook(w, row, b) ==
    /\ req[w] = Free /\ Write
    /\ \A uri \in UrisOf(b) : Cardinality(RowsOf(uri)) <= 1
    /\ Distinct(b.purposes) /\ Distinct([i \in DOMAIN b.policies |-> b.policies[i].uri])
    /\ req' = [req EXCEPT ![w] = [Free EXCEPT !.at = "wrp", !.asked = [row |-> row, body |-> b],
                   !.found = [uri \in UrisOf(b) |-> Lookup(uri)]]]
    /\ UNCHANGED <<useVars, entity, today>>

WrpCommit(w) ==
    LET b == req[w].asked.body
        found == req[w].found
        missing == {uri \in DOMAIN found : found[uri] = Missing}
    IN /\ req[w].at = "wrp"
       /\ \A uri \in DOMAIN found \ missing : Present(policy, found[uri])
       /\ \E e \in Entities, u \in Uses, new \in [missing -> Policies] :
           /\ entity[e] = Unused /\ use[u] = Unused
           /\ \A uri \in missing : policy[new[uri]] = Unused
           /\ \A x, y \in missing : new[x] = new[y] => x = y
           /\ entity' = [entity EXCEPT ![e] = req[w].asked.row]
           /\ use' = [use EXCEPT ![u] = [entity |-> e, start |-> today, end |-> Nothing]]
           /\ policy' = [k \in Policies |-> IF \E uri \in missing : new[uri] = k
                                            THEN CHOOSE uri \in missing : new[uri] = k ELSE policy[k]]
           /\ purposes' = [purposes EXCEPT ![u] = {b.purposes[i] : i \in DOMAIN b.purposes}]
           /\ creds' = [creds EXCEPT ![u] = {b.credentials[i] : i \in DOMAIN b.credentials}]
           /\ privacy' = [privacy EXCEPT ![u] =
                  LET ps == Marked(b.policies)
                  IN {[policy |-> IF ps[i].uri \in missing THEN new[ps[i].uri] ELSE found[ps[i].uri],
                       primary |-> ps[i].primary] : i \in DOMAIN ps}]
       /\ req' = [req EXCEPT ![w] = Free]
       /\ UNCHANGED <<today, cut, revoked, writes>>

\* A policy that was found is gone: all is rolled back.
WrpRollback(w) ==
    /\ req[w].at = "wrp"
    /\ \E uri \in DOMAIN req[w].found :
           req[w].found[uri] # Missing /\ ~Present(policy, req[w].found[uri])
    /\ req' = [req EXCEPT ![w] = Free]
    /\ Insert /\ UNCHANGED useVars

(***************************************************************************)
(* DELETE of an intended use: its end is set, if it has none               *)
(***************************************************************************)

RevokeLoad(w, u) ==
    /\ req[w] = Free /\ Write
    /\ Present(use, u) /\ use[u].end = Nothing
    /\ req' = [req EXCEPT ![w] = [Free EXCEPT !.at = "revoking", !.use = u]]
    /\ UNCHANGED <<useVars, entity, today>>

\* Only the end is written; a row that is gone stays so, and the request fails.
RevokeSave(w) ==
    /\ req[w].at = "revoking"
    /\ use' = IF Present(use, req[w].use) THEN [use EXCEPT ![req[w].use].end = today] ELSE use
    /\ revoked' = revoked \cup {u \in {req[w].use} : Present(use, u)}
    /\ req' = [req EXCEPT ![w] = Free]
    /\ Insert /\ UNCHANGED <<policy, purposes, privacy, creds, cut>>

(***************************************************************************)
(* GET check-intended-use: a query for the entity, one for its uses        *)
(***************************************************************************)

Reads == UNCHANGED <<useVars, entity, today, writes>>

Named(id) == {e \in Entities : Present(entity, e) /\ id \in IdentifiersOf[entity[e].legal]}

Answer(c, e, yes) == [asked |-> c, entity |-> e, registered |-> yes]

\* The first one in the order of the keys, whatever its type and status.
CheckEntity(w, c) ==
    /\ req[w] = Free
    /\ IF Named(c.id) = {}
       THEN answer' = Answer(c, Nothing, FALSE) /\ UNCHANGED req
       ELSE /\ answer' = Nothing
            /\ \E e \in Named(c.id) :
                /\ \A f \in Named(c.id) : e <= f
                /\ req' = [req EXCEPT ![w] = [Free EXCEPT !.at = "checking", !.entity = e, !.asked = c]]
    /\ Reads

Asks(x, y) == x # Nothing => x = y

\* Mutant of Unended: a use counts whether it has ended or not.
UnendedAll(u) == Present(use, u)

Unended(u) == Present(use, u) /\ use[u].end = Nothing

\* Each criterion may be met by another credential.
Meets(u, c) ==
    /\ Asks(c.use, u)
    /\ c.format # Nothing => \E x \in creds[u] : x.format = c.format
    /\ c.claim # Nothing => \E x \in creds[u] : c.claim \in x.claims
    /\ c.meta # Nothing => \E x \in creds[u] : c.meta \in x.meta
    /\ c.uri # Nothing => \E l \in privacy[u] : policy[l.policy] = c.uri

CheckUses(w) ==
    LET r == req[w]
    IN /\ r.at = "checking"
       /\ answer' = Answer(r.asked, r.entity,
              \E u \in Uses : Unended(u) /\ use[u].entity = r.entity /\ Meets(u, r.asked))
       /\ req' = [req EXCEPT ![w] = Free]
       /\ Reads

(***************************************************************************)
(* Admin site, deletions, time                                             *)
(***************************************************************************)

\* The form of a use: its dates, and languages that are taken out or put in.
AdminSaveUse(u, form) ==
    /\ Write
    /\ Present(use, u)
    /\ use' = [use EXCEPT ![u].start = form.start, ![u].end = form.end]
    /\ purposes' = [purposes EXCEPT ![u] = form.langs]
    /\ cut' = IF form.langs = {} THEN cut \cup {u} ELSE cut
    /\ revoked' = revoked \ {u}
    /\ UNCHANGED <<entity, policy, privacy, creds, req, today>>

\* Added there, or in the form of its entity: nothing but its dates is asked for.
AdminAddUse(u, e, form) ==
    /\ Write
    /\ use[u] = Unused /\ Present(entity, e)
    /\ use' = [use EXCEPT ![u] = [entity |-> e, start |-> form.start, end |-> form.end]]
    /\ purposes' = [purposes EXCEPT ![u] = form.langs]
    /\ cut' = cut \cup {u}
    /\ UNCHANGED <<entity, policy, privacy, creds, revoked, req, today>>

Drop(us) ==
    /\ use' = [u \in Uses |-> IF u \in us THEN Deleted ELSE use[u]]
    /\ purposes' = [u \in Uses |-> IF u \in us THEN {} ELSE purposes[u]]
    /\ privacy' = [u \in Uses |-> IF u \in us THEN {} ELSE privacy[u]]
    /\ creds' = [u \in Uses |-> IF u \in us THEN {} ELSE creds[u]]
    /\ UNCHANGED <<policy, cut, revoked, req, today>>

DeleteUse(u) == Write /\ Present(use, u) /\ Drop({u}) /\ UNCHANGED entity

DeleteEntity(e) ==
    /\ Write /\ Present(entity, e)
    /\ entity' = [entity EXCEPT ![e] = Deleted]
    /\ Drop({u \in Uses : Present(use, u) /\ use[u].entity = e})

\* The links of uses to the policy go with it.
DeletePolicy(k) ==
    /\ Write /\ Present(policy, k)
    /\ policy' = [policy EXCEPT ![k] = Deleted]
    /\ privacy' = [u \in Uses |-> {l \in privacy[u] : l.policy # k}]
    /\ cut' = cut \cup {u \in Uses : [policy |-> k, primary |-> TRUE] \in privacy[u]}
    /\ UNCHANGED <<entity, use, purposes, creds, revoked, req, today>>

Tick ==
    /\ today < LastDay /\ today' = today + 1
    /\ UNCHANGED <<useVars, entity, req, writes>>

Serve(w) ==
    \/ InsertUse(w) \/ InsertPurpose(w) \/ FindPolicy(w) \/ CreatePolicy(w) \/ LinkPolicy(w)
    \/ InsertCredential(w) \/ Abort(w) \/ Crash(w)
    \/ WrpCommit(w) \/ WrpRollback(w) \/ RevokeSave(w)

AdminUses ==
    \/ \E u \in Uses, form \in UseForms :
        AdminSaveUse(u, form) \/ \E e \in Entities : AdminAddUse(u, e, form)
    \/ \E u \in Uses : DeleteUse(u)
    \/ \E k \in Policies : DeletePolicy(k)

UsesNext ==
    \/ \E w \in Workers, c \in Criteria : CheckEntity(w, c)
    \/ \E w \in Workers : CheckUses(w)
    \/ /\ \/ \E w \in Workers :
               \/ \E e \in Entities, b \in Bodies : Declare(w, e, b)
               \/ \E row \in EntityRows, b \in Bodies : WrpLook(w, row, b)
               \/ \E u \in Uses : RevokeLoad(w, u)
               \/ Serve(w)
          \/ AdminUses \/ Tick
       /\ answer' = Nothing

(***************************************************************************)
(* Properties                                                              *)
(***************************************************************************)

ItemRow == [kind : {"use"}] \cup [kind : {"purpose"}, lang : Langs]
           \cup [kind : {"policy"}, uri : Uris, primary : BOOLEAN]
           \cup [kind : {"credential"}, cred : Credentials]

UsesTypeOK ==
    /\ entity \in [Entities -> EntityRows \cup Absent]
    /\ use \in [Uses -> UseRow \cup Absent]
    /\ policy \in [Policies -> Uris \cup Absent]
    /\ purposes \in [Uses -> SUBSET Langs]
    /\ privacy \in [Uses -> SUBSET Links]
    /\ creds \in [Uses -> SUBSET Credentials]
    /\ \A w \in Workers :
        /\ req[w].at \in {"free", "declaring", "wrp", "revoking", "checking"}
        /\ req[w].entity \in Entities \cup {Nothing}
        /\ req[w].use \in Uses \cup {Nothing}
        /\ req[w].todo \in Seq(ItemRow)
        /\ IF req[w].at = "wrp" THEN req[w].found \in [UrisOf(req[w].asked.body) -> Policies \cup {Missing}]
           ELSE req[w].found \in Policies \cup {Missing, Nothing}
    /\ today \in Days /\ cut \subseteq Uses /\ revoked \subseteq Uses /\ writes \in 0..MaxWrites

\* An intended use has a purpose, a primary privacy policy and a credential, as
\* B.2.7 asks for, or its declaration has still to insert them, or it is known to
\* be cut: its declaration failed or died halfway, an administrator took the
\* purposes out or added it without the rest, or its primary policy was deleted.
UseHasParts ==
    \A u \in Uses : Present(use, u) /\ u \notin cut =>
        LET due == UNION {{req[w].todo[i] : i \in DOMAIN req[w].todo} :
                             w \in {w \in Workers : req[w].at = "declaring" /\ req[w].use = u}}
        IN /\ purposes[u] # {} \/ \E i \in due : i.kind = "purpose"
           /\ (\E l \in privacy[u] : l.primary) \/ \E i \in due : i.kind = "policy" /\ i.primary
           /\ creds[u] # {} \/ \E i \in due : i.kind = "credential"

\* get_or_create on a URI that is no key: requests that overlap may each make a
\* row for it, and no others do.  (Every later declaration with a URI of two rows
\* is refused.)
PolicyRowsBounded ==
    \A uri \in Uris : Cardinality(RowsOf(uri)) <= Cardinality(Workers)

\* A revocation is final for the wallets that ask: whatever requests were under way
\* when a use was revoked, check-intended-use says yes only for a use of the entity
\* that meets the criteria and was not revoked, or that an administrator saved again
\* since.
NotOfRevoked ==
    answer' # Nothing /\ answer'.registered =>
        \E u \in Uses \ revoked :
            Present(use, u) /\ use[u].entity = answer'.entity /\ Meets(u, answer'.asked)

RevokedNotConfirmed == [][NotOfRevoked]_<<useVars, entity, req, answer, today, writes>>

=============================================================================
