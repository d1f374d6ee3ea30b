------------------------ MODULE RelyingParty_proofs ------------------------
(***************************************************************************)
(* Proofs about RelyingParty, for any numbers of rows, workers and writes. *)
(*                                                                         *)
(* UseHasParts needs to know what a declaration still owes its intended    *)
(* use: it starts from all three parts and drops one only when it has      *)
(* inserted it.  PolicyRowsBounded counts, next to the rows of a URI, the  *)
(* requests that have found none and may still make one.                   *)
(***************************************************************************)
EXTENDS RelyingParty, IssuancePolicy_proofs, FiniteSetTheorems, TLAPS

Kinds == {"purpose", "policy", "credential"}

\* An item that gives an intended use its part of a kind.
Gives(i, k) == i.kind = k /\ (k = "policy" => i.primary)

Offers(todo, k) == \E i \in DOMAIN todo : Gives(todo[i], k)
Complete(todo)  == \A k \in Kinds : Offers(todo, k)
MakesNone(todo) == \A i \in DOMAIN todo : i # 1 => todo[i].kind # "use"

\* What a declaration has still to do: the intended use first, if it is still to
\* be made, and no second one.
Steady(r) ==
    /\ r.entity \in Entities /\ r.todo # <<>>
    /\ MakesNone(r.todo)
    /\ IF r.todo[1].kind = "use" THEN r.use = Nothing /\ Complete(r.todo) ELSE r.use \in Uses

Wrp == [row : EntityRows, body : Bodies]

Found == Policies \cup {Missing, Nothing} \cup UNION {[S -> Policies \cup {Missing}] : S \in SUBSET Uris}

Req == [at : {"free", "declaring", "wrp", "revoking", "checking"},
        entity : Entities \cup {Nothing}, use : Uses \cup {Nothing}, todo : Seq(ItemRow),
        found : Found, asked : Criteria \cup {Nothing} \cup Wrp]

ReqSound(r) ==
    /\ r \in Req
    /\ r.at = "declaring" => Steady(r)
    /\ r.at = "revoking" => r.use \in Uses
    /\ r.at = "checking" => r.asked \in Criteria
    /\ IF r.at = "wrp"
       THEN r.asked \in Wrp /\ r.found \in [UrisOf(r.asked.body) -> Policies \cup {Missing}]
       ELSE r.found \in Policies \cup {Missing, Nothing}

Requested == req \in [Workers -> Req] /\ \A w \in Workers : ReqSound(req[w])

\* The tables, the day and the bounds.
Tables ==
    /\ entity \in [Entities -> EntityRows \cup Absent]
    /\ use \in [Uses -> UseRow \cup Absent]
    /\ policy \in [Policies -> Uris \cup Absent]
    /\ purposes \in [Uses -> SUBSET Langs]
    /\ privacy \in [Uses -> SUBSET Links]
    /\ creds \in [Uses -> SUBSET Credentials]
    /\ today \in Days /\ cut \subseteq Uses /\ writes \in 0..MaxWrites

UsesInv == Tables /\ Requested

LEMMA TypeFromInv == ASSUME UsesInv, revoked \subseteq Uses PROVE UsesTypeOK
BY DEF UsesInv, Tables, Requested, ReqSound, Req, UsesTypeOK

-----------------------------------------------------------------------------
(***************************************************************************)
(* Sequences of items                                                      *)
(***************************************************************************)

LEMMA SeqItem ==
    ASSUME NEW S, NEW s \in Seq(S)
    PROVE  /\ Len(s) \in Nat /\ DOMAIN s = 1..Len(s)
           /\ \A i \in DOMAIN s : s[i] \in S
           /\ s # <<>> => 1 \in DOMAIN s
OBVIOUS

LEMMA TailItems ==
    ASSUME NEW S, NEW s \in Seq(S), s # <<>>
    PROVE  /\ Tail(s) \in Seq(S) /\ Len(Tail(s)) = Len(s) - 1
           /\ \A i \in DOMAIN Tail(s) : i + 1 \in DOMAIN s /\ Tail(s)[i] = s[i + 1]
           /\ \A i \in DOMAIN s : i = 1 \/ (i - 1 \in DOMAIN Tail(s) /\ Tail(s)[i - 1] = s[i])
           /\ Head(s) = s[1] /\ 1 \in DOMAIN s
           /\ Len(s) # 1 => Tail(s) # <<>> /\ 1 \in DOMAIN Tail(s)
<1>1. Len(s) \in Nat /\ Len(s) >= 1 /\ DOMAIN s = 1..Len(s)
  OBVIOUS
<1>2. Tail(s) \in Seq(S) /\ Len(Tail(s)) = Len(s) - 1
      /\ \A i \in 1..(Len(s) - 1) : Tail(s)[i] = s[i + 1]
  BY <1>1
<1>3. DOMAIN Tail(s) = 1..(Len(s) - 1)
  BY <1>2
<1>4. \A i \in DOMAIN s : i = 1 \/ (i - 1 \in DOMAIN Tail(s) /\ Tail(s)[i - 1] = s[i])
  <2> SUFFICES ASSUME NEW i \in DOMAIN s, i # 1
               PROVE  i - 1 \in DOMAIN Tail(s) /\ Tail(s)[i - 1] = s[i]
    OBVIOUS
  <2>1. i - 1 \in 1..(Len(s) - 1) /\ (i - 1) + 1 = i
    BY <1>1
  <2>2. QED BY <2>1, <1>2, <1>3
<1>5. QED BY <1>1, <1>2, <1>3, <1>4

\* Every element of a concatenation is one of an operand, and the other way round.
LEMMA Joined ==
    ASSUME NEW S, NEW s \in Seq(S), NEW t \in Seq(S)
    PROVE  /\ s \o t \in Seq(S)
           /\ \A i \in DOMAIN s : i \in DOMAIN (s \o t) /\ (s \o t)[i] = s[i]
           /\ \A i \in DOMAIN t : Len(s) + i \in DOMAIN (s \o t) /\ (s \o t)[Len(s) + i] = t[i]
           /\ \A i \in DOMAIN (s \o t) :
                  \/ i \in DOMAIN s
                  \/ i - Len(s) \in DOMAIN t /\ (s \o t)[i] = t[i - Len(s)]
<1>1. /\ s \o t \in Seq(S) /\ Len(s \o t) = Len(s) + Len(t)
      /\ \A i \in 1..(Len(s) + Len(t)) :
             (s \o t)[i] = IF i <= Len(s) THEN s[i] ELSE t[i - Len(s)]
  OBVIOUS
<1>2. /\ DOMAIN s = 1..Len(s) /\ DOMAIN t = 1..Len(t) /\ Len(s) \in Nat /\ Len(t) \in Nat
      /\ DOMAIN (s \o t) = 1..(Len(s) + Len(t))
  BY <1>1
<1>3. ASSUME NEW i \in DOMAIN t
      PROVE  Len(s) + i \in DOMAIN (s \o t) /\ (s \o t)[Len(s) + i] = t[i]
  <2>1. Len(s) + i \in 1..(Len(s) + Len(t)) /\ ~(Len(s) + i <= Len(s)) /\ Len(s) + i - Len(s) = i
    BY <1>2, <1>3
  <2>2. QED BY <2>1, <1>1, <1>2
<1>4. QED BY <1>1, <1>2, <1>3

LEMMA JoinedItems ==
    ASSUME NEW s \in Seq(ItemRow), NEW t \in Seq(ItemRow), s # <<>>,
           MakesNone(s), \A i \in DOMAIN t : t[i].kind # "use"
    PROVE  /\ s \o t \in Seq(ItemRow) /\ s \o t # <<>> /\ (s \o t)[1] = s[1]
           /\ MakesNone(s \o t)
           /\ \A k \in Kinds : Offers(s, k) \/ Offers(t, k) => Offers(s \o t, k)
<1>1. 1 \in DOMAIN s
  BY SeqItem
<1>2. s \o t \in Seq(ItemRow) /\ (s \o t)[1] = s[1] /\ 1 \in DOMAIN (s \o t)
  BY <1>1, Joined
<1>3. MakesNone(s \o t)
  BY Joined DEF MakesNone
<1>4. ASSUME NEW k \in Kinds, Offers(s, k) \/ Offers(t, k) PROVE Offers(s \o t, k)
  <2>1. CASE Offers(s, k)
    BY <2>1, Joined DEF Offers, Gives
  <2>2. CASE Offers(t, k)
    <3>1. PICK i \in DOMAIN t : Gives(t[i], k)
      BY <2>2 DEF Offers
    <3>2. Len(s) + i \in DOMAIN (s \o t) /\ (s \o t)[Len(s) + i] = t[i]
      BY Joined
    <3>3. QED BY <3>1, <3>2 DEF Offers
  <2>3. QED BY <1>4, <2>1, <2>2
<1>5. s \o t # <<>>
  BY <1>2
<1>6. QED BY <1>2, <1>3, <1>4, <1>5

Bodied == [purposes : Seq(Langs) \ {<<>>}, credentials : Seq(Credentials) \ {<<>>},
           policies : Seq([uri : Uris, primary : BOOLEAN]) \ {<<>>}]

\* Rows of policies, whatever the type of their mark.
LEMMA PolicyItem ==
    ASSUME NEW U, NEW B, NEW p \in [uri : U, primary : B], NEW q \in B
    PROVE  /\ p.uri \in U /\ p.primary \in B
           /\ [p EXCEPT !.primary = q] \in [uri : U, primary : B]
           /\ [p EXCEPT !.primary = q].uri = p.uri
           /\ [p EXCEPT !.primary = q].primary = q
OBVIOUS

LEMMA MarkedPolicies ==
    ASSUME NEW ps \in Seq([uri : Uris, primary : BOOLEAN]), ps # <<>>
    PROVE  /\ Marked(ps) \in Seq([uri : Uris, primary : BOOLEAN])
           /\ DOMAIN Marked(ps) = DOMAIN ps
           /\ \A i \in DOMAIN ps : Marked(ps)[i].uri = ps[i].uri
           /\ \E i \in DOMAIN ps : Marked(ps)[i].primary
<1>1. CASE \E i \in DOMAIN ps : ps[i].primary
  BY <1>1 DEF Marked
<1>2. CASE ~ \E i \in DOMAIN ps : ps[i].primary
  <2>1. Marked(ps) = [i \in 1..Len(ps) |-> [ps[i] EXCEPT !.primary = (i = 1)]]
    BY <1>2 DEF Marked
  <2>2. ASSUME NEW i \in 1..Len(ps), NEW q \in BOOLEAN
        PROVE  /\ [ps[i] EXCEPT !.primary = q] \in [uri : Uris, primary : BOOLEAN]
               /\ [ps[i] EXCEPT !.primary = q].uri = ps[i].uri
               /\ [ps[i] EXCEPT !.primary = q].primary = q
    <3>1. ps[i] \in [uri : Uris, primary : BOOLEAN]
      BY SeqItem, Zenon
    <3>2. QED BY <3>1, PolicyItem, Zenon
  <2>3. \A i \in 1..Len(ps) : (i = 1) \in BOOLEAN
    OBVIOUS
  <2>4. Len(ps) \in Nat /\ 1 \in 1..Len(ps) /\ DOMAIN ps = 1..Len(ps)
    OBVIOUS
  <2>5. \A i \in 1..Len(ps) : /\ Marked(ps)[i] \in [uri : Uris, primary : BOOLEAN]
                              /\ Marked(ps)[i].uri = ps[i].uri
                              /\ Marked(ps)[i].primary = (i = 1)
    <3> TAKE i \in 1..Len(ps)
    <3>1. Marked(ps)[i] = [ps[i] EXCEPT !.primary = (i = 1)]
      BY <2>1, Zenon
    <3>2. QED BY <3>1, <2>2, <2>3, Zenon
  <2>6. DOMAIN Marked(ps) = 1..Len(ps)
    BY <2>1, Zenon
  <2>7. Marked(ps) \in [1..Len(ps) -> [uri : Uris, primary : BOOLEAN]]
    BY <2>1, <2>5, Zenon
  <2>8. QED BY <2>4, <2>5, <2>6, <2>7
<1>3. QED BY <1>1, <1>2

LEMMA ItemsComplete ==
    ASSUME NEW b \in Bodies
    PROVE  /\ Items(b) \in Seq(ItemRow) /\ Items(b) # <<>>
           /\ Items(b)[1].kind = "use" /\ Complete(Items(b)) /\ MakesNone(Items(b))
<1> DEFINE ps == Marked(b.policies)
           I == <<[kind |-> "use"]>>
           A == [i \in DOMAIN b.purposes |-> [kind |-> "purpose", lang |-> b.purposes[i]]]
           B == [i \in DOMAIN ps |-> [kind |-> "policy", uri |-> ps[i].uri, primary |-> ps[i].primary]]
           C == [i \in DOMAIN b.credentials |-> [kind |-> "credential", cred |-> b.credentials[i]]]
<1>1. b \in Bodied
  BY UsesInputs DEF Bodied
<1>2. I \in Seq(ItemRow) /\ Len(I) = 1 /\ DOMAIN I = {1} /\ I[1].kind = "use"
  BY DEF ItemRow
<1>3. /\ A \in Seq(ItemRow) /\ 1 \in DOMAIN A
      /\ \A i \in DOMAIN A : A[i].kind = "purpose"
  <2>1. b.purposes \in Seq(Langs) /\ b.purposes # <<>>
    BY <1>1 DEF Bodied
  <2>2. QED BY <2>1 DEF ItemRow
<1>4. /\ ps \in Seq([uri : Uris, primary : BOOLEAN])
      /\ \E i \in DOMAIN ps : ps[i].primary
  <2>1. b.policies \in Seq([uri : Uris, primary : BOOLEAN]) /\ b.policies # <<>>
    BY <1>1 DEF Bodied
  <2>2. QED BY <2>1, MarkedPolicies
<1>5. /\ B \in Seq(ItemRow) /\ DOMAIN B = DOMAIN ps
      /\ \A i \in DOMAIN B : B[i].kind = "policy" /\ B[i].primary = ps[i].primary
  <2> HIDE DEF ps
  <2>1. DOMAIN ps = 1..Len(ps) /\ Len(ps) \in Nat
    BY <1>4
  <2>2. \A i \in DOMAIN ps : [kind |-> "policy", uri |-> ps[i].uri, primary |-> ps[i].primary] \in ItemRow
    <3>1. ASSUME NEW x \in Uris, NEW q \in BOOLEAN
          PROVE  [kind |-> "policy", uri |-> x, primary |-> q] \in ItemRow
      BY DEF ItemRow
    <3>2. \A i \in DOMAIN ps : ps[i].uri \in Uris /\ ps[i].primary \in BOOLEAN
      <4>1. \A i \in DOMAIN ps : ps[i] \in [uri : Uris, primary : BOOLEAN]
        BY <1>4, SeqItem, Zenon
      <4>2. QED BY <4>1, PolicyItem, Zenon
    <3>3. QED BY <3>1, <3>2, Zenon
  <2>3. QED BY <1>4, <2>1, <2>2
<1>6. /\ C \in Seq(ItemRow) /\ 1 \in DOMAIN C
      /\ \A i \in DOMAIN C : C[i].kind = "credential"
  <2>1. b.credentials \in Seq(Credentials) /\ b.credentials # <<>>
    BY <1>1 DEF Bodied
  <2>2. QED BY <2>1 DEF ItemRow
<1>7. Items(b) = (I \o A) \o (B \o C)
  BY Zenon DEF Items
<1>8. /\ I # <<>> /\ MakesNone(I)
      /\ Offers(A, "purpose") /\ Offers(C, "credential")
  BY <1>2, <1>3, <1>6 DEF MakesNone, Offers, Gives
<1>9. Offers(B, "policy")
  BY <1>4, <1>5 DEF Offers, Gives
<1>10. /\ \A i \in DOMAIN A : A[i].kind # "use"
       /\ \A i \in DOMAIN B : B[i].kind # "use"
       /\ \A i \in DOMAIN C : C[i].kind # "use"
  BY <1>3, <1>5, <1>6
<1>11. A \in Seq(ItemRow) /\ B \in Seq(ItemRow) /\ C \in Seq(ItemRow)
  BY <1>3, <1>5, <1>6
<1> HIDE DEF ps, I, A, B, C
<1>12. /\ I \o A \in Seq(ItemRow) /\ I \o A # <<>> /\ (I \o A)[1] = I[1]
       /\ MakesNone(I \o A) /\ Offers(I \o A, "purpose")
  BY <1>2, <1>8, <1>10, <1>11, JoinedItems DEF Kinds
<1>13. /\ B \o C \in Seq(ItemRow) /\ MakesNone(B \o C)
       /\ \A i \in DOMAIN (B \o C) : (B \o C)[i].kind # "use"
       /\ Offers(B \o C, "policy") /\ Offers(B \o C, "credential")
  <2>1. B # <<>> /\ MakesNone(B)
    BY <1>9, <1>10, <1>11 DEF Offers, MakesNone
  <2>2. /\ B \o C \in Seq(ItemRow) /\ MakesNone(B \o C)
        /\ Offers(B \o C, "policy") /\ Offers(B \o C, "credential")
    BY <1>8, <1>9, <1>10, <1>11, <2>1, JoinedItems, Zenon DEF Kinds
  <2>3. \A i \in DOMAIN (B \o C) : (B \o C)[i].kind # "use"
    <3>1. ASSUME NEW i \in DOMAIN (B \o C)
          PROVE  \/ i \in DOMAIN B /\ (B \o C)[i] = B[i]
                 \/ i - Len(B) \in DOMAIN C /\ (B \o C)[i] = C[i - Len(B)]
      BY <1>11, Joined
    <3>2. QED BY <1>10, <3>1, Zenon
  <2>4. QED BY <2>2, <2>3
<1>14. ASSUME NEW D \in Seq(ItemRow), NEW E \in Seq(ItemRow), D = I \o A, E = B \o C
       PROVE  /\ D \o E \in Seq(ItemRow) /\ D \o E # <<>> /\ (D \o E)[1] = I[1]
              /\ MakesNone(D \o E) /\ Offers(D \o E, "credential")
              /\ Offers(D \o E, "purpose") /\ Offers(D \o E, "policy")
  <2>1. /\ D # <<>> /\ D[1] = I[1] /\ MakesNone(D) /\ Offers(D, "purpose")
    BY <1>12, <1>14
  <2>2. /\ \A i \in DOMAIN E : E[i].kind # "use"
        /\ Offers(E, "policy") /\ Offers(E, "credential")
    BY <1>13, <1>14
  <2>3. QED BY <1>14, <2>1, <2>2, JoinedItems, Zenon DEF Kinds
<1>15. QED BY <1>2, <1>7, <1>12, <1>13, <1>14 DEF Kinds, Complete

-----------------------------------------------------------------------------
(***************************************************************************)
(* Types: the tables and the requests                                      *)
(***************************************************************************)

LEMMA FreeSound == ReqSound(Free)
BY DEF ReqSound, Free, Req, Found

\* A request in its first state.
LEMMA FreshWrp ==
    ASSUME NEW f \in Found, NEW a \in Wrp
    PROVE  LET r == [Free EXCEPT !.at = "wrp", !.asked = a, !.found = f]
           IN r \in Req /\ r.at = "wrp" /\ r.asked = a /\ r.found = f
BY FreeSound DEF ReqSound, Req, Free

LEMMA FreshRevoke ==
    ASSUME NEW u \in Uses
    PROVE  LET r == [Free EXCEPT !.at = "revoking", !.use = u]
           IN r \in Req /\ r.at = "revoking" /\ r.use = u /\ r.found = Nothing
BY FreeSound DEF ReqSound, Req, Free

LEMMA FreshCheck ==
    ASSUME NEW e \in Entities, NEW c \in Criteria
    PROVE  LET r == [Free EXCEPT !.at = "checking", !.entity = e, !.asked = c]
           IN r \in Req /\ r.at = "checking" /\ r.found = Nothing /\ r.asked = c
BY FreeSound DEF ReqSound, Req, Free

LEMMA WriteOnce == ASSUME writes \in 0..MaxWrites, Write PROVE writes' \in 0..MaxWrites
<1>1. MaxWrites \in Nat
  BY UsesInputs
<1>2. QED BY <1>1 DEF Write

LEMMA Served ==
    ASSUME Requested, NEW w \in Workers, NEW r, ReqSound(r), req' = [req EXCEPT ![w] = r]
    PROVE  Requested'
BY DEF Requested, ReqSound

LEMMA DoneSound ==
    ASSUME NEW r, r \in Req, r.at = "declaring", r.todo # <<>>, MakesNone(r.todo), r.use \in Uses,
           r.entity \in Entities
    PROVE  ReqSound(IF Len(r.todo) = 1 THEN Free
                    ELSE [r EXCEPT !.todo = Tail(@), !.found = Nothing])
<1>1. CASE Len(r.todo) = 1
  BY <1>1, FreeSound
<1>2. CASE Len(r.todo) # 1
  <2> DEFINE n == [r EXCEPT !.todo = Tail(@), !.found = Nothing]
  <2>1. r.todo \in Seq(ItemRow)
    BY DEF Req
  <2>2. /\ Tail(r.todo) \in Seq(ItemRow) /\ Tail(r.todo) # <<>> /\ 1 \in DOMAIN Tail(r.todo)
        /\ \A i \in DOMAIN Tail(r.todo) : i + 1 \in DOMAIN r.todo /\ Tail(r.todo)[i] = r.todo[i + 1]
    BY <1>2, <2>1, TailItems
  <2>3. \A i \in DOMAIN Tail(r.todo) : Tail(r.todo)[i].kind # "use"
    <3>1. \A i \in DOMAIN Tail(r.todo) : i + 1 # 1
      BY <2>2
    <3>2. QED BY <2>2, <3>1 DEF MakesNone
  <2>4. /\ n \in Req /\ n.at = "declaring" /\ n.use = r.use /\ n.todo = Tail(r.todo)
        /\ n.found = Nothing /\ n.entity = r.entity
    BY <2>2 DEF Req, Found
  <2>5. Steady(n)
    BY <2>2, <2>3, <2>4 DEF Steady, MakesNone
  <2> HIDE DEF n
  <2>6. ReqSound(n)
    BY <2>4, <2>5 DEF ReqSound
  <2>7. QED BY <1>2, <2>6 DEF n
<1>3. QED BY <1>1, <1>2

LEMMA LookupRow ==
    ASSUME NEW uri PROVE Lookup(uri) \in RowsOf(uri) \cup {Missing} /\ RowsOf(uri) \subseteq Policies
BY DEF Lookup, RowsOf

LEMMA LookupFits ==
    ASSUME NEW b \in Bodies
    PROVE  /\ [uri \in UrisOf(b) |-> Lookup(uri)] \in [UrisOf(b) -> Policies \cup {Missing}]
           /\ UrisOf(b) \subseteq Uris
<1>1. UrisOf(b) \subseteq Uris
  <2>1. b.policies \in Seq([uri : Uris, primary : BOOLEAN])
    BY UsesInputs
  <2>2. \A i \in DOMAIN b.policies : b.policies[i] \in [uri : Uris, primary : BOOLEAN]
    BY <2>1, SeqItem, Zenon
  <2>3. \A i \in DOMAIN b.policies : b.policies[i].uri \in Uris
    BY <2>2, PolicyItem, Zenon
  <2>4. QED BY <2>3, Zenon DEF UrisOf
<1>2. \A uri \in UrisOf(b) : Lookup(uri) \in Policies \cup {Missing}
  BY LookupRow
<1>3. QED BY <1>1, <1>2

\* A request that is accepted.
LEMMA Accept ==
    ASSUME UsesInv, NEW w \in Workers
    PROVE  /\ \A e \in Entities, b \in Bodies : Declare(w, e, b) => UsesInv'
           /\ \A row \in EntityRows, b \in Bodies : WrpLook(w, row, b) => UsesInv'
           /\ \A u \in Uses : RevokeLoad(w, u) => UsesInv'
           /\ \A c \in Criteria :
                  CheckEntity(w, c) /\ UNCHANGED <<useVars, entity, today, writes>> => UsesInv'
<1>1. ASSUME NEW e \in Entities, NEW b \in Bodies, Declare(w, e, b) PROVE UsesInv'
  <2> DEFINE r == [Free EXCEPT !.at = "declaring", !.entity = e, !.todo = Items(b)]
  <2>1. /\ r \in Req /\ r.at = "declaring" /\ r.todo = Items(b) /\ r.use = Nothing /\ r.found = Nothing
        /\ r.entity = e
    BY ItemsComplete DEF Req, Free, Found
  <2> HIDE DEF r
  <2>2. Steady(r)
    BY <2>1, ItemsComplete DEF Steady
  <2>3. ReqSound(r)
    BY <2>1, <2>2 DEF ReqSound
  <2>4. Requested'
    BY <1>1, <2>3, Served DEF UsesInv, Declare, r
  <2>5. Tables'
    BY <1>1, WriteOnce DEF UsesInv, Tables, Declare, useVars
  <2>6. QED BY <2>4, <2>5 DEF UsesInv
<1>2. ASSUME NEW row \in EntityRows, NEW b \in Bodies, WrpLook(w, row, b) PROVE UsesInv'
  <2> DEFINE a == [row |-> row, body |-> b]
             f == [uri \in UrisOf(b) |-> Lookup(uri)]
             r == [Free EXCEPT !.at = "wrp", !.asked = a, !.found = f]
  <2>1. a \in Wrp /\ a.body = b
    BY DEF Wrp
  <2>2. f \in [UrisOf(b) -> Policies \cup {Missing}] /\ f \in Found
    BY LookupFits DEF Found
  <2> HIDE DEF a, f
  <2>3. r \in Req /\ r.at = "wrp" /\ r.asked = a /\ r.found = f
    BY <2>1, <2>2, FreshWrp
  <2>4. ReqSound(r)
    BY <2>1, <2>2, <2>3 DEF ReqSound
  <2>5. Requested'
    <3>1. req' = [req EXCEPT ![w] = r]
      BY <1>2 DEF WrpLook, a, f
    <3>2. QED BY <2>4, <3>1, Served DEF UsesInv
  <2>6. Tables'
    BY <1>2, WriteOnce DEF UsesInv, Tables, WrpLook, useVars
  <2>7. QED BY <2>5, <2>6 DEF UsesInv
<1>3. ASSUME NEW u \in Uses, RevokeLoad(w, u) PROVE UsesInv'
  <2> DEFINE r == [Free EXCEPT !.at = "revoking", !.use = u]
  <2>1. ReqSound(r)
    <3>1. r \in Req /\ r.at = "revoking" /\ r.use = u /\ r.found = Nothing
      BY FreshRevoke
    <3> HIDE DEF r
    <3>2. QED BY <3>1 DEF ReqSound
  <2>2. Requested'
    BY <1>3, <2>1, Served DEF UsesInv, RevokeLoad
  <2>3. Tables'
    BY <1>3, WriteOnce DEF UsesInv, Tables, RevokeLoad, useVars
  <2>4. QED BY <2>2, <2>3 DEF UsesInv
<1>4. ASSUME NEW c \in Criteria, CheckEntity(w, c), UNCHANGED <<useVars, entity, today, writes>>
      PROVE  UsesInv'
  <2>1. Tables'
    BY <1>4 DEF UsesInv, Tables, useVars
  <2>2. CASE UNCHANGED req
    BY <2>1, <2>2 DEF UsesInv, Requested
  <2>3. ASSUME NEW e \in Entities,
               req' = [req EXCEPT ![w] = [Free EXCEPT !.at = "checking", !.entity = e, !.asked = c]]
        PROVE  Requested'
    <3> DEFINE r == [Free EXCEPT !.at = "checking", !.entity = e, !.asked = c]
    <3>1. r \in Req /\ r.at = "checking" /\ r.found = Nothing /\ r.asked = c
      BY FreshCheck
    <3> HIDE DEF r
    <3>2. ReqSound(r)
      BY <3>1 DEF ReqSound
    <3>3. QED BY <2>3, <3>2, Served DEF UsesInv, r
  <2>4. QED BY <1>4, <2>1, <2>2, <2>3 DEF CheckEntity, Named, UsesInv
<1>5. QED BY <1>1, <1>2, <1>3, <1>4

\* The item a declaration is at.
LEMMA DueItem ==
    ASSUME UsesInv, NEW w \in Workers, req[w].at = "declaring"
    PROVE  LET r == req[w]  i == Head(req[w].todo)
           IN /\ r \in Req /\ Steady(r) /\ r.todo \in Seq(ItemRow) /\ i = r.todo[1] /\ i \in ItemRow
              /\ r.found \in Policies \cup {Missing, Nothing}
              /\ i.kind # "use" => r.use \in Uses
              /\ i.kind = "use" => r.use = Nothing
<1>1. ReqSound(req[w])
  BY DEF UsesInv, Requested
<1>2. /\ req[w] \in Req /\ Steady(req[w]) /\ req[w].todo \in Seq(ItemRow)
      /\ req[w].found \in Policies \cup {Missing, Nothing}
  BY <1>1 DEF ReqSound, Req
<1>3. Head(req[w].todo) = req[w].todo[1] /\ req[w].todo[1] \in ItemRow
  BY <1>2, TailItems, SeqItem DEF Steady
<1>4. QED BY <1>2, <1>3 DEF Steady

\* What an item holds.
LEMMA ItemHolds ==
    ASSUME NEW i \in ItemRow
    PROVE  /\ i.kind \in {"use", "purpose", "policy", "credential"}
           /\ i.kind = "purpose" => i.lang \in Langs
           /\ i.kind = "policy" => i.uri \in Uris /\ i.primary \in BOOLEAN
           /\ i.kind = "credential" => i.cred \in Credentials
BY DEF ItemRow

\* An item is inserted, and the declaration goes on, or is answered.
LEMMA DoneKeeps ==
    ASSUME UsesInv, NEW w \in Workers, req[w].at = "declaring"
    PROVE  /\ Head(req[w].todo).kind # "use" /\ Done(w, req[w]) => Requested'
           /\ \A u \in Uses : Done(w, [req[w] EXCEPT !.use = u]) => Requested'
<1>1. /\ req[w] \in Req /\ req[w].todo # <<>> /\ MakesNone(req[w].todo)
      /\ req[w].entity \in Entities
      /\ Head(req[w].todo).kind # "use" => req[w].use \in Uses
  BY DueItem DEF Steady
<1>2. ASSUME Head(req[w].todo).kind # "use", Done(w, req[w]) PROVE Requested'
  BY <1>1, <1>2, DoneSound, Served DEF Done, UsesInv
<1>3. ASSUME NEW u \in Uses, Done(w, [req[w] EXCEPT !.use = u]) PROVE Requested'
  <2> DEFINE r == [req[w] EXCEPT !.use = u]
  <2>1. r \in Req /\ r.at = "declaring" /\ r.todo = req[w].todo /\ r.use = u
        /\ r.entity = req[w].entity
    BY <1>1 DEF Req
  <2>2. Done(w, r)
    BY <1>3
  <2> HIDE DEF r
  <2>3. QED BY <1>1, <2>1, <2>2, DoneSound, Served DEF Done, UsesInv
<1>4. QED BY <1>2, <1>3

\* What is added to one of a family of sets is in it.
LEMMA AddedTo ==
    ASSUME NEW V, NEW f \in [Uses -> SUBSET V], NEW u \in Uses, NEW x
    PROVE  x \in [f EXCEPT ![u] = @ \cup {x}][u]
OBVIOUS

\* One link more keeps the type of the links.
LEMMA LinkAdded ==
    ASSUME NEW p \in [Uses -> SUBSET Links], NEW u \in Uses, NEW l \in Links
    PROVE  [p EXCEPT ![u] = @ \cup {l}] \in [Uses -> SUBSET Links]
<1>1. p[u] \cup {l} \in SUBSET Links
  OBVIOUS
<1>2. QED BY <1>1

\* The inserts of a declaration.
LEMMA InsertsTyped ==
    ASSUME UsesInv, NEW w \in Workers,
           InsertUse(w) \/ InsertPurpose(w) \/ LinkPolicy(w) \/ InsertCredential(w)
    PROVE  UsesInv'
<1> DEFINE i == Head(req[w].todo)
<1>1. req[w].at = "declaring" /\ i \in ItemRow /\ req[w] \in Req
  BY DueItem DEF InsertUse, InsertPurpose, LinkPolicy, InsertCredential, Due
<1>2. CASE InsertUse(w)
  <2>1. PICK u \in Uses :
            /\ use' = [use EXCEPT ![u] = [entity |-> req[w].entity, start |-> today, end |-> Nothing]]
            /\ Done(w, [req[w] EXCEPT !.use = u])
    BY <1>2 DEF InsertUse
  <2>2. Present(entity, req[w].entity) /\ i.kind = "use"
    BY <1>2 DEF InsertUse, Due
  <2>3. Requested'
    BY <1>1, <2>1, DoneKeeps
  <2>4. req[w].entity \in Entities
    BY <1>1, DueItem DEF Steady
  <2>5. QED BY <1>2, <2>1, <2>3, <2>4 DEF InsertUse, Insert, UsesInv, Tables, UseRow
<1>3. CASE InsertPurpose(w)
  <2>1. Requested' /\ i.lang \in Langs /\ req[w].use \in Uses
    BY <1>1, <1>3, DoneKeeps, DueItem, ItemHolds DEF InsertPurpose, Due
  <2>2. Tables'
    BY <1>3, <2>1 DEF InsertPurpose, Insert, UsesInv, Tables
  <2>3. QED BY <2>1, <2>2 DEF UsesInv
<1>4. CASE LinkPolicy(w)
  <2>1. Requested' /\ i.primary \in BOOLEAN /\ req[w].use \in Uses /\ req[w].found \in Policies
    BY <1>1, <1>4, DoneKeeps, DueItem, ItemHolds DEF LinkPolicy, Due
  <2>2. [policy |-> req[w].found, primary |-> i.primary] \in Links
    BY <2>1 DEF Links
  <2>3. privacy' = [privacy EXCEPT ![req[w].use] =
                        @ \cup {[policy |-> req[w].found, primary |-> i.primary]}]
    BY <1>4 DEF LinkPolicy
  <2>4. Tables'
    <3>1. privacy' \in [Uses -> SUBSET Links]
      BY <2>1, <2>2, <2>3, LinkAdded DEF UsesInv, Tables
    <3>2. UNCHANGED <<entity, use, policy, purposes, creds, today, cut, writes>>
      BY <1>4 DEF LinkPolicy, Insert
    <3>3. QED BY <3>1, <3>2 DEF UsesInv, Tables
  <2>5. QED BY <2>1, <2>4 DEF UsesInv
<1>5. CASE InsertCredential(w)
  <2>1. Requested' /\ i.cred \in Credentials /\ req[w].use \in Uses
    BY <1>1, <1>5, DoneKeeps, DueItem, ItemHolds DEF InsertCredential, Due
  <2>2. Tables'
    BY <1>5, <2>1 DEF InsertCredential, Insert, UsesInv, Tables
  <2>3. QED BY <2>1, <2>2 DEF UsesInv
<1>6. QED BY <1>2, <1>3, <1>4, <1>5

\* get_or_create of a policy.
LEMMA PolicyTyped ==
    ASSUME UsesInv, NEW w \in Workers, FindPolicy(w) \/ CreatePolicy(w)
    PROVE  UsesInv'
<1> DEFINE i == Head(req[w].todo)
<1>1. /\ req[w].at = "declaring" /\ req[w] \in Req /\ Steady(req[w]) /\ i.kind = "policy"
      /\ i.uri \in Uris
  BY DueItem, ItemHolds DEF FindPolicy, CreatePolicy, Due
<1>2. ASSUME NEW k \in Policies \cup {Missing}, req' = [req EXCEPT ![w].found = k]
      PROVE  Requested'
  <2> DEFINE r == [req[w] EXCEPT !.found = k]
  <2>1. /\ r \in Req /\ r.at = "declaring" /\ r.todo = req[w].todo /\ r.use = req[w].use
        /\ r.found = k /\ r.entity = req[w].entity
    BY <1>1 DEF Req, Found
  <2>2. req' = [req EXCEPT ![w] = r]
    BY <1>2
  <2> HIDE DEF r
  <2>3. ReqSound(r)
    BY <1>1, <2>1 DEF ReqSound, Steady
  <2>4. QED BY <2>2, <2>3, Served DEF UsesInv
<1>3. CASE FindPolicy(w)
  <2>1. Requested'
    BY <1>2, <1>3, LookupRow DEF FindPolicy
  <2>2. QED BY <1>3, <2>1 DEF FindPolicy, Insert, UsesInv, Tables, useVars
<1>4. CASE CreatePolicy(w)
  <2>1. Requested'
    BY <1>2, <1>4 DEF CreatePolicy
  <2>2. QED BY <1>1, <1>4, <2>1 DEF CreatePolicy, Insert, UsesInv, Tables
<1>5. QED BY <1>3, <1>4

\* A request that ends, whatever came of it, and only the incomplete uses grow.
LEMMA EndTyped ==
    ASSUME UsesInv, NEW w \in Workers, Abort(w) \/ Crash(w) \/ WrpRollback(w)
    PROVE  UsesInv'
<1>1. req[w] \in Req
  BY DEF UsesInv, Requested
<1>2. Requested'
  BY FreeSound, Served DEF UsesInv, Abort, Crash, WrpRollback
<1>3. req[w].use \in Uses \cup {Nothing}
  BY <1>1 DEF Req
<1>4. Tables'
  BY <1>3 DEF UsesInv, Tables, Abort, Crash, WrpRollback, Insert, useVars
<1>5. QED BY <1>2, <1>4 DEF UsesInv

LEMMA RevokeSaveTyped ==
    ASSUME UsesInv, NEW w \in Workers, RevokeSave(w)
    PROVE  UsesInv'
<1>1. req[w].use \in Uses /\ today \in Days
  BY DEF UsesInv, Tables, Requested, ReqSound, RevokeSave
<1>2. Requested'
  BY FreeSound, Served DEF UsesInv, RevokeSave
<1>3. use' \in [Uses -> UseRow \cup Absent]
  <2>1. CASE Present(use, req[w].use)
    <3>1. use[req[w].use] \in UseRow
      BY <1>1, <2>1 DEF UsesInv, Tables, Present
    <3>2. [use[req[w].use] EXCEPT !.end = today] \in UseRow
      BY <1>1, <3>1 DEF UseRow
    <3>3. use' = [use EXCEPT ![req[w].use] = [use[req[w].use] EXCEPT !.end = today]]
      BY <2>1 DEF RevokeSave
    <3>4. QED BY <3>2, <3>3 DEF UsesInv, Tables
  <2>2. QED BY <2>1 DEF RevokeSave, UsesInv, Tables
<1>4. QED BY <1>2, <1>3 DEF UsesInv, Tables, RevokeSave, Insert

LEMMA CheckUsesTyped ==
    ASSUME UsesInv, NEW w \in Workers, CheckUses(w)
    PROVE  UsesInv'
BY FreeSound, Served DEF UsesInv, Tables, CheckUses, Reads, useVars

\* The links to the policies that POST /wrp has found (f) or makes (new).
NewLinks(b, f, missing, new) ==
    LET ps == Marked(b.policies)
    IN {[policy |-> IF ps[i].uri \in missing THEN new[ps[i].uri] ELSE f[ps[i].uri],
         primary |-> ps[i].primary] : i \in DOMAIN ps}

\* What POST /wrp commits: its entity and its use, and the policies it has found
\* or makes.
LEMMA WrpLinks ==
    ASSUME NEW b \in Bodies, NEW f \in [UrisOf(b) -> Policies \cup {Missing}],
           NEW missing \in SUBSET UrisOf(b), \A uri \in UrisOf(b) : f[uri] = Missing => uri \in missing,
           NEW new \in [missing -> Policies]
    PROVE  /\ NewLinks(b, f, missing, new) \subseteq Links
           /\ \E l \in NewLinks(b, f, missing, new) : l.primary
<1> DEFINE ps == Marked(b.policies)
           k(i) == IF ps[i].uri \in missing THEN new[ps[i].uri] ELSE f[ps[i].uri]
<1>1. b.policies \in Seq([uri : Uris, primary : BOOLEAN]) /\ b.policies # <<>>
  BY UsesInputs
<1>2. /\ ps \in Seq([uri : Uris, primary : BOOLEAN]) /\ DOMAIN ps = DOMAIN b.policies
      /\ \A i \in DOMAIN b.policies : ps[i].uri = b.policies[i].uri
      /\ \E i \in DOMAIN ps : ps[i].primary
  BY <1>1, MarkedPolicies, Zenon
<1>3. \A i \in DOMAIN ps : ps[i].primary \in BOOLEAN
  <2>1. \A i \in DOMAIN ps : ps[i] \in [uri : Uris, primary : BOOLEAN]
    BY <1>2, SeqItem, Zenon
  <2>2. QED BY <2>1, PolicyItem, Zenon
<1> HIDE DEF ps
<1>4. \A i \in DOMAIN ps : ps[i].uri \in UrisOf(b)
  BY <1>2, Zenon DEF UrisOf
<1>5. \A i \in DOMAIN ps : k(i) \in Policies
  BY <1>4
<1>6. ASSUME NEW x \in Policies, NEW q \in BOOLEAN
      PROVE  [policy |-> x, primary |-> q] \in Links /\ [policy |-> x, primary |-> q].primary = q
  BY DEF Links
<1>7. \A i \in DOMAIN ps : /\ [policy |-> k(i), primary |-> ps[i].primary] \in Links
                           /\ [policy |-> k(i), primary |-> ps[i].primary].primary = ps[i].primary
  <2> HIDE DEF k
  <2> QED BY <1>3, <1>5, <1>6, Zenon
<1>8. {[policy |-> k(i), primary |-> ps[i].primary] : i \in DOMAIN ps} \subseteq Links
  <2> HIDE DEF k
  <2> QED BY <1>7, Zenon
<1>9. \E l \in {[policy |-> k(i), primary |-> ps[i].primary] : i \in DOMAIN ps} : l.primary
  <2>1. PICK i \in DOMAIN ps : ps[i].primary
    BY <1>2
  <2> HIDE DEF k
  <2>2. [policy |-> k(i), primary |-> ps[i].primary].primary
    BY <1>7, <2>1, Zenon
  <2>3. QED BY <2>1, <2>2, Zenon
<1>10. QED BY <1>8, <1>9, Zenon DEF ps, NewLinks

LEMMA WrpCommitTyped ==
    ASSUME UsesInv, NEW w \in Workers, WrpCommit(w)
    PROVE  UsesInv' /\ \E u \in Uses : /\ \A v \in Uses : v # u => /\ use'[v] = use[v]
                                                                /\ purposes'[v] = purposes[v]
                                                                /\ privacy'[v] = privacy[v]
                                                                /\ creds'[v] = creds[v]
                                       /\ purposes'[u] # {} /\ creds'[u] # {}
                                       /\ \E l \in privacy'[u] : l.primary
<1> DEFINE b == req[w].asked.body
           f == req[w].found
           missing == {uri \in DOMAIN f : f[uri] = Missing}
           links(new) == NewLinks(b, f, missing, new)
<1>1. /\ req[w].asked \in Wrp /\ f \in [UrisOf(b) -> Policies \cup {Missing}]
      /\ req[w].asked.row \in EntityRows /\ b \in Bodies
  BY DEF UsesInv, Requested, ReqSound, WrpCommit, Wrp
<1>2. DOMAIN f = UrisOf(b)
  BY <1>1
<1>3. PICK e \in Entities, u \in Uses, new \in [missing -> Policies] :
          /\ entity[e] = Unused /\ use[u] = Unused
          /\ \A uri \in missing : policy[new[uri]] = Unused
          /\ \A x, y \in missing : new[x] = new[y] => x = y
          /\ entity' = [entity EXCEPT ![e] = req[w].asked.row]
          /\ use' = [use EXCEPT ![u] = [entity |-> e, start |-> today, end |-> Nothing]]
          /\ policy' = [k \in Policies |-> IF \E uri \in missing : new[uri] = k
                                           THEN CHOOSE uri \in missing : new[uri] = k ELSE policy[k]]
          /\ purposes' = [purposes EXCEPT ![u] = {b.purposes[i] : i \in DOMAIN b.purposes}]
          /\ creds' = [creds EXCEPT ![u] = {b.credentials[i] : i \in DOMAIN b.credentials}]
          /\ privacy' = [privacy EXCEPT ![u] = links(new)]
  BY Zenon DEF WrpCommit, NewLinks
<1>4. b.purposes \in Seq(Langs) /\ b.purposes # <<>> /\ b.credentials \in Seq(Credentials)
      /\ b.credentials # <<>>
  BY <1>1, UsesInputs
<1>5. /\ {b.purposes[i] : i \in DOMAIN b.purposes} \in SUBSET Langs
      /\ {b.purposes[i] : i \in DOMAIN b.purposes} # {}
      /\ {b.credentials[i] : i \in DOMAIN b.credentials} \in SUBSET Credentials
      /\ {b.credentials[i] : i \in DOMAIN b.credentials} # {}
  <2> HIDE DEF b
  <2>1. /\ 1 \in DOMAIN b.purposes /\ 1 \in DOMAIN b.credentials
        /\ \A i \in DOMAIN b.purposes : b.purposes[i] \in Langs
        /\ \A i \in DOMAIN b.credentials : b.credentials[i] \in Credentials
    BY <1>4, SeqItem
  <2>2. QED BY <2>1
<1>6. links(new) \subseteq Links /\ \E l \in links(new) : l.primary
  <2> HIDE DEF b, f
  <2>1. missing \in SUBSET UrisOf(b) /\ \A uri \in UrisOf(b) : f[uri] = Missing => uri \in missing
    BY <1>2, Zenon
  <2> HIDE DEF missing
  <2>2. QED BY <1>1, <1>3, <2>1, WrpLinks, Zenon
<1>7. missing \subseteq Uris
  BY <1>1, <1>2, LookupFits
<1> HIDE DEF b, f, missing, links
<1>8. Requested'
  BY FreeSound, Served DEF UsesInv, WrpCommit
<1>9. policy' \in [Policies -> Uris \cup Absent]
  <2>1. ASSUME NEW k \in Policies PROVE policy'[k] \in Uris \cup Absent
    <3>1. CASE \E uri \in missing : new[uri] = k
      <4>1. policy'[k] = CHOOSE uri \in missing : new[uri] = k
        BY <1>3, <3>1
      <4>2. (CHOOSE uri \in missing : new[uri] = k) \in missing
        BY <3>1, Zenon
      <4>3. QED BY <1>7, <4>1, <4>2
    <3>2. CASE ~ \E uri \in missing : new[uri] = k
      BY <1>3, <3>2 DEF UsesInv, Tables
    <3>3. QED BY <3>1, <3>2
  <2>2. QED BY <1>3, <2>1
<1>10. [entity |-> e, start |-> today, end |-> Nothing] \in UseRow
  BY DEF UseRow, UsesInv, Tables
<1>11. Tables'
  BY <1>1, <1>3, <1>5, <1>6, <1>9, <1>10 DEF UsesInv, Tables, WrpCommit
<1>12. /\ \A v \in Uses : v # u => /\ use'[v] = use[v] /\ purposes'[v] = purposes[v]
                                  /\ privacy'[v] = privacy[v] /\ creds'[v] = creds[v]
       /\ purposes'[u] # {} /\ creds'[u] # {} /\ privacy'[u] = links(new)
  BY <1>3, <1>5 DEF UsesInv, Tables
<1>13. QED BY <1>6, <1>8, <1>11, <1>12, Zenon DEF UsesInv

LEMMA DropTyped ==
    ASSUME UsesInv, NEW us \in SUBSET Uses, Drop(us),
           entity' \in [Entities -> EntityRows \cup Absent], Write
    PROVE  UsesInv'
<1>1. use' \in [Uses -> UseRow \cup Absent]
  BY DEF UsesInv, Tables, Drop, Absent
<1>2. /\ purposes' \in [Uses -> SUBSET Langs] /\ privacy' \in [Uses -> SUBSET Links]
      /\ creds' \in [Uses -> SUBSET Credentials]
  BY DEF UsesInv, Tables, Drop
<1>3. QED BY <1>1, <1>2, WriteOnce DEF UsesInv, Tables, Requested, Drop

\* The admin site, the deletions and the clock.
LEMMA AdminTyped ==
    ASSUME UsesInv, AdminUses \/ Tick
    PROVE  UsesInv'
<1>1. ASSUME NEW u \in Uses, NEW form \in UseForms, AdminSaveUse(u, form) PROVE UsesInv'
  <2>1. form \in [start : Days, end : Days \cup {Nothing}, langs : SUBSET Langs]
    BY UsesInputs
  <2>2. use[u] \in UseRow
    BY <1>1 DEF UsesInv, Tables, AdminSaveUse, Present
  <2>3. [use[u] EXCEPT !.start = form.start, !.end = form.end] \in UseRow
    BY <2>1, <2>2 DEF UseRow
  <2>4. use' = [use EXCEPT ![u] = [use[u] EXCEPT !.start = form.start, !.end = form.end]]
    BY <1>1, <2>2 DEF AdminSaveUse, UseRow, UsesInv, Tables
  <2>5. use' \in [Uses -> UseRow \cup Absent]
    BY <2>3, <2>4 DEF UsesInv, Tables
  <2>6. QED BY <1>1, <2>1, <2>5, WriteOnce DEF UsesInv, Tables, Requested, AdminSaveUse
<1>2. ASSUME NEW u \in Uses, NEW form \in UseForms, NEW e \in Entities, AdminAddUse(u, e, form)
      PROVE  UsesInv'
  <2>1. form \in [start : Days, end : Days \cup {Nothing}, langs : SUBSET Langs]
    BY UsesInputs
  <2>2. [entity |-> e, start |-> form.start, end |-> form.end] \in UseRow
    BY <2>1 DEF UseRow
  <2>3. QED BY <1>2, <2>1, <2>2, WriteOnce DEF UsesInv, Tables, Requested, AdminAddUse
<1>3. ASSUME NEW u \in Uses, DeleteUse(u) PROVE UsesInv'
  BY <1>3, DropTyped DEF DeleteUse, UsesInv, Tables
<1>4. ASSUME NEW k \in Policies, DeletePolicy(k) PROVE UsesInv'
  <2>1. /\ policy' \in [Policies -> Uris \cup Absent]
        /\ privacy' \in [Uses -> SUBSET Links]
        /\ cut' \subseteq Uses
    BY <1>4 DEF UsesInv, Tables, DeletePolicy, Absent
  <2>2. QED BY <1>4, <2>1, WriteOnce DEF UsesInv, Tables, Requested, DeletePolicy
<1>5. CASE Tick
  <2>1. today' \in Days
    <3>1. LastDay \in Nat
      BY UsesInputs
    <3>2. QED BY <1>5, <3>1 DEF UsesInv, Tables, Tick, Days
  <2>2. QED BY <1>5, <2>1 DEF UsesInv, Tables, Requested, Tick, useVars
<1>6. QED BY <1>1, <1>2, <1>3, <1>4, <1>5 DEF AdminUses

\* What the issuances, the PUTs and the forms of entities do to the intended uses.
LEMMA PartyTyped ==
    ASSUME UsesInv, Issue \/ Administer
    PROVE  UsesInv'
<1>1. ASSUME Other, UNCHANGED writes \/ Write PROVE UsesInv'
  BY <1>1, WriteOnce DEF Other, UsesInv, Tables, Requested, useVars
<1>2. CASE Issue
  BY <1>1, <1>2 DEF Issue, PutDelete, PutCreate, PutEnd, IssueLoad, IssueRead, IssueSign
<1>3. CASE Administer
  <2>1. ASSUME NEW l \in Legals, NEW row \in LegalRows, AdminSaveLegal(l, row) PROVE UsesInv'
    BY <1>1, <2>1 DEF AdminSaveLegal
  <2>2. ASSUME NEW e \in Entities, NEW row \in EntityRows, AdminSaveEntity(e, row) PROVE UsesInv'
    BY <2>2, WriteOnce DEF AdminSaveEntity, UsesInv, Tables, Requested, useVars
  <2>3. ASSUME NEW e \in Entities, RemoveEntity(e) PROVE UsesInv'
    <3>1. entity' \in [Entities -> EntityRows \cup Absent]
      BY <2>3 DEF RemoveEntity, DeleteEntity, UsesInv, Tables, Absent
    <3>2. QED BY <2>3, <3>1, DropTyped DEF RemoveEntity, DeleteEntity
  <2>4. QED BY <1>3, <2>1, <2>2, <2>3 DEF Administer
<1>4. QED BY <1>2, <1>3

LEMMA InitTyped == Init => UsesInv
<1> SUFFICES ASSUME Init PROVE UsesInv
  OBVIOUS
<1>1. 0 \in 0..MaxWrites
  BY UsesInputs
<1>2. Tables
  BY <1>1, UsesStart DEF Init, UsesInit, Tables
<1>3. Requested
  BY FreeSound DEF Init, UsesInit, Requested, ReqSound
<1>4. QED BY <1>2, <1>3 DEF UsesInv

LEMMA NextTyped ==
    ASSUME UsesInv, [Next]_vars
    PROVE  UsesInv'
<1>1. CASE UNCHANGED vars
  BY <1>1 DEF vars, useVars, UsesInv, Tables, Requested
<1>2. CASE (Issue \/ Administer) /\ answer' = Nothing
  BY <1>2, PartyTyped
<1>3. CASE UsesNext
  <2>1. ASSUME NEW w \in Workers, NEW c \in Criteria, CheckEntity(w, c) PROVE UsesInv'
    BY <2>1, Accept DEF CheckEntity, Reads
  <2>2. ASSUME NEW w \in Workers, NEW e \in Entities, NEW b \in Bodies, Declare(w, e, b)
        PROVE  UsesInv'
    BY <2>2, Accept
  <2>3. ASSUME NEW w \in Workers, NEW row \in EntityRows, NEW b \in Bodies, WrpLook(w, row, b)
        PROVE  UsesInv'
    BY <2>3, Accept
  <2>4. ASSUME NEW w \in Workers, NEW u \in Uses, RevokeLoad(w, u) PROVE UsesInv'
    BY <2>4, Accept
  <2>5. ASSUME NEW w \in Workers, Serve(w) PROVE UsesInv'
    BY <2>5, InsertsTyped, PolicyTyped, EndTyped, WrpCommitTyped, RevokeSaveTyped DEF Serve
  <2>6. ASSUME NEW w \in Workers, CheckUses(w) PROVE UsesInv'
    BY <2>6, CheckUsesTyped
  <2>7. QED BY <1>3, <2>1, <2>2, <2>3, <2>4, <2>5, <2>6, AdminTyped, Zenon DEF UsesNext
<1>4. QED BY <1>1, <1>2, <1>3 DEF Next

\* A use that was revoked keeps its row, with an end, or is gone for good.
RevokedEnded ==
    /\ revoked \subseteq Uses
    /\ \A u \in revoked : use[u] # Unused /\ (Present(use, u) => use[u].end # Nothing)

LEMMA EndedKept ==
    ASSUME RevokedEnded, revoked' \subseteq revoked,
           \A u \in revoked' : use[u] # Unused => use'[u] = use[u] \/ use'[u] = Deleted
    PROVE  RevokedEnded'
BY UsesSentinels DEF RevokedEnded, Present, Absent

LEMMA ServeEnded ==
    ASSUME UsesInv, RevokedEnded, NEW w \in Workers, Serve(w)
    PROVE  RevokedEnded'
<1>1. CASE InsertUse(w)
  <2>1. PICK u \in Uses :
            /\ use[u] = Unused
            /\ use' = [use EXCEPT ![u] = [entity |-> req[w].entity, start |-> today, end |-> Nothing]]
    BY <1>1 DEF InsertUse
  <2>2. revoked' = revoked /\ \A v \in Uses : v # u => use'[v] = use[v]
    BY <1>1, <2>1 DEF InsertUse, UsesInv, Tables
  <2>3. QED BY <2>1, <2>2, EndedKept DEF RevokedEnded
<1>2. CASE WrpCommit(w)
  <2>1. PICK e \in Entities, u \in Uses :
            /\ use[u] = Unused
            /\ use' = [use EXCEPT ![u] = [entity |-> e, start |-> today, end |-> Nothing]]
    BY <1>2, Zenon DEF WrpCommit
  <2>2. revoked' = revoked
    BY <1>2, Zenon DEF WrpCommit
  <2>3. \A v \in Uses : v # u => use'[v] = use[v]
    BY <2>1 DEF UsesInv, Tables
  <2>4. QED BY <2>1, <2>2, <2>3, EndedKept DEF RevokedEnded
<1>3. CASE RevokeSave(w)
  <2> DEFINE v == req[w].use
  <2>1. CASE ~Present(use, v)
    <3>1. use' = use /\ revoked' = revoked
      BY <1>3, <2>1 DEF RevokeSave
    <3>2. QED BY <3>1, EndedKept
  <2>2. CASE Present(use, v)
    <3>1. v \in Uses
      BY <1>3 DEF RevokeSave, UsesInv, Requested, ReqSound
    <3>2. use' = [use EXCEPT ![v].end = today] /\ revoked' = revoked \cup {v}
      BY <1>3, <2>2 DEF RevokeSave
    <3>3. use[v] \in UseRow /\ today # Nothing
      BY <2>2, <3>1, UsesSentinels DEF UsesInv, Tables, Present
    <3>4. use'[v].end = today /\ \A u \in Uses : u # v => use'[u] = use[u]
      BY <3>1, <3>2, <3>3 DEF UseRow, UsesInv, Tables
    <3>5. use'[v] # Unused
      <4>1. use'[v] \in UseRow
        BY <3>1, <3>2, <3>3 DEF UseRow, UsesInv, Tables
      <4>2. QED BY <4>1, UsesSentinels DEF Absent
    <3>6. QED BY <3>1, <3>2, <3>3, <3>4, <3>5 DEF RevokedEnded, Present
  <2>3. QED BY <2>1, <2>2
<1>4. CASE UNCHANGED <<use, revoked>>
  BY <1>4, EndedKept
<1>5. QED
  BY <1>1, <1>2, <1>3, <1>4 DEF Serve, InsertPurpose, FindPolicy, CreatePolicy, LinkPolicy,
     InsertCredential, Abort, Crash, WrpRollback, Insert, useVars

LEMMA DropEnded ==
    ASSUME RevokedEnded, NEW us, Drop(us)
    PROVE  RevokedEnded'
BY EndedKept DEF Drop, RevokedEnded

LEMMA AdminEnded ==
    ASSUME UsesInv, RevokedEnded, AdminUses
    PROVE  RevokedEnded'
<1>1. ASSUME NEW u \in Uses, NEW form \in UseForms, AdminSaveUse(u, form) PROVE RevokedEnded'
  <2>1. revoked' = revoked \ {u} /\ \A v \in Uses : v # u => use'[v] = use[v]
    BY <1>1 DEF AdminSaveUse, UsesInv, Tables
  <2>2. QED BY <2>1, EndedKept DEF RevokedEnded
<1>2. ASSUME NEW u \in Uses, NEW form \in UseForms, NEW e \in Entities, AdminAddUse(u, e, form)
      PROVE  RevokedEnded'
  <2>1. revoked' = revoked /\ use[u] = Unused /\ \A v \in Uses : v # u => use'[v] = use[v]
    BY <1>2 DEF AdminAddUse, UsesInv, Tables
  <2>2. QED BY <2>1, EndedKept DEF RevokedEnded
<1>3. ASSUME NEW u \in Uses, DeleteUse(u) PROVE RevokedEnded'
  BY <1>3, DropEnded DEF DeleteUse
<1>4. ASSUME NEW k \in Policies, DeletePolicy(k) PROVE RevokedEnded'
  BY <1>4, EndedKept DEF DeletePolicy
<1>5. QED BY <1>1, <1>2, <1>3, <1>4 DEF AdminUses

LEMMA NextEnded ==
    ASSUME UsesInv, RevokedEnded, [Next]_vars
    PROVE  RevokedEnded'
<1>1. CASE UNCHANGED <<use, revoked>>
  BY <1>1, EndedKept
<1>2. ASSUME NEW e \in Entities, RemoveEntity(e) PROVE RevokedEnded'
  BY <1>2, DropEnded DEF RemoveEntity, DeleteEntity
<1>3. CASE Issue
  BY <1>1, <1>3 DEF Issue, PutDelete, PutCreate, PutEnd, IssueLoad, IssueRead, IssueSign, Other, useVars
<1>4. CASE Administer
  BY <1>1, <1>2, <1>4 DEF Administer, AdminSaveLegal, AdminSaveEntity, Other, useVars
<1>5. CASE UsesNext
  BY <1>1, <1>5, ServeEnded, AdminEnded
     DEF UsesNext, CheckEntity, CheckUses, Reads, Declare, WrpLook, RevokeLoad, Tick, useVars
<1>6. QED BY <1>1, <1>3, <1>4, <1>5 DEF Next, vars, useVars

LEMMA InitEnded == Init => RevokedEnded
BY DEF Init, UsesInit, RevokedEnded

LEMMA UsesKept == Spec => [](UsesInv /\ RevokedEnded)
BY InitTyped, NextTyped, InitEnded, NextEnded, PTL DEF Spec

\* The tables, and the requests on intended uses, keep their types.
THEOREM UsesTypeOKAlways == Spec => []UsesTypeOK
<1>1. ASSUME UsesInv, RevokedEnded PROVE UsesTypeOK
  BY <1>1, TypeFromInv DEF RevokedEnded
<1>2. QED BY <1>1, UsesKept, PTL

-----------------------------------------------------------------------------
(***************************************************************************)
(* The parts of an intended use                                            *)
(***************************************************************************)

Has(u, k) ==
    \/ k = "purpose" /\ purposes[u] # {}
    \/ k = "policy" /\ \E l \in privacy[u] : l.primary
    \/ k = "credential" /\ creds[u] # {}

\* A declaration has still to insert it.
Owes(u, k) ==
    \E w \in Workers : req[w].at = "declaring" /\ req[w].use = u /\ Offers(req[w].todo, k)

\* UseHasParts, part by part.
Parts == \A u \in Uses : Present(use, u) /\ u \notin cut => \A k \in Kinds : Has(u, k) \/ Owes(u, k)

LEMMA PartsMean == ASSUME Parts PROVE UseHasParts
<1> SUFFICES ASSUME NEW u \in Uses, Present(use, u), u \notin cut
             PROVE  LET due == UNION {{req[w].todo[i] : i \in DOMAIN req[w].todo} :
                                w \in {w \in Workers : req[w].at = "declaring" /\ req[w].use = u}}
                    IN /\ purposes[u] # {} \/ \E i \in due : i.kind = "purpose"
                       /\ (\E l \in privacy[u] : l.primary)
                              \/ \E i \in due : i.kind = "policy" /\ i.primary
                       /\ creds[u] # {} \/ \E i \in due : i.kind = "credential"
  BY DEF UseHasParts
<1> DEFINE due == UNION {{req[w].todo[i] : i \in DOMAIN req[w].todo} :
                            w \in {w \in Workers : req[w].at = "declaring" /\ req[w].use = u}}
<1>1. ASSUME NEW k \in Kinds PROVE Has(u, k) \/ \E i \in due : Gives(i, k)
  <2>1. CASE Owes(u, k)
    <3>1. PICK w \in Workers : req[w].at = "declaring" /\ req[w].use = u /\ Offers(req[w].todo, k)
      BY <2>1 DEF Owes
    <3>2. PICK i \in DOMAIN req[w].todo : Gives(req[w].todo[i], k)
      BY <3>1 DEF Offers
    <3>3. req[w].todo[i] \in due
      BY <3>1, <3>2
    <3> HIDE DEF due
    <3>4. QED BY <3>2, <3>3
  <2>2. QED BY <2>1 DEF Parts
<1>2. /\ Has(u, "purpose") \/ \E i \in due : Gives(i, "purpose")
      /\ Has(u, "policy") \/ \E i \in due : Gives(i, "policy")
      /\ Has(u, "credential") \/ \E i \in due : Gives(i, "credential")
  <2> HIDE DEF due
  <2> QED BY <1>1 DEF Kinds
<1> HIDE DEF due
<1>3. /\ purposes[u] # {} \/ \E i \in due : i.kind = "purpose"
      /\ (\E l \in privacy[u] : l.primary) \/ \E i \in due : i.kind = "policy" /\ i.primary
      /\ creds[u] # {} \/ \E i \in due : i.kind = "credential"
  BY <1>2, Zenon DEF Has, Gives
<1>4. QED BY <1>3, Zenon DEF due

\* The other declarations owe what they owed.
LEMMA OwesOthers ==
    ASSUME UsesInv, NEW w \in Workers, NEW x, req' = [req EXCEPT ![w] = x],
           NEW u \in Uses, NEW k \in Kinds, Owes(u, k),
           \/ req[w].use # u
           \/ req[w].at # "declaring"
           \/ x.at = "declaring" /\ x.use = req[w].use /\ x.todo = req[w].todo
    PROVE  Owes(u, k)'
<1>1. PICK v \in Workers : req[v].at = "declaring" /\ req[v].use = u /\ Offers(req[v].todo, k)
  BY DEF Owes
<1>2. req'[v] = IF v = w THEN x ELSE req[v]
  BY DEF UsesInv, Requested
<1>3. req'[v].at = "declaring" /\ req'[v].use = u /\ Offers(req'[v].todo, k)
  BY <1>1, <1>2
<1>4. QED BY <1>3 DEF Owes, Offers

\* What is left of the items offers what the first one does not give.
LEMMA TailOffers ==
    ASSUME NEW todo \in Seq(ItemRow), todo # <<>>, NEW k, Offers(todo, k), ~Gives(Head(todo), k)
    PROVE  Len(todo) # 1 /\ Offers(Tail(todo), k)
<1>1. PICK i \in DOMAIN todo : Gives(todo[i], k)
  BY DEF Offers
<1>2. i # 1
  BY <1>1, TailItems
<1>3. i - 1 \in DOMAIN Tail(todo) /\ Tail(todo)[i - 1] = todo[i]
  BY <1>2, TailItems
<1>4. Len(todo) # 1
  BY <1>2, SeqItem
<1>5. QED BY <1>1, <1>3, <1>4 DEF Offers

\* A declaration that goes on owes all but the part it has just inserted.
LEMMA OwesOn ==
    ASSUME UsesInv, NEW w \in Workers, req[w].at = "declaring",
           NEW u \in Uses, NEW k \in Kinds, ~Gives(Head(req[w].todo), k)
    PROVE  /\ Done(w, req[w]) /\ Owes(u, k) => Owes(u, k)'
           /\ \A v \in Uses : Done(w, [req[w] EXCEPT !.use = v]) =>
                  /\ Owes(u, k) /\ req[w].use # u => Owes(u, k)'
                  /\ u = v /\ Offers(req[w].todo, k) => Owes(u, k)'
<1>1. /\ req[w] \in Req /\ req[w].todo \in Seq(ItemRow) /\ req[w].todo # <<>>
      /\ req \in [Workers -> Req]
  BY DueItem DEF Steady, UsesInv, Requested
<1>2. ASSUME NEW r \in Req, r.at = "declaring", r.todo = req[w].todo, Done(w, r),
             Offers(r.todo, k), r.use = u
      PROVE  Owes(u, k)'
  <2>1. Len(r.todo) # 1 /\ Offers(Tail(r.todo), k)
    BY <1>1, <1>2, TailOffers
  <2> DEFINE n == [r EXCEPT !.todo = Tail(@), !.found = Nothing]
  <2>2. n.at = "declaring" /\ n.use = u /\ n.todo = Tail(r.todo)
    BY <1>2 DEF Req
  <2>3. req'[w] = n
    BY <1>1, <1>2, <2>1 DEF Done
  <2> HIDE DEF n
  <2>4. req'[w].at = "declaring" /\ req'[w].use = u /\ Offers(req'[w].todo, k)
    BY <2>1, <2>2, <2>3
  <2>5. QED BY <2>4 DEF Owes, Offers
<1>3. ASSUME Done(w, req[w]), Owes(u, k) PROVE Owes(u, k)'
  <2>1. CASE req[w].use = u /\ Offers(req[w].todo, k)
    BY <1>1, <1>2, <1>3, <2>1
  <2>2. CASE ~(req[w].use = u /\ Offers(req[w].todo, k))
    <3>1. PICK v \in Workers : req[v].at = "declaring" /\ req[v].use = u /\ Offers(req[v].todo, k)
      BY <1>3 DEF Owes
    <3>2. v # w
      BY <2>2, <3>1
    <3>3. req'[v] = req[v]
      BY <1>1, <1>3, <3>2 DEF Done
    <3>4. req'[v].at = "declaring" /\ req'[v].use = u /\ Offers(req'[v].todo, k)
      BY <3>1, <3>3
    <3>5. QED BY <3>4 DEF Owes, Offers
  <2>3. QED BY <2>1, <2>2
<1>4. ASSUME NEW v \in Uses, Done(w, [req[w] EXCEPT !.use = v]) PROVE
             /\ Owes(u, k) /\ req[w].use # u => Owes(u, k)'
             /\ u = v /\ Offers(req[w].todo, k) => Owes(u, k)'
  <2> DEFINE r == [req[w] EXCEPT !.use = v]
  <2>1. r \in Req /\ r.at = "declaring" /\ r.todo = req[w].todo /\ r.use = v
    BY <1>1 DEF Req
  <2>2. Done(w, r)
    BY <1>4
  <2> HIDE DEF r
  <2>3. u = v /\ Offers(req[w].todo, k) => Owes(u, k)'
    BY <1>2, <2>1, <2>2
  <2>4. Owes(u, k) /\ req[w].use # u => Owes(u, k)'
    BY <2>2, OwesOthers DEF Done
  <2>5. QED BY <2>3, <2>4
<1>5. QED BY <1>3, <1>4

\* Nothing but the requests changes, and what an intended use is owed stays owed.
LEMMA PartsStay ==
    ASSUME Parts,
           \A u \in Uses : Present(use, u)' /\ u \notin cut' =>
               /\ Present(use, u) /\ u \notin cut
               /\ purposes'[u] = purposes[u] /\ privacy'[u] = privacy[u] /\ creds'[u] = creds[u]
               /\ \A k \in Kinds : Owes(u, k) => Owes(u, k)'
    PROVE  Parts'
<1> SUFFICES ASSUME NEW u \in Uses, Present(use, u)', u \notin cut', NEW k \in Kinds
             PROVE  Has(u, k)' \/ Owes(u, k)'
  BY DEF Parts
<1>1. Has(u, k) \/ Owes(u, k)
  BY DEF Parts
<1>2. Has(u, k) => Has(u, k)'
  BY DEF Has
<1>3. QED BY <1>1, <1>2

\* A step of a request that inserts nothing and is not a declaration.
LEMMA PartsIdle ==
    ASSUME UsesInv, Parts, NEW w \in Workers, NEW x, req' = [req EXCEPT ![w] = x],
           UNCHANGED useVars,
           \/ req[w].at # "declaring"
           \/ x.at = "declaring" /\ x.use = req[w].use /\ x.todo = req[w].todo
    PROVE  Parts'
<1>1. \A u \in Uses, k \in Kinds : Owes(u, k) => Owes(u, k)'
  BY OwesOthers
<1>2. QED BY <1>1, PartsStay DEF useVars, Present

LEMMA PartsAccepted ==
    ASSUME UsesInv, Parts, NEW w \in Workers,
           \/ \E e \in Entities, b \in Bodies : Declare(w, e, b)
           \/ \E row \in EntityRows, b \in Bodies : WrpLook(w, row, b)
           \/ \E u \in Uses : RevokeLoad(w, u)
           \/ \E c \in Criteria : CheckEntity(w, c)
           \/ CheckUses(w)
    PROVE  Parts'
<1>1. CASE UNCHANGED <<useVars, req>>
  <2>1. \A u \in Uses, k \in Kinds : Owes(u, k) => Owes(u, k)'
    BY <1>1 DEF Owes, Offers
  <2>2. QED BY <1>1, <2>1, PartsStay DEF useVars, Present
<1>2. Free.at = "free"
  BY DEF Free
<1>3. ASSUME UNCHANGED useVars, NEW x, req' = [req EXCEPT ![w] = x], req[w].at # "declaring"
      PROVE  Parts'
  BY <1>3, PartsIdle
<1>4. ASSUME NEW e \in Entities, NEW b \in Bodies, Declare(w, e, b) PROVE Parts'
  BY <1>2, <1>3, <1>4 DEF Declare
<1>5. ASSUME NEW row \in EntityRows, NEW b \in Bodies, WrpLook(w, row, b) PROVE Parts'
  BY <1>2, <1>3, <1>5, Zenon DEF WrpLook
<1>6. ASSUME NEW u \in Uses, RevokeLoad(w, u) PROVE Parts'
  BY <1>2, <1>3, <1>6 DEF RevokeLoad
<1>7. ASSUME NEW c \in Criteria, CheckEntity(w, c) PROVE Parts'
  BY <1>1, <1>2, <1>3, <1>7 DEF CheckEntity, Reads
<1>8. CASE CheckUses(w)
  BY <1>3, <1>8 DEF CheckUses, Reads
<1>9. QED BY <1>4, <1>5, <1>6, <1>7, <1>8

LEMMA PartsInserted ==
    ASSUME UsesInv, Parts, NEW w \in Workers,
           InsertUse(w) \/ InsertPurpose(w) \/ LinkPolicy(w) \/ InsertCredential(w)
    PROVE  Parts'
<1> DEFINE r == req[w]
           i == Head(r.todo)
<1>1. r.at = "declaring" /\ i \in ItemRow /\ Steady(r)
  BY DueItem DEF InsertUse, InsertPurpose, LinkPolicy, InsertCredential, Due
<1> SUFFICES ASSUME NEW u \in Uses, Present(use, u)', u \notin cut', NEW k \in Kinds
             PROVE  Has(u, k)' \/ Owes(u, k)'
  BY DEF Parts
<1>2. CASE InsertUse(w)
  <2>1. PICK v \in Uses :
            /\ use' = [use EXCEPT ![v] = [entity |-> r.entity, start |-> today, end |-> Nothing]]
            /\ Done(w, [r EXCEPT !.use = v])
    BY <1>2 DEF InsertUse
  <2>2. /\ UNCHANGED <<purposes, privacy, creds, cut>>
        /\ i.kind = "use" /\ r.use = Nothing /\ Complete(r.todo)
    BY <1>1, <1>2, DueItem DEF InsertUse, Due, Steady
  <2>3. ~Gives(i, k)
    BY <2>2 DEF Gives, Kinds
  <2>4. CASE u = v
    <3>1. Offers(r.todo, k)
      BY <2>2 DEF Complete
    <3>2. QED BY <1>1, <2>1, <2>3, <2>4, <3>1, OwesOn
  <2>5. CASE u # v
    <3>1. use'[u] = use[u]
      BY <2>1, <2>5 DEF UsesInv, Tables
    <3>2. Has(u, k) \/ Owes(u, k)
      BY <2>2, <3>1 DEF Parts, Present
    <3>3. Has(u, k) => Has(u, k)'
      BY <2>2 DEF Has
    <3>4. Owes(u, k) => Owes(u, k)'
      BY <1>1, <2>1, <2>2, <2>3, OwesOn, UsesSentinels
    <3>5. QED BY <3>2, <3>3, <3>4
  <2>6. QED BY <2>4, <2>5
<1>3. CASE InsertPurpose(w) \/ LinkPolicy(w) \/ InsertCredential(w)
  <2>1. /\ UNCHANGED <<use, cut>> /\ Done(w, r) /\ r.use \in Uses
        /\ InsertPurpose(w) => /\ i.kind = "purpose" /\ UNCHANGED <<privacy, creds>>
                               /\ purposes' = [purposes EXCEPT ![r.use] = @ \cup {i.lang}]
        /\ LinkPolicy(w) => /\ i.kind = "policy" /\ UNCHANGED <<purposes, creds>>
                            /\ privacy' = [privacy EXCEPT ![r.use] =
                                   @ \cup {[policy |-> r.found, primary |-> i.primary]}]
        /\ InsertCredential(w) => /\ i.kind = "credential" /\ UNCHANGED <<purposes, privacy>>
                                  /\ creds' = [creds EXCEPT ![r.use] = @ \cup {i.cred}]
    BY <1>1, <1>3, DueItem, Zenon
       DEF InsertPurpose, LinkPolicy, InsertCredential, Due
  <2>2. /\ purposes[u] \subseteq purposes'[u] /\ privacy[u] \subseteq privacy'[u]
        /\ creds[u] \subseteq creds'[u]
    BY <1>3, <2>1 DEF UsesInv, Tables
  <2>3. Has(u, k) => Has(u, k)'
    BY <2>2 DEF Has
  <2>4. Has(u, k) \/ Owes(u, k)
    BY <2>1 DEF Parts, Present
  <2>5. CASE ~Gives(i, k)
    BY <1>1, <2>1, <2>3, <2>4, <2>5, OwesOn
  <2>6. CASE Gives(i, k) /\ u # r.use
    <3>1. Owes(u, k) => Owes(u, k)'
      BY <1>1, <2>1, <2>6, OwesOthers DEF Done
    <3>2. QED BY <2>3, <2>4, <3>1
  <2>7. CASE Gives(i, k) /\ u = r.use
    <3>1. CASE InsertPurpose(w)
      <4>1. k = "purpose" /\ purposes'[u] # {}
        BY <2>1, <2>7, <3>1, AddedTo DEF Gives, UsesInv, Tables
      <4>2. QED BY <4>1 DEF Has
    <3>2. CASE LinkPolicy(w)
      <4>1. k = "policy" /\ i.primary /\ [policy |-> r.found, primary |-> i.primary] \in privacy'[u]
        BY <2>1, <2>7, <3>2, AddedTo, ZenonT(40) DEF Gives, UsesInv, Tables
      <4>2. [policy |-> r.found, primary |-> i.primary].primary
        BY <4>1
      <4>3. QED BY <4>1, <4>2, Zenon DEF Has
    <3>3. CASE InsertCredential(w)
      <4>1. k = "credential" /\ creds'[u] # {}
        BY <2>1, <2>7, <3>3, AddedTo DEF Gives, UsesInv, Tables
      <4>2. QED BY <4>1 DEF Has
    <3>4. QED BY <1>3, <3>1, <3>2, <3>3
  <2>8. QED BY <2>5, <2>6, <2>7
<1>4. QED BY <1>2, <1>3

LEMMA PartsServed ==
    ASSUME UsesInv, Parts, NEW w \in Workers, Serve(w)
    PROVE  Parts'
<1>1. CASE InsertUse(w) \/ InsertPurpose(w) \/ LinkPolicy(w) \/ InsertCredential(w)
  BY <1>1, PartsInserted
<1>2. CASE FindPolicy(w) \/ CreatePolicy(w)
  <2>1. req[w] \in Req /\ req[w].at = "declaring"
    BY <1>2, DueItem DEF FindPolicy, CreatePolicy, Due
  <2>2. PICK k : req' = [req EXCEPT ![w] = [req[w] EXCEPT !.found = k]]
    BY <1>2 DEF FindPolicy, CreatePolicy
  <2> DEFINE x == [req[w] EXCEPT !.found = k]
  <2>3. x.at = "declaring" /\ x.use = req[w].use /\ x.todo = req[w].todo
    BY <2>1 DEF Req
  <2>4. req' = [req EXCEPT ![w] = x]
    BY <2>2
  <2> HIDE DEF x
  <2>5. \A u \in Uses, j \in Kinds : Owes(u, j) => Owes(u, j)'
    BY <2>3, <2>4, OwesOthers
  <2>6. UNCHANGED <<use, purposes, privacy, creds, cut>>
    BY <1>2 DEF FindPolicy, CreatePolicy, useVars
  <2>7. QED BY <2>5, <2>6, PartsStay DEF Present
<1>3. CASE Abort(w) \/ Crash(w) \/ WrpRollback(w)
  <2>1. /\ UNCHANGED <<use, purposes, privacy, creds>> /\ req' = [req EXCEPT ![w] = Free]
        /\ cut \subseteq cut'
        /\ req[w].at = "declaring" => cut' = cut \cup ({req[w].use} \ {Nothing})
    BY <1>3 DEF Abort, Crash, WrpRollback, useVars
  <2>2. ASSUME NEW u \in Uses, u \notin cut', NEW k \in Kinds, Owes(u, k) PROVE Owes(u, k)'
    <3>1. u # Nothing
      BY UsesSentinels
    <3>2. req[w].use # u \/ req[w].at # "declaring"
      BY <2>1, <2>2, <3>1
    <3>3. QED BY <2>1, <2>2, <3>2, OwesOthers
  <2>3. QED BY <2>1, <2>2, PartsStay DEF Present
<1>4. CASE RevokeSave(w)
  <2>1. /\ UNCHANGED <<purposes, privacy, creds, cut>> /\ req' = [req EXCEPT ![w] = Free]
        /\ req[w].at # "declaring"
    BY <1>4 DEF RevokeSave
  <2>2. \A u \in Uses, k \in Kinds : Owes(u, k) => Owes(u, k)'
    BY <2>1, OwesOthers
  <2>3. req[w].use \in Uses /\ today \in Days
    BY <1>4 DEF RevokeSave, UsesInv, Tables, Requested, ReqSound
  <2>4. \A u \in Uses : Present(use, u)' => Present(use, u)
    BY <1>4, <2>3 DEF RevokeSave, Present, UsesInv, Tables
  <2>5. QED BY <2>1, <2>2, <2>4, PartsStay
<1>5. CASE WrpCommit(w)
  <2>1. PICK v \in Uses : /\ \A u \in Uses : u # v => /\ use'[u] = use[u]
                                                     /\ purposes'[u] = purposes[u]
                                                     /\ privacy'[u] = privacy[u]
                                                     /\ creds'[u] = creds[u]
                          /\ purposes'[v] # {} /\ creds'[v] # {}
                          /\ \E l \in privacy'[v] : l.primary
    BY <1>5, WrpCommitTyped
  <2>2. /\ cut' = cut /\ req' = [req EXCEPT ![w] = Free] /\ req[w].at # "declaring"
    BY <1>5 DEF WrpCommit
  <2>3. \A u \in Uses, k \in Kinds : Owes(u, k) => Owes(u, k)'
    BY <2>2, OwesOthers
  <2>4. \A k \in Kinds : Has(v, k)'
    BY <2>1 DEF Has, Kinds
  <2>5. \A u \in Uses, k \in Kinds : u # v /\ Has(u, k) => Has(u, k)'
    BY <2>1 DEF Has
  <2>6. \A u \in Uses : u # v /\ Present(use, u)' => Present(use, u)
    BY <2>1 DEF Present
  <2>7. QED BY <2>2, <2>3, <2>4, <2>5, <2>6 DEF Parts
<1>6. QED BY <1>1, <1>2, <1>3, <1>4, <1>5 DEF Serve

\* The admin site and the deletions may only leave uses incomplete that are cut.
LEMMA PartsEdited ==
    ASSUME UsesInv, Parts, UNCHANGED req,
           \A u \in Uses : Present(use, u)' /\ u \notin cut' =>
               /\ Present(use, u) /\ u \notin cut
               /\ \A k \in Kinds : Has(u, k) => Has(u, k)'
    PROVE  Parts'
<1>1. \A u \in Uses, k \in Kinds : Owes(u, k) => Owes(u, k)'
  BY DEF Owes
<1>2. QED BY <1>1 DEF Parts

LEMMA PartsDropped ==
    ASSUME UsesInv, Parts, NEW us \in SUBSET Uses, Drop(us)
    PROVE  Parts'
<1>1. \A u \in Uses : Present(use, u)' => u \notin us /\ Present(use, u)
  BY DEF Drop, Present, Absent
<1>2. \A u \in Uses \ us, k \in Kinds : Has(u, k) => Has(u, k)'
  BY DEF Drop, Has
<1>3. QED BY <1>1, <1>2, PartsEdited DEF Drop

LEMMA PartsAdmin ==
    ASSUME UsesInv, Parts, AdminUses \/ Tick
    PROVE  Parts'
<1>1. ASSUME NEW u \in Uses, NEW form \in UseForms, AdminSaveUse(u, form) PROVE Parts'
  <2>1. /\ Present(use, u) /\ cut' = IF form.langs = {} THEN cut \cup {u} ELSE cut
        /\ purposes' = [purposes EXCEPT ![u] = form.langs] /\ UNCHANGED <<privacy, creds, req>>
        /\ \E y : use' = [use EXCEPT ![u] = y]
    BY <1>1 DEF AdminSaveUse
  <2>2. \A v \in Uses : Present(use, v)' => Present(use, v)
    BY <2>1 DEF Present, UsesInv, Tables
  <2>3. \A v \in Uses, k \in Kinds : v \notin cut' /\ Has(v, k) => Has(v, k)'
    BY <2>1 DEF Has, UsesInv, Tables
  <2>4. \A v \in Uses : v \notin cut' => v \notin cut
    BY <2>1
  <2>5. QED BY <2>1, <2>2, <2>3, <2>4, PartsEdited
<1>2. ASSUME NEW u \in Uses, NEW form \in UseForms, NEW e \in Entities, AdminAddUse(u, e, form)
      PROVE  Parts'
  <2>1. /\ cut' = cut \cup {u} /\ purposes' = [purposes EXCEPT ![u] = form.langs]
        /\ UNCHANGED <<privacy, creds, req>>
        /\ \E y : use' = [use EXCEPT ![u] = y]
    BY <1>2 DEF AdminAddUse
  <2>2. \A v \in Uses : v \notin cut' /\ Present(use, v)' => Present(use, v)
    BY <2>1 DEF Present, UsesInv, Tables
  <2>3. \A v \in Uses, k \in Kinds : v \notin cut' /\ Has(v, k) => Has(v, k)'
    BY <2>1 DEF Has, UsesInv, Tables
  <2>4. QED BY <2>1, <2>2, <2>3, PartsEdited
<1>3. ASSUME NEW u \in Uses, DeleteUse(u) PROVE Parts'
  BY <1>3, PartsDropped DEF DeleteUse
<1>4. ASSUME NEW k \in Policies, DeletePolicy(k) PROVE Parts'
  <2>1. /\ privacy' = [u \in Uses |-> {l \in privacy[u] : l.policy # k}]
        /\ cut' = cut \cup {u \in Uses : [policy |-> k, primary |-> TRUE] \in privacy[u]}
        /\ UNCHANGED <<use, purposes, creds, req>>
    BY <1>4 DEF DeletePolicy
  <2>2. ASSUME NEW u \in Uses, u \notin cut', NEW l \in privacy[u], l.primary
        PROVE  l \in privacy'[u]
    <3>1. l \in Links
      BY DEF UsesInv, Tables
    <3>2. ASSUME l.policy = k PROVE l = [policy |-> k, primary |-> TRUE]
      BY <2>2, <3>1, <3>2 DEF Links
    <3>3. l.policy # k
      BY <2>1, <2>2, <3>2
    <3>4. QED BY <2>1, <3>3
  <2>3. ASSUME NEW u \in Uses, u \notin cut', NEW j \in Kinds, Has(u, j) PROVE Has(u, j)'
    BY <2>1, <2>2, <2>3, Zenon DEF Has
  <2>4. QED BY <2>1, <2>3, PartsEdited DEF Present
<1>5. CASE Tick
  <2>1. UNCHANGED useVars /\ UNCHANGED req
    BY <1>5 DEF Tick
  <2>2. QED BY <2>1, PartsEdited DEF useVars, Present, Has
<1>6. QED BY <1>1, <1>2, <1>3, <1>4, <1>5 DEF AdminUses

LEMMA PartsParty ==
    ASSUME UsesInv, Parts, Issue \/ Administer
    PROVE  Parts'
<1>1. ASSUME UNCHANGED useVars, UNCHANGED req PROVE Parts'
  BY <1>1, PartsEdited DEF useVars, Present, Has
<1>2. CASE Issue
  BY <1>1, <1>2 DEF Issue, PutDelete, PutCreate, PutEnd, IssueLoad, IssueRead, IssueSign, Other
<1>3. CASE Administer
  BY <1>1, <1>3, PartsDropped
     DEF Administer, AdminSaveLegal, AdminSaveEntity, RemoveEntity, DeleteEntity, Other
<1>4. QED BY <1>2, <1>3

LEMMA InitParts == Init => Parts
BY UsesStart DEF Init, UsesInit, Parts, Has, Kinds, Present

LEMMA NextParts ==
    ASSUME UsesInv, Parts, [Next]_vars
    PROVE  Parts'
<1>1. CASE UNCHANGED vars
  BY <1>1, PartsEdited DEF vars, useVars, Present, Has
<1>2. CASE (Issue \/ Administer) /\ answer' = Nothing
  BY <1>2, PartsParty
<1>3. CASE UsesNext
  BY <1>3, PartsAccepted, PartsServed, PartsAdmin DEF UsesNext
<1>4. QED BY <1>1, <1>2, <1>3 DEF Next

\* An intended use that is not known to be cut has its parts or is owed them.
THEOREM UseHasPartsAlways == Spec => []UseHasParts
<1>1. Spec => [](UsesInv /\ Parts)
  BY InitTyped, NextTyped, InitParts, NextParts, PTL DEF Spec
<1>2. QED BY <1>1, PartsMean, PTL

-----------------------------------------------------------------------------
(***************************************************************************)
(* The rows of a policy URI                                                *)
(***************************************************************************)

\* The requests that have found no row for a URI and may still make one.
Pending(uri) ==
    {w \in Workers :
        \/ /\ req[w].at = "declaring" /\ req[w].found = Missing
           /\ Head(req[w].todo).kind = "policy" /\ Head(req[w].todo).uri = uri
        \/ /\ req[w].at = "wrp" /\ uri \in DOMAIN req[w].found /\ req[w].found[uri] = Missing}

Counted(uri) ==
    /\ IsFiniteSet(RowsOf(uri))
    /\ Cardinality(RowsOf(uri)) + Cardinality(Pending(uri)) <= Cardinality(Workers)

RowsCounted == \A uri \in Uris : Counted(uri)

LEMMA PendingFinite ==
    ASSUME NEW P, P \subseteq Workers
    PROVE  IsFiniteSet(P) /\ Cardinality(P) \in Nat /\ Cardinality(P) <= Cardinality(Workers)
           /\ Cardinality(Workers) \in Nat /\ Cardinality(Workers) >= 1
<1>1. IsFiniteSet(Workers) /\ Workers # {}
  BY UsesInputs
<1>2. /\ IsFiniteSet(P) /\ Cardinality(P) <= Cardinality(Workers)
  BY <1>1, FS_Subset
<1>3. Cardinality(P) \in Nat /\ Cardinality(Workers) \in Nat
  BY <1>1, <1>2, FS_CardinalityType
<1>4. Cardinality(Workers) # 0
  BY <1>1, FS_EmptySet
<1>5. QED BY <1>2, <1>3, <1>4

LEMMA RowsMean == ASSUME RowsCounted PROVE PolicyRowsBounded
<1> SUFFICES ASSUME NEW uri \in Uris PROVE Cardinality(RowsOf(uri)) <= Cardinality(Workers)
  BY DEF PolicyRowsBounded
<1>1. Counted(uri)
  BY DEF RowsCounted
<1>2. Cardinality(RowsOf(uri)) \in Nat
  BY <1>1, FS_CardinalityType DEF Counted
<1>3. Pending(uri) \subseteq Workers
  BY DEF Pending
<1>4. QED BY <1>1, <1>2, <1>3, PendingFinite DEF Counted

\* What may become of the rows and of the requests: both may only lose, or there
\* are no rows, or one of the requests makes its row.
LEMMA CountedLess ==
    ASSUME NEW R, NEW P, NEW Q, NEW T, IsFiniteSet(R), P \subseteq Workers,
           Cardinality(R) + Cardinality(P) <= Cardinality(Workers), Q \subseteq R, T \subseteq P
    PROVE  IsFiniteSet(Q) /\ Cardinality(Q) + Cardinality(T) <= Cardinality(Workers)
<1>1. /\ IsFiniteSet(P) /\ Cardinality(P) \in Nat /\ IsFiniteSet(T) /\ Cardinality(T) \in Nat
      /\ Cardinality(R) \in Nat /\ Cardinality(Workers) \in Nat
  BY PendingFinite, FS_CardinalityType
<1>2. IsFiniteSet(Q) /\ Cardinality(Q) <= Cardinality(R) /\ Cardinality(T) <= Cardinality(P)
  BY <1>1, FS_Subset
<1>3. Cardinality(Q) \in Nat
  BY <1>2, FS_CardinalityType
<1>4. QED BY <1>1, <1>2, <1>3

LEMMA CountedNone ==
    ASSUME NEW Q, NEW T, T \subseteq Workers, Q = {}
    PROVE  IsFiniteSet(Q) /\ Cardinality(Q) + Cardinality(T) <= Cardinality(Workers)
<1>1. IsFiniteSet(Q) /\ Cardinality(Q) = 0
  BY FS_EmptySet
<1>2. QED BY <1>1, PendingFinite

LEMMA CountedMade ==
    ASSUME NEW R, NEW P, NEW w \in P, NEW k, IsFiniteSet(R), P \subseteq Workers,
           Cardinality(R) + Cardinality(P) <= Cardinality(Workers)
    PROVE  /\ IsFiniteSet(R \cup {k})
           /\ Cardinality(R \cup {k}) + Cardinality(P \ {w}) <= Cardinality(Workers)
<1>1. IsFiniteSet(P) /\ Cardinality(P) \in Nat
  BY PendingFinite
<1>2. IsFiniteSet(P \ {w}) /\ Cardinality(P \ {w}) = Cardinality(P) - 1
  BY <1>1, FS_RemoveElement
<1>3. IsFiniteSet(R \cup {k}) /\ Cardinality(R \cup {k}) <= Cardinality(R) + 1
  <2>1. Cardinality(R) \in Nat
    BY FS_CardinalityType
  <2>2. CASE k \in R
    <3>1. R \cup {k} = R
      BY <2>2
    <3>2. QED BY <2>1, <3>1
  <2>3. CASE k \notin R
    <3>1. IsFiniteSet(R \cup {k}) /\ Cardinality(R \cup {k}) = Cardinality(R) + 1
      BY <2>3, FS_AddElement, Zenon
    <3>2. QED BY <2>1, <3>1
  <2>4. QED BY <2>2, <2>3
<1>4. Cardinality(R \cup {k}) \in Nat /\ Cardinality(R) \in Nat /\ Cardinality(Workers) \in Nat
  BY <1>3, PendingFinite, FS_CardinalityType
<1>5. Cardinality(R \cup {k}) + Cardinality(P \ {w}) <= Cardinality(Workers)
  BY <1>1, <1>2, <1>3, <1>4
<1>6. QED BY <1>3, <1>5

LEMMA CountedNext ==
    ASSUME NEW uri \in Uris, Counted(uri),
           \/ RowsOf(uri)' \subseteq RowsOf(uri) /\ Pending(uri)' \subseteq Pending(uri)
           \/ RowsOf(uri)' = {}
           \/ \E w \in Pending(uri) : \E k :
                  RowsOf(uri)' \subseteq RowsOf(uri) \cup {k} /\ Pending(uri)' \subseteq Pending(uri) \ {w}
    PROVE  Counted(uri)'
<1>1. Pending(uri) \subseteq Workers /\ Pending(uri)' \subseteq Workers
  BY DEF Pending
<1> DEFINE R == RowsOf(uri)  P == Pending(uri)  Q == RowsOf(uri)'  T == Pending(uri)'
<1>2. IsFiniteSet(R) /\ Cardinality(R) + Cardinality(P) <= Cardinality(Workers)
  BY DEF Counted
<1>3. \/ Q \subseteq R /\ T \subseteq P
      \/ Q = {}
      \/ \E w \in P : \E k : Q \subseteq R \cup {k} /\ T \subseteq P \ {w}
  OBVIOUS
<1>4. P \subseteq Workers /\ T \subseteq Workers
  BY <1>1
<1> HIDE DEF R, P, Q, T
<1>5. CASE Q \subseteq R /\ T \subseteq P
  <2>1. IsFiniteSet(Q) /\ Cardinality(Q) + Cardinality(T) <= Cardinality(Workers)
    BY <1>2, <1>4, <1>5, CountedLess
  <2>2. QED BY <2>1 DEF Counted, Q, T
<1>6. CASE Q = {}
  <2>1. IsFiniteSet(Q) /\ Cardinality(Q) + Cardinality(T) <= Cardinality(Workers)
    BY <1>4, <1>6, CountedNone
  <2>2. QED BY <2>1 DEF Counted, Q, T
<1>7. ASSUME NEW w \in P, NEW k, Q \subseteq R \cup {k}, T \subseteq P \ {w} PROVE Counted(uri)'
  <2>1. IsFiniteSet(Q) /\ Cardinality(Q) + Cardinality(T) <= Cardinality(Workers)
    <3>1. /\ IsFiniteSet(R \cup {k})
          /\ Cardinality(R \cup {k}) + Cardinality(P \ {w}) <= Cardinality(Workers)
      BY <1>2, <1>4, <1>7, CountedMade
    <3>2. P \ {w} \subseteq Workers
      BY <1>4
    <3>3. QED BY <1>7, <3>1, <3>2, CountedLess
  <2>2. QED BY <2>1 DEF Counted, Q, T
<1>8. QED BY <1>3, <1>5, <1>6, <1>7

\* A request that changes from one state to another is pending as the new one says.
LEMMA PendingOthers ==
    ASSUME UsesInv, NEW w \in Workers, NEW x, req' = [req EXCEPT ![w] = x], NEW uri,
           ~(/\ x.at = "declaring" /\ x.found = Missing
             /\ Head(x.todo).kind = "policy" /\ Head(x.todo).uri = uri),
           ~(x.at = "wrp" /\ uri \in DOMAIN x.found /\ x.found[uri] = Missing)
    PROVE  Pending(uri)' \subseteq Pending(uri) \ {w}
<1>1. \A v \in Workers : req'[v] = IF v = w THEN x ELSE req[v]
  BY DEF UsesInv, Requested
<1>2. QED BY <1>1 DEF Pending

\* A request that has not found a policy missing, and no new row.
LEMMA CountedIdle ==
    ASSUME UsesInv, RowsCounted, UNCHANGED policy,
           NEW w \in Workers, NEW x, req' = [req EXCEPT ![w] = x],
           x.at # "wrp", x.at # "declaring" \/ x.found # Missing
    PROVE  RowsCounted'
<1> SUFFICES ASSUME NEW uri \in Uris PROVE Counted(uri)'
  BY DEF RowsCounted
<1>1. Pending(uri)' \subseteq Pending(uri)
  BY PendingOthers
<1>2. RowsOf(uri)' \subseteq RowsOf(uri)
  BY DEF RowsOf
<1>3. Counted(uri)
  BY DEF RowsCounted
<1>4. QED BY <1>1, <1>2, <1>3, CountedNext

LEMMA CountedLost ==
    ASSUME UsesInv, RowsCounted, UNCHANGED req,
           \A k \in Policies : policy'[k] = policy[k] \/ policy'[k] = Deleted
    PROVE  RowsCounted'
<1> SUFFICES ASSUME NEW uri \in Uris PROVE Counted(uri)'
  BY DEF RowsCounted
<1>1. Pending(uri)' \subseteq Pending(uri)
  BY DEF Pending
<1>2. RowsOf(uri)' \subseteq RowsOf(uri)
  BY UsesSentinels DEF RowsOf, Absent
<1>3. Counted(uri)
  BY DEF RowsCounted
<1>4. QED BY <1>1, <1>2, <1>3, CountedNext

LEMMA CountedAccepted ==
    ASSUME UsesInv, RowsCounted, NEW w \in Workers,
           \/ \E e \in Entities, b \in Bodies : Declare(w, e, b)
           \/ \E u \in Uses : RevokeLoad(w, u)
           \/ \E c \in Criteria : CheckEntity(w, c)
           \/ CheckUses(w)
    PROVE  RowsCounted'
<1>1. Nothing # Missing
  BY UsesSentinels
<1>2. CASE UNCHANGED <<policy, req>>
  BY <1>2, CountedLost
<1>3. ASSUME NEW x, req' = [req EXCEPT ![w] = x], UNCHANGED policy,
             x.at # "wrp", x.at # "declaring" \/ x.found # Missing
      PROVE  RowsCounted'
  BY <1>3, CountedIdle
<1>4. ASSUME NEW e \in Entities, NEW b \in Bodies, Declare(w, e, b) PROVE RowsCounted'
  <2> DEFINE x == [Free EXCEPT !.at = "declaring", !.entity = e, !.todo = Items(b)]
  <2>1. x.at = "declaring" /\ x.found = Nothing
    BY DEF Free
  <2>2. req' = [req EXCEPT ![w] = x] /\ UNCHANGED policy
    BY <1>4 DEF Declare, useVars
  <2> HIDE DEF x
  <2>3. QED BY <1>1, <1>3, <2>1, <2>2
<1>5. ASSUME NEW u \in Uses, RevokeLoad(w, u) PROVE RowsCounted'
  <2> DEFINE x == [Free EXCEPT !.at = "revoking", !.use = u]
  <2>1. x.at = "revoking"
    BY DEF Free
  <2>2. req' = [req EXCEPT ![w] = x] /\ UNCHANGED policy
    BY <1>5 DEF RevokeLoad, useVars
  <2> HIDE DEF x
  <2>3. QED BY <1>3, <2>1, <2>2
<1>6. ASSUME NEW c \in Criteria, CheckEntity(w, c) PROVE RowsCounted'
  <2>1. UNCHANGED policy
    BY <1>6 DEF CheckEntity, Reads, useVars
  <2>2. ASSUME NEW e,
               req' = [req EXCEPT ![w] = [Free EXCEPT !.at = "checking", !.entity = e, !.asked = c]]
        PROVE  RowsCounted'
    <3> DEFINE x == [Free EXCEPT !.at = "checking", !.entity = e, !.asked = c]
    <3>1. x.at = "checking"
      BY DEF Free
    <3>2. req' = [req EXCEPT ![w] = x]
      BY <2>2
    <3> HIDE DEF x
    <3>3. QED BY <1>3, <2>1, <3>1, <3>2
  <2>3. QED BY <1>2, <1>6, <2>1, <2>2 DEF CheckEntity
<1>7. CASE CheckUses(w)
  <2>1. req' = [req EXCEPT ![w] = Free] /\ UNCHANGED policy /\ Free.at = "free"
    BY <1>7 DEF CheckUses, Reads, useVars, Free
  <2>2. QED BY <1>3, <2>1
<1>8. QED BY <1>4, <1>5, <1>6, <1>7

\* POST /wrp has looked for its policies.
LEMMA CountedLook ==
    ASSUME UsesInv, RowsCounted, NEW w \in Workers, NEW row \in EntityRows, NEW b \in Bodies,
           WrpLook(w, row, b)
    PROVE  RowsCounted'
<1> DEFINE f == [uri \in UrisOf(b) |-> Lookup(uri)]
           x == [Free EXCEPT !.at = "wrp", !.asked = [row |-> row, body |-> b], !.found = f]
<1>1. x.at = "wrp" /\ x.found = f
  BY DEF Free
<1>2. req' = [req EXCEPT ![w] = x] /\ UNCHANGED policy
  BY Zenon DEF WrpLook, useVars
<1> SUFFICES ASSUME NEW uri \in Uris PROVE Counted(uri)'
  BY DEF RowsCounted
<1>3. Counted(uri)
  BY DEF RowsCounted
<1>4. RowsOf(uri)' = RowsOf(uri)
  BY <1>2 DEF RowsOf
<1>5. CASE RowsOf(uri) = {}
  BY <1>3, <1>4, <1>5, CountedNext
<1>6. CASE RowsOf(uri) # {}
  <2>1. Lookup(uri) # Missing
    BY <1>6, UsesSentinels DEF Lookup, RowsOf
  <2>2. ~(uri \in DOMAIN f /\ f[uri] = Missing)
    BY <2>1
  <2> HIDE DEF x, f
  <2>3. Pending(uri)' \subseteq Pending(uri)
    BY <1>1, <1>2, <2>2, PendingOthers
  <2>4. QED BY <1>3, <1>4, <2>3, CountedNext
<1>7. QED BY <1>5, <1>6

\* It makes those it has found missing.
LEMMA CountedCommit ==
    ASSUME UsesInv, RowsCounted, NEW w \in Workers, WrpCommit(w)
    PROVE  RowsCounted'
<1> DEFINE f == req[w].found
           missing == {uri \in DOMAIN f : f[uri] = Missing}
<1>1. PICK new \in [missing -> Policies] :
          policy' = [k \in Policies |-> IF \E uri \in missing : new[uri] = k
                                        THEN CHOOSE uri \in missing : new[uri] = k ELSE policy[k]]
  BY Zenon DEF WrpCommit
<1>2. req' = [req EXCEPT ![w] = Free] /\ req[w].at = "wrp" /\ Free.at = "free"
  BY DEF WrpCommit, Free
<1> SUFFICES ASSUME NEW uri \in Uris PROVE Counted(uri)'
  BY DEF RowsCounted
<1>3. Counted(uri)
  BY DEF RowsCounted
<1>4. Pending(uri)' \subseteq Pending(uri) \ {w}
  BY <1>2, PendingOthers
<1>5. ASSUME NEW k \in Policies, policy'[k] = uri, policy[k] # uri
      PROVE  uri \in missing /\ new[uri] = k
  <2> HIDE DEF missing
  <2>1. \E x \in missing : new[x] = k
    BY <1>1, <1>5
  <2>2. (CHOOSE x \in missing : new[x] = k) \in missing
        /\ new[CHOOSE x \in missing : new[x] = k] = k
    BY <2>1, Zenon
  <2>3. policy'[k] = CHOOSE x \in missing : new[x] = k
    BY <1>1, <2>1
  <2>4. QED BY <1>5, <2>2, <2>3, Zenon
<1>6. CASE uri \in missing
  <2>1. w \in Pending(uri)
    BY <1>2, <1>6 DEF Pending
  <2>2. RowsOf(uri)' \subseteq RowsOf(uri) \cup {new[uri]}
    BY <1>5 DEF RowsOf
  <2>3. QED BY <1>3, <1>4, <2>1, <2>2, CountedNext
<1>7. CASE uri \notin missing
  <2>1. RowsOf(uri)' \subseteq RowsOf(uri)
    BY <1>5, <1>7 DEF RowsOf
  <2>2. QED BY <1>3, <1>4, <2>1, CountedNext
<1>8. QED BY <1>6, <1>7

\* get_or_create: the query, and the insert of what it has found missing.
LEMMA CountedPolicy ==
    ASSUME UsesInv, RowsCounted, NEW w \in Workers, FindPolicy(w) \/ CreatePolicy(w)
    PROVE  RowsCounted'
<1> DEFINE i == Head(req[w].todo)
<1>1. req[w] \in Req /\ req[w].at = "declaring" /\ i.kind = "policy"
  BY DueItem DEF FindPolicy, CreatePolicy, Due
<1> SUFFICES ASSUME NEW uri \in Uris PROVE Counted(uri)'
  BY DEF RowsCounted
<1>2. Counted(uri)
  BY DEF RowsCounted
<1>3. ASSUME NEW k, req' = [req EXCEPT ![w].found = k]
      PROVE  \E x : /\ req' = [req EXCEPT ![w] = x]
                    /\ x.at = "declaring" /\ x.found = k /\ x.todo = req[w].todo
  <2> DEFINE x == [req[w] EXCEPT !.found = k]
  <2>1. x.at = "declaring" /\ x.found = k /\ x.todo = req[w].todo
    BY <1>1 DEF Req
  <2>2. req' = [req EXCEPT ![w] = x]
    BY <1>3
  <2> HIDE DEF x
  <2>3. QED BY <2>1, <2>2
<1>4. CASE FindPolicy(w)
  <2>1. UNCHANGED policy /\ req' = [req EXCEPT ![w].found = Lookup(i.uri)]
    BY <1>4 DEF FindPolicy, useVars
  <2>2. RowsOf(uri)' = RowsOf(uri)
    BY <2>1 DEF RowsOf
  <2>3. CASE uri = i.uri /\ RowsOf(uri) = {}
    BY <1>2, <2>2, <2>3, CountedNext
  <2>4. CASE uri # i.uri \/ RowsOf(uri) # {}
    <3>1. uri = i.uri => Lookup(i.uri) # Missing
      BY <2>4, UsesSentinels DEF Lookup, RowsOf
    <3>2. PICK x : /\ req' = [req EXCEPT ![w] = x]
                   /\ x.at = "declaring" /\ x.found = Lookup(i.uri) /\ x.todo = req[w].todo
      BY <1>3, <2>1
    <3>3. Pending(uri)' \subseteq Pending(uri)
      BY <3>1, <3>2, PendingOthers
    <3>4. QED BY <1>2, <2>2, <3>3, CountedNext
  <2>5. QED BY <2>3, <2>4
<1>5. CASE CreatePolicy(w)
  <2>1. PICK k \in Policies : /\ policy' = [policy EXCEPT ![k] = i.uri]
                              /\ req' = [req EXCEPT ![w].found = k]
    BY <1>5 DEF CreatePolicy
  <2>2. PICK x : /\ req' = [req EXCEPT ![w] = x]
                 /\ x.at = "declaring" /\ x.found = k /\ x.todo = req[w].todo
    BY <1>3, <2>1
  <2>3. Pending(uri)' \subseteq Pending(uri) \ {w}
    BY <2>2, PendingOthers, UsesSentinels
  <2>4. CASE uri = i.uri
    <3>1. w \in Pending(uri)
      BY <1>1, <1>5, <2>4 DEF CreatePolicy, Pending
    <3>2. RowsOf(uri)' \subseteq RowsOf(uri) \cup {k}
      BY <2>1 DEF RowsOf, UsesInv, Tables
    <3>3. QED BY <1>2, <2>3, <3>1, <3>2, CountedNext
  <2>5. CASE uri # i.uri
    <3>1. RowsOf(uri)' \subseteq RowsOf(uri)
      BY <2>1, <2>5 DEF RowsOf, UsesInv, Tables
    <3>2. QED BY <1>2, <2>3, <3>1, CountedNext
  <2>6. QED BY <2>4, <2>5
<1>6. QED BY <1>4, <1>5

\* A declaration that goes on has not yet looked for the policy of its next item.
LEMMA CountedDone ==
    ASSUME UsesInv, RowsCounted, UNCHANGED policy, NEW w \in Workers,
           NEW r \in Req, r.at = "declaring", Done(w, r)
    PROVE  RowsCounted'
<1> DEFINE n == [r EXCEPT !.todo = Tail(@), !.found = Nothing]
<1>1. n.found = Nothing /\ n.at = "declaring" /\ Free.at = "free" /\ Nothing # Missing
  BY UsesSentinels DEF Req, Free
<1>2. req' = [req EXCEPT ![w] = IF Len(r.todo) = 1 THEN Free ELSE n]
  BY DEF Done
<1> HIDE DEF n
<1>3. CASE Len(r.todo) = 1
  BY <1>1, <1>2, <1>3, CountedIdle
<1>4. CASE Len(r.todo) # 1
  BY <1>1, <1>2, <1>4, CountedIdle
<1>5. QED BY <1>3, <1>4

LEMMA CountedServed ==
    ASSUME UsesInv, RowsCounted, NEW w \in Workers, Serve(w)
    PROVE  RowsCounted'
<1>1. CASE InsertUse(w)
  <2>1. UNCHANGED policy /\ req[w] \in Req /\ req[w].at = "declaring"
    BY <1>1, DueItem DEF InsertUse, Due
  <2>2. PICK u \in Uses : Done(w, [req[w] EXCEPT !.use = u])
    BY <1>1 DEF InsertUse
  <2> DEFINE r == [req[w] EXCEPT !.use = u]
  <2>3. r \in Req /\ r.at = "declaring"
    BY <2>1 DEF Req
  <2>4. Done(w, r)
    BY <2>2
  <2> HIDE DEF r
  <2>5. QED BY <2>1, <2>3, <2>4, CountedDone
<1>2. CASE InsertPurpose(w) \/ LinkPolicy(w) \/ InsertCredential(w)
  <2>1. UNCHANGED policy /\ req[w] \in Req /\ req[w].at = "declaring" /\ Done(w, req[w])
    BY <1>2, DueItem, Zenon DEF InsertPurpose, LinkPolicy, InsertCredential, Due
  <2>2. QED BY <2>1, CountedDone
<1>3. CASE FindPolicy(w) \/ CreatePolicy(w)
  BY <1>3, CountedPolicy
<1>4. CASE Abort(w) \/ Crash(w) \/ WrpRollback(w) \/ RevokeSave(w)
  <2>1. UNCHANGED policy /\ req' = [req EXCEPT ![w] = Free] /\ Free.at = "free"
    BY <1>4 DEF Abort, Crash, WrpRollback, RevokeSave, useVars, Free
  <2>2. QED BY <2>1, CountedIdle
<1>5. CASE WrpCommit(w)
  BY <1>5, CountedCommit
<1>6. QED BY <1>1, <1>2, <1>3, <1>4, <1>5 DEF Serve

LEMMA CountedAdmin ==
    ASSUME UsesInv, RowsCounted, AdminUses \/ Tick \/ Issue \/ Administer
    PROVE  RowsCounted'
<1>1. ASSUME UNCHANGED policy, UNCHANGED req PROVE RowsCounted'
  BY <1>1, CountedLost
<1>2. ASSUME NEW k \in Policies, DeletePolicy(k) PROVE RowsCounted'
  <2>1. UNCHANGED req /\ policy' = [policy EXCEPT ![k] = Deleted]
    BY <1>2 DEF DeletePolicy
  <2>2. \A j \in Policies : policy'[j] = policy[j] \/ policy'[j] = Deleted
    BY <2>1 DEF UsesInv, Tables
  <2>3. QED BY <2>1, <2>2, CountedLost
<1>3. CASE AdminUses \/ Tick
  BY <1>1, <1>2, <1>3
     DEF AdminUses, AdminSaveUse, AdminAddUse, DeleteUse, Drop, Tick, useVars
<1>4. CASE Issue
  BY <1>1, <1>4
     DEF Issue, PutDelete, PutCreate, PutEnd, IssueLoad, IssueRead, IssueSign, Other, useVars
<1>5. CASE Administer
  BY <1>1, <1>5
     DEF Administer, AdminSaveLegal, AdminSaveEntity, RemoveEntity, DeleteEntity, Drop, Other, useVars
<1>6. QED BY <1>3, <1>4, <1>5

LEMMA InitCounted == Init => RowsCounted
<1> SUFFICES ASSUME Init, NEW uri \in Uris PROVE Counted(uri)
  BY DEF RowsCounted
<1>1. Pending(uri) = {}
  BY DEF Init, UsesInit, Pending, Free
<1>2. RowsOf(uri) = {} \/ \E k : RowsOf(uri) = {k}
  <2>1. \A j, k \in Policies : policy[j] = policy[k] /\ policy[k] \in Uris => j = k
    BY UsesStart DEF Init, UsesInit
  <2>2. QED BY <2>1 DEF RowsOf
<1>3. IsFiniteSet(RowsOf(uri)) /\ Cardinality(RowsOf(uri)) \in {0, 1}
  BY <1>2, FS_EmptySet, FS_Singleton
<1>4. Cardinality(Pending(uri)) = 0
  BY <1>1, FS_EmptySet
<1>5. Cardinality(Workers) \in Nat /\ Cardinality(Workers) >= 1
  BY PendingFinite
<1>6. QED BY <1>3, <1>4, <1>5 DEF Counted

LEMMA NextCounted ==
    ASSUME UsesInv, RowsCounted, [Next]_vars
    PROVE  RowsCounted'
<1>1. CASE UNCHANGED vars
  BY <1>1, CountedLost DEF vars, useVars
<1>2. CASE (Issue \/ Administer) /\ answer' = Nothing
  BY <1>2, CountedAdmin
<1>3. CASE UsesNext
  BY <1>3, CountedAccepted, CountedLook, CountedServed, CountedAdmin DEF UsesNext
<1>4. QED BY <1>1, <1>2, <1>3 DEF Next

\* A URI never gets more rows than there are requests that overlap.
THEOREM PolicyRowsBoundedAlways == Spec => []PolicyRowsBounded
<1>1. Spec => [](UsesInv /\ RowsCounted)
  BY InitTyped, NextTyped, InitCounted, NextCounted, PTL DEF Spec
<1>2. QED BY <1>1, RowsMean, PTL

-----------------------------------------------------------------------------
(***************************************************************************)
(* The subject of a certificate                                            *)
(***************************************************************************)

\* The identifier has its attribute: which one, the kind of person says.
LEMMA IdentifierAttribute ==
    ASSUME NEW l, l.primary # NoValue
    PROVE  IF l.type = "natural_person" /\ l.natural # "none"
           THEN "serialNumber" \in DOMAIN BuildSubject(l)
           ELSE "organizationIdentifier" \in DOMAIN BuildSubject(l)
<1> DEFINE natural == l.type = "natural_person" /\ l.natural # "none"
           id  == IF l.primary = NoValue THEN NoValue ELSE OrgIdentifier(l.primary, Country(l))
           all == [C |-> <<Country(l)>>,
                   O |-> IF natural \/ l.person = "none" THEN NoValue ELSE <<l.person>>,
                   serialNumber |-> IF natural THEN id ELSE NoValue,
                   organizationIdentifier |-> IF natural THEN NoValue ELSE id]
<1>1. BuildSubject(l) = [a \in {a \in DOMAIN all : all[a] # NoValue} |-> all[a]]
  BY DEF BuildSubject
<1>2. "serialNumber" \in DOMAIN all /\ "organizationIdentifier" \in DOMAIN all
  OBVIOUS
<1>3. id # NoValue
  BY DEF NoValue, OrgIdentifier
<1>4. /\ natural => all["serialNumber"] # NoValue
      /\ ~natural => all["organizationIdentifier"] # NoValue
  BY <1>3
<1> HIDE DEF all, id
<1>5. QED BY <1>1, <1>2, <1>4

Given(c) == {c.content.subject[i].attr : i \in DOMAIN c.content.subject}

\* A certificate has the attributes that its legal entity asks for.
Vouches(c) ==
    /\ c.legal.type \in {"legal_person", "natural_person"}
    /\ c.legal.type = "legal_person" => c.legal.primary # NoValue
    /\ DOMAIN BuildSubject(c.legal) \subseteq Given(c)

LEMMA AcceptedVouches ==
    ASSUME NEW r, r.legal \in LegalRows, Accepted(r), NEW c, c.legal = r.legal,
           c.content.subject = r.csr.subject
    PROVE  Vouches(c)
<1>1. \A a \in DOMAIN BuildSubject(r.legal) : a \in DOMAIN CsrSubject(r.csr)
  BY Zenon DEF Accepted, CsrSubjectValid
<1>2. DOMAIN CsrSubject(r.csr) = Given(c)
  BY DEF CsrSubject, Given
<1>3. r.legal.type = "legal_person" => r.legal.primary # NoValue
  BY DEF Accepted, Eligible
<1>4. r.legal.type \in {"legal_person", "natural_person"}
  BY PartyInputs
<1>5. QED BY <1>1, <1>2, <1>3, <1>4 DEF Vouches

Ents == DOMAIN EntitlementArcs
SupportUris == UNION {row.supports : row \in EntityRows}

JobRow == [at : {"idle", "put", "loaded", "read"}, entity : Entities \cup {Nothing},
           row : EntityRows \cup {Nothing}, legal : LegalRows \cup {Nothing}, todo : Seq(Ents),
           ents : SUBSET Ents, supports : SUBSET SupportUris, csr : Requests \cup {Nothing}]

\* A request that signs has been accepted as it was loaded.
JobSound(r) ==
    /\ r \in JobRow
    /\ r.at = "put" => r.entity \in Entities
    /\ r.at \in {"loaded", "read"} =>
           /\ r.csr \in Requests /\ r.entity \in Entities
           /\ r.row \in EntityRows /\ r.legal \in LegalRows
    /\ r.at = "read" => Accepted(r)

\* The policy and the statements of a certificate are of one set of entitlements.
Agrees(c) ==
    \E ents \in SUBSET Ents :
        /\ c.content.policy = GetPolicyOid(c.legal, ents)
        /\ c.content.qc = BuildQcStatements(c.legal, ents)

PartyInv ==
    /\ legal \in [Legals -> LegalRows]
    /\ entitlements \in [Entities -> SUBSET Ents]
    /\ job \in [Issuers -> JobRow] /\ \A x \in Issuers : JobSound(job[x])
    /\ cert = [e \in Entities |-> cert[e]]
    /\ \A e \in Entities : cert[e] # Nothing => Vouches(cert[e]) /\ Agrees(cert[e])

OneKind(c) ==
    IF c.content.policy \in {PolicyOid.NCP_l, PolicyOid.QCP_l}
    THEN "organizationIdentifier" \in Given(c)
    ELSE c.legal.primary # NoValue =>
             (IF c.legal.natural = "none" THEN "organizationIdentifier" ELSE "serialNumber") \in Given(c)

\* The policy is for the kind of person whose attributes were asked for.
LEMMA VouchedKind ==
    ASSUME NEW c, Vouches(c), Agrees(c)
    PROVE  OneKind(c)
<1>1. PICK ents \in SUBSET Ents : c.content.policy = GetPolicyOid(c.legal, ents)
  BY Zenon DEF Agrees
<1>2. c.content.policy \in {PolicyOid.NCP_l, PolicyOid.QCP_l} <=> c.legal.type # "natural_person"
  BY <1>1 DEF GetPolicyOid, PolicyOid
<1>3. c.legal.primary # NoValue =>
          (IF c.legal.type = "natural_person" /\ c.legal.natural # "none"
           THEN "serialNumber" ELSE "organizationIdentifier") \in Given(c)
  BY IdentifierAttribute DEF Vouches
<1>4. QED BY <1>2, <1>3 DEF Vouches, OneKind

LEMMA VouchedMean == ASSUME PartyInv PROVE OneKindOfPerson
<1>1. \A c \in Issued : OneKind(c)
  BY VouchedKind DEF PartyInv, Issued
<1>2. QED BY <1>1 DEF OneKindOfPerson, OneKind, Given

LEMMA IdleSound == JobSound(Idle)
BY DEF JobSound, JobRow, Idle

\* One request changes, and the certificates and tables stay.
LEMMA JobStep ==
    ASSUME PartyInv, NEW x \in Issuers, NEW r, JobSound(r), job' = [job EXCEPT ![x] = r],
           UNCHANGED <<legal, cert>>, entitlements' \in [Entities -> SUBSET Ents]
    PROVE  PartyInv'
BY DEF PartyInv, JobSound

LEMMA PutsVouched ==
    ASSUME PartyInv, NEW x \in Issuers,
           \/ \E e \in Entities, new \in EntitlementLists : PutDelete(x, e, new)
           \/ PutCreate(x) \/ PutEnd(x)
    PROVE  PartyInv'
<1>1. job[x] \in JobRow
  BY DEF PartyInv
<1>2. ASSUME NEW e \in Entities, NEW new \in EntitlementLists, PutDelete(x, e, new) PROVE PartyInv'
  <2> DEFINE r == [Idle EXCEPT !.at = "put", !.entity = e, !.todo = new]
  <2>1. new \in Seq(Ents)
    BY PartyInputs DEF Ents
  <2>2. r \in JobRow /\ r.at = "put" /\ r.entity = e
    BY <2>1, IdleSound DEF JobSound, JobRow, Idle
  <2>3. job' = [job EXCEPT ![x] = r] /\ UNCHANGED <<legal, cert>>
        /\ entitlements' = [entitlements EXCEPT ![e] = {}]
    BY <1>2 DEF PutDelete
  <2> HIDE DEF r
  <2>4. JobSound(r)
    BY <2>2 DEF JobSound
  <2>5. QED BY <2>3, <2>4, JobStep DEF PartyInv
<1>3. CASE PutCreate(x)
  <2> DEFINE r == [job[x] EXCEPT !.todo = Tail(@)]
  <2>1. job[x].todo \in Seq(Ents) /\ job[x].todo # <<>> /\ job[x].at = "put"
    BY <1>1, <1>3 DEF PutCreate, JobRow
  <2>2. Tail(job[x].todo) \in Seq(Ents) /\ Head(job[x].todo) \in Ents
    BY <2>1, TailItems, SeqItem
  <2>3. r \in JobRow /\ r.at = "put" /\ r.entity \in Entities
    <3>1. r \in JobRow /\ r.at = "put" /\ r.entity = job[x].entity
      BY <1>1, <2>1, <2>2 DEF JobRow
    <3>2. job[x].entity \in Entities
      BY <2>1 DEF PartyInv, JobSound
    <3>3. QED BY <3>1, <3>2
  <2>4. job' = [job EXCEPT ![x] = r] /\ UNCHANGED <<legal, cert>>
        /\ entitlements' = [entitlements EXCEPT ![job[x].entity] = @ \cup {Head(job[x].todo)}]
    BY <1>3 DEF PutCreate
  <2> HIDE DEF r
  <2>5. JobSound(r)
    BY <2>3 DEF JobSound
  <2>6. entitlements' \in [Entities -> SUBSET Ents]
    BY <2>2, <2>4 DEF PartyInv
  <2>7. QED BY <2>4, <2>5, <2>6, JobStep
<1>4. CASE PutEnd(x)
  BY <1>4, IdleSound, JobStep DEF PutEnd, PartyInv
<1>5. QED BY <1>2, <1>3, <1>4

LEMMA IssueVouched ==
    ASSUME UsesInv, PartyInv, NEW x \in Issuers,
           \/ \E e \in Entities, csr \in Requests : IssueLoad(x, e, csr)
           \/ IssueRead(x) \/ IssueSign(x)
    PROVE  PartyInv'
<1>1. job[x] \in JobRow /\ JobSound(job[x])
  BY DEF PartyInv
<1>2. ASSUME NEW e \in Entities, NEW csr \in Requests, IssueLoad(x, e, csr) PROVE PartyInv'
  <2> DEFINE r == [Idle EXCEPT !.at = "loaded", !.entity = e, !.csr = csr,
                      !.row = entity[e], !.legal = legal[entity[e].legal]]
  <2>1. entity[e] \in EntityRows
    BY <1>2 DEF IssueLoad, Present, UsesInv, Tables
  <2>2. legal[entity[e].legal] \in LegalRows
    BY <2>1, PartyInputs DEF PartyInv
  <2>3. /\ r \in JobRow /\ r.at = "loaded" /\ r.csr = csr /\ r.entity = e
        /\ r.row = entity[e] /\ r.legal = legal[entity[e].legal]
    BY <2>1, <2>2, IdleSound DEF JobSound, JobRow, Idle
  <2>4. job' = [job EXCEPT ![x] = r] /\ UNCHANGED <<legal, entitlements, cert>>
    BY <1>2 DEF IssueLoad
  <2> HIDE DEF r
  <2>5. JobSound(r)
    BY <2>1, <2>2, <2>3 DEF JobSound
  <2>6. QED BY <2>4, <2>5, JobStep DEF PartyInv
<1>3. CASE IssueRead(x)
  <2> DEFINE j == job[x]
             ents == entitlements[j.entity]
             supports == IF Present(entity, j.entity) THEN entity[j.entity].supports ELSE {}
             r == [j EXCEPT !.at = "read", !.ents = ents, !.supports = supports]
  <2>1. j.at = "loaded" /\ j.entity \in Entities /\ j.csr \in Requests /\ UNCHANGED <<legal, entitlements, cert>>
    BY <1>1, <1>3 DEF IssueRead, JobSound
  <2>2. CASE Accepted(j)
    <3>1. ents \in SUBSET Ents
      BY <2>1 DEF PartyInv
    <3>2. supports \in SUBSET SupportUris
      <4>1. ASSUME Present(entity, j.entity) PROVE entity[j.entity] \in EntityRows
        BY <2>1, <4>1 DEF Present, UsesInv, Tables
      <4>2. QED BY <4>1 DEF SupportUris
    <3> HIDE DEF ents, supports
    <3>3. /\ r \in JobRow /\ r.at = "read" /\ r.entity = j.entity
          /\ r.csr = j.csr /\ r.row = j.row /\ r.legal = j.legal
      BY <1>1, <3>1, <3>2 DEF JobRow
    <3>4. job' = [job EXCEPT ![x] = r]
      BY <1>3, <2>2 DEF IssueRead, ents, supports
    <3> HIDE DEF r
    <3>5. Accepted(r)
      BY <2>2, <3>3 DEF Accepted
    <3>6. JobSound(r)
      <4>1. j.row \in EntityRows /\ j.legal \in LegalRows
        BY <1>1, <2>1 DEF JobSound
      <4>2. QED BY <2>1, <3>3, <3>5, <4>1 DEF JobSound
    <3>7. QED BY <2>1, <3>4, <3>6, JobStep DEF PartyInv
  <2>3. CASE ~Accepted(j)
    <3>1. job' = [job EXCEPT ![x] = Idle]
      BY <1>3, <2>3 DEF IssueRead
    <3>2. QED BY <2>1, <3>1, IdleSound, JobStep DEF PartyInv
  <2>4. QED BY <2>2, <2>3
<1>4. CASE IssueSign(x)
  <2> DEFINE j == job[x]
             c == [content |-> Signed(j), row |-> j.row, legal |-> j.legal]
  <2>1. /\ job' = [job EXCEPT ![x] = Idle] /\ UNCHANGED <<legal, entitlements>>
        /\ cert' = cert \/ cert' = [cert EXCEPT ![j.entity] = c]
    BY <1>4 DEF IssueSign
  <2>2. j.csr \in Requests /\ Accepted(j)
    BY <1>1, <1>4 DEF IssueSign, JobSound
  <2>10. j.legal \in LegalRows
    BY <1>1, <1>4 DEF IssueSign, JobSound
  <2>3. Vouches(c)
    <3>1. c.legal = j.legal /\ c.content.subject = j.csr.subject
      BY DEF Signed, Certificate
    <3> HIDE DEF c, j
    <3>2. QED BY <2>2, <2>10, <3>1, AcceptedVouches
  <2>9. Agrees(c)
    <3>1. j.ents \in SUBSET Ents
      BY <1>1 DEF JobRow
    <3>2. /\ c.legal = j.legal /\ c.content.policy = GetPolicyOid(j.legal, j.ents)
          /\ c.content.qc = BuildQcStatements(j.legal, j.ents)
      BY DEF Signed, Certificate
    <3> HIDE DEF c, j
    <3>3. QED BY <3>1, <3>2, Zenon DEF Agrees
  <2> HIDE DEF c
  <2>4. cert' = [e \in Entities |-> cert'[e]]
    BY <2>1 DEF PartyInv
  <2>5. \A e \in Entities : cert'[e] = cert[e] \/ cert'[e] = c
    BY <2>1 DEF PartyInv
  <2>6. \A e \in Entities : cert'[e] # Nothing => Vouches(cert'[e]) /\ Agrees(cert'[e])
    BY <2>3, <2>5, <2>9 DEF PartyInv
  <2>7. job' \in [Issuers -> JobRow] /\ \A y \in Issuers : JobSound(job'[y])
    BY <2>1, IdleSound DEF PartyInv, JobSound
  <2>8. QED BY <2>1, <2>4, <2>6, <2>7 DEF PartyInv, JobSound, Vouches, Agrees
<1>5. QED BY <1>2, <1>3, <1>4

LEMMA NextVouched ==
    ASSUME UsesInv, PartyInv, [Next]_vars
    PROVE  PartyInv'
<1>1. CASE UNCHANGED <<legal, entitlements, job, cert>>
  BY <1>1 DEF PartyInv
<1>2. CASE Issue
  BY <1>2, PutsVouched, IssueVouched DEF Issue
<1>3. ASSUME NEW l \in Legals, NEW row \in LegalRows, AdminSaveLegal(l, row) PROVE PartyInv'
  <2>1. legal' = [legal EXCEPT ![l] = row] /\ UNCHANGED <<entitlements, job, cert>>
    BY <1>3 DEF AdminSaveLegal
  <2>2. legal' \in [Legals -> LegalRows]
    BY <2>1 DEF PartyInv
  <2>3. QED BY <2>1, <2>2 DEF PartyInv
<1>4. ASSUME NEW e \in Entities, RemoveEntity(e) PROVE PartyInv'
  <2>1. /\ entitlements' = [entitlements EXCEPT ![e] = {}]
        /\ cert' = [cert EXCEPT ![e] = Nothing] /\ UNCHANGED <<legal, job>>
    BY <1>4 DEF RemoveEntity
  <2>2. cert' = [d \in Entities |-> cert'[d]]
    BY <2>1 DEF PartyInv
  <2>3. \A d \in Entities : cert'[d] = cert[d] \/ cert'[d] = Nothing
    BY <2>1 DEF PartyInv
  <2>4. entitlements' \in [Entities -> SUBSET Ents]
    BY <2>1 DEF PartyInv
  <2>5. \A d \in Entities : cert'[d] # Nothing => Vouches(cert'[d]) /\ Agrees(cert'[d])
    BY <2>3 DEF PartyInv
  <2>6. QED BY <2>1, <2>2, <2>4, <2>5 DEF PartyInv
<1>5. QED
  BY <1>1, <1>2, <1>3, <1>4 DEF Next, Administer, AdminSaveEntity, partyVars, vars

LEMMA InitVouched == Init => PartyInv
<1> SUFFICES ASSUME Init PROVE PartyInv
  OBVIOUS
<1>1. Idle \in JobRow /\ JobSound(Idle)
  BY IdleSound DEF JobSound
<1>2. QED BY <1>1, PartyInputs DEF Init, PartyInv, Ents

LEMMA PartyKept == Spec => [](UsesInv /\ PartyInv)
BY InitTyped, NextTyped, InitVouched, NextVouched, PTL DEF Spec

\* What the page shows of a certificate and its policy agree.
Consistent(c) ==
    LET lines == PageLines(c.content.qc)
        all   == {lines[i] : i \in DOMAIN lines}
        qualified == c.content.policy \in {PolicyOid.QCP_n, PolicyOid.QCP_l}
    IN /\ qualified <=> QcComplianceOid \in all
       /\ qualified <=> \E t \in QualifiedEntitlements : EntitlementOid(t) \in all
       /\ Len(lines) = Cardinality(all)
       /\ all \subseteq {QcComplianceOid, QcTypeOid}
              \cup {EntitlementOid(t) : t \in DOMAIN EntitlementArcs}

LEMMA AgreesConsistent ==
    ASSUME NEW c, Agrees(c)
    PROVE  Consistent(c)
<1>1. PICK ents \in SUBSET DOMAIN EntitlementArcs :
          /\ c.content.policy = GetPolicyOid(c.legal, ents)
          /\ c.content.qc = BuildQcStatements(c.legal, ents)
  BY Zenon DEF Agrees, Ents
<1>2. PICK lines : lines = PageLines(c.content.qc)
  OBVIOUS
<1>3. Lists(lines, Stated(ents))
  BY <1>1, <1>2, QcStatementsReadBack, Zenon
<1>4. Stated(ents) = {lines[i] : i \in DOMAIN lines} /\ Len(lines) = Cardinality(Stated(ents))
  BY <1>3, Zenon DEF Lists
<1>5. PICK all : all = Stated(ents)
  OBVIOUS
<1>6. PICK p : p = GetPolicyOid(c.legal, ents)
  OBVIOUS
<1>7. /\ p \in {PolicyOid.QCP_n, PolicyOid.QCP_l} <=> QcComplianceOid \in all
      /\ p \in {PolicyOid.QCP_n, PolicyOid.QCP_l}
             <=> \E t \in QualifiedEntitlements : EntitlementOid(t) \in all
      /\ all \subseteq {QcComplianceOid, QcTypeOid}
             \cup {EntitlementOid(t) : t \in DOMAIN EntitlementArcs}
  BY <1>5, <1>6, StatedQualified, Zenon
<1>8. QED BY <1>1, <1>2, <1>4, <1>5, <1>6, <1>7, Zenon DEF Consistent

\* Whatever becomes of the legal entity between the queries of an issuance, a
\* certificate has the identifier of the kind of person that its policy is for.
THEOREM OneKindOfPersonAlways == Spec => []OneKindOfPerson
BY PartyKept, VouchedMean, PTL

\* The tables, the requests and the certificates have their types; what a certificate
\* states is a string of octets, however many entitlements it is about.
THEOREM RelyingTypeOKAlways == Spec => []RelyingTypeOK
<1>1. ASSUME UsesInv, RevokedEnded, PartyInv PROVE RelyingTypeOK
  <2>1. UsesTypeOK
    BY <1>1, TypeFromInv DEF RevokedEnded
  <2>2. /\ legal \in [Legals -> LegalRows]
        /\ \A e \in Entities : entitlements[e] \subseteq DOMAIN EntitlementArcs
    BY <1>1 DEF PartyInv, Ents
  <2>3. ASSUME NEW x \in Issuers
        PROVE  /\ job[x].at \in {"idle", "put", "loaded", "read"}
               /\ job[x].at # "idle" => job[x].entity \in Entities
               /\ job[x].at \in {"loaded", "read"} =>
                      /\ job[x].row \in EntityRows /\ job[x].legal \in LegalRows
                      /\ job[x].csr \in Requests
               /\ job[x].todo \in Seq(DOMAIN EntitlementArcs)
               /\ job[x].ents \subseteq DOMAIN EntitlementArcs
    <3>1. JobSound(job[x])
      BY <1>1, <2>3 DEF PartyInv
    <3>2. QED BY <3>1 DEF JobSound, JobRow, Ents
  <2>4. ASSUME NEW e \in Entities, cert[e] # Nothing PROVE cert[e].content.qc \in Seq(0..255)
    <3>1. Agrees(cert[e])
      BY <1>1, <2>4 DEF PartyInv
    <3>2. QED BY <3>1, QcStatementsReadBack, Zenon DEF Agrees, Ents
  <2>5. QED BY <2>1, <2>2, <2>3, <2>4 DEF RelyingTypeOK
<1>2. QED BY <1>1, UsesKept, PartyKept, PTL

\* Whatever PUTs and administrators do between the queries of an issuance, a certificate
\* has a policy for qualified certificates exactly if its page lists compliance and a
\* qualified entitlement, and the page lists each entitlement once.
THEOREM QualifiedConsistentAlways == Spec => []QualifiedConsistent
<1>1. ASSUME PartyInv PROVE QualifiedConsistent
  <2>1. \A e \in Entities : cert[e] # Nothing => Agrees(cert[e])
    BY <1>1, Zenon DEF PartyInv
  <2>2. \A c \in Issued : Consistent(c)
    BY <2>1, AgreesConsistent, Zenon DEF Issued
  <2>3. QED BY <2>2, Zenon DEF QualifiedConsistent, Consistent, PageLines
<1>2. QED BY <1>1, PartyKept, PTL

-----------------------------------------------------------------------------
(***************************************************************************)
(* The answers of check-intended-use                                       *)
(***************************************************************************)

LEMMA CheckEntityAnswers ==
    ASSUME NEW w \in Workers, NEW c \in Criteria, CheckEntity(w, c)
    PROVE  NotOfRevoked
<1>1. CASE answer' = Nothing
  BY <1>1 DEF NotOfRevoked
<1>2. CASE answer' # Nothing
  <2>1. answer' = Answer(c, Nothing, FALSE)
    BY <1>2 DEF CheckEntity
  <2>2. answer'.registered = FALSE
    BY <2>1 DEF Answer
  <2>3. QED BY <2>2 DEF NotOfRevoked
<1>3. QED BY <1>1, <1>2

LEMMA CheckUsesAnswers ==
    ASSUME RevokedEnded, NEW w \in Workers, CheckUses(w)
    PROVE  NotOfRevoked
<1> DEFINE c == req[w].asked
           e == req[w].entity
           yes == \E u \in Uses : Unended(u) /\ use[u].entity = e /\ Meets(u, c)
<1>1. answer' = Answer(c, e, yes)
  BY DEF CheckUses
<1>2. answer'.asked = c /\ answer'.entity = e /\ answer'.registered = yes
  BY <1>1 DEF Answer
<1> HIDE DEF c, e
<1>3. CASE yes
  <2>1. PICK u \in Uses : Unended(u) /\ use[u].entity = e /\ Meets(u, c)
    BY <1>3
  <2>2. Present(use, u) /\ u \notin revoked
    BY <2>1 DEF Unended, RevokedEnded
  <2>3. QED BY <1>2, <2>1, <2>2 DEF NotOfRevoked
<1>4. CASE ~yes
  BY <1>2, <1>4 DEF NotOfRevoked
<1>5. QED BY <1>3, <1>4

LEMMA StepAnswers ==
    ASSUME RevokedEnded, [Next]_vars
    PROVE  [NotOfRevoked]_<<useVars, entity, req, answer, today, writes>>
<1>1. CASE UNCHANGED vars
  BY <1>1 DEF vars
<1>2. CASE answer' = Nothing
  BY <1>2 DEF NotOfRevoked
<1>3. CASE UsesNext
  BY <1>2, <1>3, CheckEntityAnswers, CheckUsesAnswers DEF UsesNext
<1>4. QED BY <1>1, <1>2, <1>3 DEF Next

\* No wallet that asks is told of a use that was revoked, however its revocation
\* overlaps with declarations, checks and other requests.
THEOREM RevokedNotConfirmedAlways == Spec => RevokedNotConfirmed
<1>1. RevokedEnded /\ [Next]_vars
          => [NotOfRevoked]_<<useVars, entity, req, answer, today, writes>>
  BY StepAnswers
<1>2. QED BY <1>1, UsesKept, PTL DEF Spec, RevokedNotConfirmed

=============================================================================
