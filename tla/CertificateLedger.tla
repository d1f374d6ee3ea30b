-------------------------- MODULE CertificateLedger --------------------------
(***************************************************************************)
(* What the registry promises about its access certificates, whatever its  *)
(* processes do in between: the local table EntityAccessCertificate is a   *)
(* ledger that never runs ahead of the CA.                                 *)
(*                                                                         *)
(* No workers, no statuses, no requests: each action is one atomic change  *)
(* of the ledger or of the CA. AccessCertificates implements it.           *)
(***************************************************************************)
CONSTANTS Entities, Certs, NoEntity

VARIABLES
    record,     \* "none", "current" or "superseded": the local row
    holder,     \* the entity named in the certificate
    noted,      \* the reason of the revocation recorded locally, or "unset"
    ca          \* "unissued", "valid", or the reason of the revocation at the CA

ledgerVars == <<record, holder, noted, ca>>

Reasons == {"certificateHold", "cessationOfOperation"}

CurrentRows(e) == {c \in Certs : holder[c] = e /\ record[c] = "current"}

Init ==
    /\ record = [c \in Certs |-> "none"]
    /\ holder = [c \in Certs |-> NoEntity]
    /\ noted  = [c \in Certs |-> "unset"]
    /\ ca     = [c \in Certs |-> "unissued"]

\* A certificate and its local row come into being together, and only such a
\* step takes is_current from other rows: rows of the same entity.
Issue(c, e, replaced) ==
    /\ ca[c] = "unissued"
    /\ replaced \subseteq CurrentRows(e)
    /\ ca' = [ca EXCEPT ![c] = "valid"]
    /\ holder' = [holder EXCEPT ![c] = e]
    /\ record' = [d \in Certs |-> IF d = c THEN "current"
                                  ELSE IF d \in replaced THEN "superseded"
                                  ELSE record[d]]
    /\ UNCHANGED noted

\* A revocation at the CA. Nothing makes a certificate valid again, a
\* certificate on hold included; a later revocation replaces the reason.
Revoke(c, r) ==
    /\ ca[c] # "unissued"
    /\ ca' = [ca EXCEPT ![c] = r]
    /\ UNCHANGED <<record, holder, noted>>

\* The ledger records a revocation only after the CA has one.
Note(c, r) ==
    /\ record[c] # "none"
    /\ ca[c] \in Reasons
    /\ noted' = [noted EXCEPT ![c] = r]
    /\ UNCHANGED <<record, holder, ca>>

\* Rows disappear only with their entity, all at once; the CA keeps its own.
Remove(e) ==
    /\ record' = [c \in Certs |-> IF holder[c] = e THEN "none" ELSE record[c]]
    /\ noted' = [c \in Certs |-> IF holder[c] = e THEN "unset" ELSE noted[c]]
    /\ UNCHANGED <<holder, ca>>

Next ==
    \/ \E c \in Certs, e \in Entities : \E replaced \in SUBSET CurrentRows(e) :
        Issue(c, e, replaced)
    \/ \E c \in Certs, r \in Reasons : Revoke(c, r) \/ Note(c, r)
    \/ \E e \in Entities : Remove(e)

Spec == Init /\ [][Next]_ledgerVars

=============================================================================
