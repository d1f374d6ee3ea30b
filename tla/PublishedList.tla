--------------------------- MODULE PublishedList ---------------------------
(***************************************************************************)
(* What a list promises that is put together query by query while the      *)
(* database goes on changing.  An item is listed under a holder if the     *)
(* holder is in the list and holds the item.  The list that comes out has  *)
(* every pair that was eligible all the while, and none whose holder, or   *)
(* whose holding, was never there since the list was begun.                *)
(***************************************************************************)

VARIABLES
    holders,        \* holders that belong in the list
    holdings,       \* pairs of holder and item
    open,           \* whether a list is being put together
    sure,           \* pairs eligible in every state since it was begun
    seenHolders, seenHoldings,  \* those of some state since it was begun
    out             \* the pairs of the last list

vars == <<holders, holdings, open, sure, seenHolders, seenHoldings, out>>

Eligible == {h \in holdings : h[1] \in holders}
Possible == {h \in seenHoldings : h[1] \in seenHolders}

Forget == sure' = {} /\ seenHolders' = {} /\ seenHoldings' = {}

Init == open = FALSE /\ sure = {} /\ seenHolders = {} /\ seenHoldings = {} /\ out = {}

Begin ==
    /\ ~open /\ open'
    /\ sure' = Eligible'
    /\ seenHolders' = holders' /\ seenHoldings' = holdings'
    /\ UNCHANGED out

Change ==
    /\ UNCHANGED <<open, out>>
    /\ IF open
       THEN /\ sure' = sure \cap Eligible'
            /\ seenHolders' = seenHolders \cup holders'
            /\ seenHoldings' = seenHoldings \cup holdings'
       ELSE Forget

Publish ==
    /\ open /\ ~open'
    /\ sure \subseteq out' /\ out' \subseteq Possible
    /\ Forget

Next == Begin \/ Change \/ Publish

Spec == Init /\ [][Next]_vars

=============================================================================
