---------------------------- MODULE OneTimeGrant ----------------------------
(***************************************************************************)
(* What the owner is promised about a memory request, whatever the edits    *)
(* and the concurrent calls around it: an offer is handed out only while it *)
(* is granted, exactly as it was granted, and never again afterwards.  Only  *)
(* a request that is settled as it opens is handed out without a grant.      *)
(***************************************************************************)
CONSTANTS Requests, Offers, NoOffer

VARIABLES
    grant,      \* grant[r]: the state of request r and the offer it grants
    delivered   \* delivered[r]: the numbered deliveries of request r

States == {"none", "pending", "granted", "closed"}

Settle(r, state, offer) ==
    grant' = [grant EXCEPT ![r] = [state |-> state, offer |-> offer]]

\* Hand the offer out: the first and only delivery of the request.
HandOut(r, offer) ==
    /\ delivered[r] = {}
    /\ \E d \in delivered'[r] : /\ d[2] = offer
                               /\ delivered' = [delivered EXCEPT ![r] = {d}]

Open(r) ==
    /\ grant[r].state = "none"
    /\ Settle(r, "pending", NoOffer)
    /\ UNCHANGED delivered

RefuseAtOnce(r) ==
    /\ grant[r].state = "none"
    /\ Settle(r, "closed", NoOffer)
    /\ UNCHANGED delivered

DeliverAtOnce(r) ==
    /\ grant[r].state = "none"
    /\ Settle(r, "closed", NoOffer)
    /\ \E d \in delivered'[r] : d[2] \in Offers /\ HandOut(r, d[2])

Grant(r) ==
    /\ grant[r].state = "pending"
    /\ grant'[r].offer \in Offers
    /\ Settle(r, "granted", grant'[r].offer)
    /\ UNCHANGED delivered

Withdraw(r) ==
    /\ grant[r].state = "granted"
    /\ Settle(r, "pending", NoOffer)
    /\ UNCHANGED delivered

Consume(r) ==
    /\ grant[r].state = "granted"
    /\ HandOut(r, grant[r].offer)
    /\ Settle(r, "closed", NoOffer)

Refuse(r) ==
    /\ grant[r].state = "pending"
    /\ Settle(r, "closed", NoOffer)
    /\ UNCHANGED delivered

\* The client is deleted, with every request it has made.
CloseAll(rs) ==
    /\ \A r \in rs : grant[r].state # "none"
    /\ grant' = [r \in Requests |->
          IF r \in rs THEN [state |-> "closed", offer |-> NoOffer] ELSE grant[r]]
    /\ UNCHANGED delivered

Init ==
    /\ grant = [r \in Requests |-> [state |-> "none", offer |-> NoOffer]]
    /\ delivered = [r \in Requests |-> {}]

Next ==
    \/ \E r \in Requests :
          \/ Open(r) \/ RefuseAtOnce(r) \/ DeliverAtOnce(r)
          \/ Grant(r) \/ Withdraw(r) \/ Consume(r) \/ Refuse(r)
    \/ \E rs \in SUBSET Requests : CloseAll(rs)

Spec == Init /\ [][Next]_<<grant, delivered>>
=============================================================================
