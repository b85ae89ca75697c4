---------------------------- MODULE PartnerCodes ----------------------------
(***************************************************************************)
(* The uses of ONE partner code (PartnerCodeService): a use is reserved    *)
(* for the time of a checkout, counted at the first invoice, lost at the   *)
(* end of the subscription, given back when it was never paid or was       *)
(* refunded.  Each account has one subscription at most here.              *)
(***************************************************************************)
EXTENDS Integers, FiniteSets

CONSTANTS
    Users,          \* accounts that want the code
    MaxRedemptions  \* quota of the code

ASSUME UsersAssumption == IsFiniteSet(Users)
ASSUME MaxRedemptionsAssumption == MaxRedemptions \in Nat \ {0}

VARIABLES
    open,           \* accounts with an open checkout session of the code
    reserved,       \* accounts with a CheckoutReservation not yet expired
    subscription,   \* of each account, at Stripe
    redemption,     \* PartnerRedemption, one per account
    ending,         \* the statuses that jobs are about to give to each use
    alone,          \* is a use ended by one job at a time?  One worker, no stall
    late,           \* history: accounts counted without a valid reservation
    recounted       \* history: accounts whose use was given back, then lost

endVars == <<ending, alone, recounted>>
partnerVars == <<open, reserved, subscription, redemption, late, endVars>>

Subscription == {"none", "paid", "ended"}
Over == {"LOST", "RELEASED"}
Redemption == {"none", "ACTIVE"} \cup Over

PartnerInit ==
    /\ open = {}
    /\ reserved = {}
    /\ subscription = [u \in Users |-> "none"]
    /\ redemption = [u \in Users |-> "none"]
    /\ ending = [u \in Users |-> {}]
    /\ alone \in BOOLEAN
    /\ late = {}
    /\ recounted = {}

\* USED_STATUSES.
Used == {u \in Users : redemption[u] \in {"ACTIVE", "LOST"}}

\* Faulty: a lost use goes back to the quota.
UsedCountActive(u) ==
    Cardinality({v \in Users : redemption[v] = "ACTIVE"}) + Cardinality(reserved \ {u})

\* usedCount, once the reservation of the account itself is deleted.
UsedCount(u) == Cardinality(Used) + Cardinality(reserved \ {u})

------------------------------------------------------------------------------
(* Checkout.                                                               *)

\* reserve, under the lock: the own reservation is replaced if the quota has
\* room without it; otherwise the transaction fails and changes nothing.
\* userRefusal guards nothing here: it is read before the lock is asked for,
\* and any number of requests may have passed it before the account paid.
Reserve(u) ==
    /\ UsedCount(u) < MaxRedemptions
    /\ reserved' = reserved \cup {u}
    /\ open' = open \cup {u}
    /\ UNCHANGED <<subscription, redemption, late, endVars>>

\* releaseReservation: the session could not be created, has expired, or is
\* replaced by another, in which case it may well stay open.  Or 35 minutes
\* have passed: the session was open for 30.  An expired row changes nothing.
Free(u) ==
    /\ u \in reserved
    /\ reserved' = reserved \ {u}
    /\ open' \in {open, open \ {u}}
    /\ UNCHANGED <<subscription, redemption, late, endVars>>

------------------------------------------------------------------------------
(* Subscription.                                                           *)

\* The customer pays; Stripe opens the subscription.
Pay(u) ==
    /\ u \in open /\ subscription[u] = "none"
    /\ open' = open \ {u}
    /\ subscription' = [subscription EXCEPT ![u] = "paid"]
    /\ UNCHANGED <<reserved, redemption, late, endVars>>

\* claim, under the lock: the existing use, whatever its status, or a new
\* one, even beyond the quota.
Claim(u) ==
    /\ IF redemption[u] # "none" THEN UNCHANGED <<reserved, redemption, late>>
       ELSE /\ redemption' = [redemption EXCEPT ![u] = "ACTIVE"]
            /\ reserved' = reserved \ {u}
            /\ late' = IF u \in reserved THEN late ELSE late \cup {u}
    /\ UNCHANGED <<open, subscription, endVars>>

\* The subscription ends at Stripe: by its customer, for want of a payment, or
\* after a refund.
Cancel(u) ==
    /\ subscription[u] = "paid"
    /\ subscription' = [subscription EXCEPT ![u] = "ended"]
    /\ UNCHANGED <<open, reserved, redemption, late, endVars>>

-----------------------------------------------------------------------------
(* end, from the jobs of customer.subscription.deleted (markLost, or       *)
(* release when no real payment was made) and of charge.refunded           *)
(* (release): the active use is read, then updated by id.                  *)

\* Faulty: a use that has ended is found too.
FindAny(u, status) ==
    /\ subscription[u] # "none" /\ (status = "LOST" => subscription[u] = "ended")
    /\ redemption[u] # "none"
    /\ alone => \A v \in Users : ending[v] = {}
    /\ ending' = [ending EXCEPT ![u] = @ \cup {status}]
    /\ UNCHANGED <<open, reserved, subscription, redemption, late, alone, recounted>>

FindActive(u, status) ==
    /\ subscription[u] # "none" /\ (status = "LOST" => subscription[u] = "ended")
    /\ redemption[u] = "ACTIVE"
    /\ alone => \A v \in Users : ending[v] = {}
    /\ ending' = [ending EXCEPT ![u] = @ \cup {status}]
    /\ UNCHANGED <<open, reserved, subscription, redemption, late, alone, recounted>>

\* Nothing is written, if the job fails or dies; other jobs may be about to write
\* the same.
UpdateById(u, status) ==
    /\ status \in ending[u]
    /\ \/ /\ redemption' = [redemption EXCEPT ![u] = status]
          /\ recounted' = IF redemption[u] = "RELEASED" /\ status = "LOST"
                          THEN recounted \cup {u} ELSE recounted
       \/ UNCHANGED <<redemption, recounted>>
    /\ \/ ending' = [ending EXCEPT ![u] = @ \ {status}]
       \/ ~alone /\ UNCHANGED ending
    /\ UNCHANGED <<open, reserved, subscription, late, alone>>

End(u) == Cancel(u) \/ \E status \in Over : FindActive(u, status) \/ UpdateById(u, status)

PartnerNext == \E u \in Users : Reserve(u) \/ Free(u) \/ End(u)

------------------------------------------------------------------------------
PartnerTypeOK ==
    /\ open \in SUBSET Users /\ reserved \in SUBSET Users
    /\ late \in SUBSET Users /\ recounted \in SUBSET Users
    /\ subscription \in [Users -> Subscription]
    /\ redemption \in [Users -> Redemption]
    /\ ending \in [Users -> SUBSET Over]
    /\ alone \in BOOLEAN

\* The uses that the quota does not bound: those counted without a valid
\* reservation, as the comment of claim accepts, and, when several jobs may end
\* a use at once, those given back and then lost.
Beyond == Used \cap (late \cup (IF alone THEN {} ELSE recounted))

\* The uses counted and the checkouts in progress never exceed the quota by more
\* than that, whatever the order of checkouts, expiries, payments and ends.
QuotaKept ==
    Cardinality(Used) + Cardinality(reserved) <= MaxRedemptions + Cardinality(Beyond)

\* A use that has ended is never active again, however late or often the first
\* invoice is handled (claim: "Idempotent (une par personne)"), and keeps the end
\* it has ("définitif") unless several jobs end it at once.
EndedUseStays ==
    [][\A u \in Users : redemption[u] \in Over =>
        /\ redemption'[u] \in Over
        /\ alone => redemption'[u] = redemption[u]]_partnerVars

=============================================================================
