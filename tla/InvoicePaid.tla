----------------------------- MODULE InvoicePaid -----------------------------
(***************************************************************************)
(* The jobs of paid invoices (onPaymentSucceeded, partner and referral     *)
(* parts): synchronise the subscription, count the use of the partner      *)
(* code on the first invoice, then reward the referrer.  A job that fails, *)
(* or whose worker dies, at any step starts again from the first one, and  *)
(* is dropped after its last attempt.  Jobs may be handled at once: BullMQ *)
(* hands a stalled job to another worker while the first goes on.          *)
(***************************************************************************)
EXTENDS PartnerCodes, ReferralRewards

CONSTANTS
    Invoices,   \* records: user, first of its subscription, period
    Filleul,    \* the referred account
    Attempts,   \* attempts of a job
    MaxFaults   \* bound: attempts that fail in a behaviour

ASSUME InvoicesAssumption ==
    Invoices \subseteq [user : Users, first : BOOLEAN, period : Periods]
ASSUME NoneAssumption == None \notin Invoices
ASSUME AttemptsAssumption == Attempts \in Nat \ {0} /\ MaxFaults \in Nat

VARIABLES
    job,        \* of each invoice
    faults      \* attempts that failed

vars == <<partnerVars, rewardVars, job, faults>>

Running == {"claim", "referral", "price", "list", "credit", "apply"}
Steps == Running \cup {"unpaid", "queued", "done", "unpriced", "dropped"}

\* paid: not an invoice of 0 (trial, credit).
\* found: what the list of balance transactions said.
Job == [step : Steps, paid : BOOLEAN, attempts : 0..Attempts - 1, found : {"yes", "no", "old", "unread"}]

NoJob == [step |-> "unpaid", paid |-> FALSE, attempts |-> 0, found |-> "no"]

At(i, step) == job[i].step = step
Goto(i, step) == job' = [job EXCEPT ![i].step = step, ![i].found = "no"]
Finish(i, step) == job' = [job EXCEPT ![i] = [NoJob EXCEPT !.step = step]]

Init ==
    /\ PartnerInit
    /\ RewardInit
    /\ job = [i \in Invoices |-> NoJob]
    /\ faults = 0

------------------------------------------------------------------------------
\* Stripe sends the invoice: the first one of a subscription when it opens.
Send(i) ==
    /\ At(i, "unpaid")
    /\ \E paid \in BOOLEAN : job' = [job EXCEPT ![i].step = "queued", ![i].paid = paid]
    /\ \/ i.first /\ Pay(i.user)
       \/ ~i.first /\ subscription[i.user] = "paid" /\ UNCHANGED partnerVars
    /\ UNCHANGED <<rewardVars, faults>>

\* syncSubscription (see SubscriptionSync); only the first invoice counts the use of the code.
Sync(i) ==
    /\ At(i, "queued")
    /\ Goto(i, IF i.first THEN "claim" ELSE "referral")
    /\ UNCHANGED <<partnerVars, rewardVars, faults>>

ClaimUse(i) ==
    /\ At(i, "claim")
    /\ Claim(i.user)
    /\ Goto(i, "referral")
    /\ UNCHANGED <<rewardVars, faults>>

\* processReferral: a real payment of a referred account.
Refer(i) ==
    /\ At(i, "referral")
    /\ \/ /\ ~(job[i].paid /\ i.user = Filleul)
          /\ Finish(i, "done") /\ UNCHANGED rewardVars
       \/ /\ job[i].paid /\ i.user = Filleul
          /\ \/ Commission(i, i.period) /\ Finish(i, "done")
             \/ Grant(TRUE) /\ Goto(i, "price")
             \/ Grant(FALSE) /\ Finish(i, "done")
    /\ UNCHANGED <<partnerVars, faults>>

\* resolveFreeMonthCents: without a price the reward stays PENDING.
Price(i) ==
    /\ At(i, "price")
    /\ Goto(i, "list") \/ Finish(i, "unpriced")
    /\ UNCHANGED <<partnerVars, rewardVars, faults>>

List(i) ==
    /\ At(i, "list")
    /\ \E found \in Credited : job' = [job EXCEPT ![i].step = "credit", ![i].found = found]
    /\ UNCHANGED <<partnerVars, rewardVars, faults>>

CreditMonth(i) ==
    /\ At(i, "credit")
    /\ Credit(job[i].found)
    /\ Goto(i, "apply")
    /\ UNCHANGED <<partnerVars, faults>>

ApplyReward(i) ==
    /\ At(i, "apply")
    /\ Apply
    /\ Finish(i, "done")
    /\ UNCHANGED <<partnerVars, faults>>

\* Faulty: one attempt too many.
LastAttemptMissed(i) == job[i].attempts = Attempts

LastAttempt(i) == job[i].attempts + 1 = Attempts

\* An attempt fails, or its worker dies, before the next request of the job.
Fault(i) ==
    /\ job[i].step \in Running \cup {"queued"} /\ faults < MaxFaults
    /\ IF LastAttempt(i) THEN Finish(i, "dropped")
       ELSE job' = [job EXCEPT ![i].step = "queued", ![i].attempts = @ + 1, ![i].found = "no"]
    /\ faults' = faults + 1
    /\ UNCHANGED <<partnerVars, rewardVars>>

\* An attempt lasts seconds: a day passes between attempts only.
Day ==
    /\ \A i \in Invoices : job[i].step \notin Running
    /\ ForgetKey
    /\ UNCHANGED <<partnerVars, job, faults>>

JobStep(i) ==
    \/ Sync(i) \/ ClaimUse(i) \/ Refer(i) \/ Price(i) \/ List(i)
    \/ CreditMonth(i) \/ ApplyReward(i)

Next ==
    \/ \E i \in Invoices : Send(i) \/ JobStep(i) \/ Fault(i)
    \/ Day
    \/ PartnerNext /\ UNCHANGED <<rewardVars, job, faults>>
    \/ (ChangeRole \/ Bury) /\ UNCHANGED <<partnerVars, job, faults>>

\* BullMQ holds a job until it is done, or has failed for the last time.
Fairness == \A i \in Invoices : WF_vars(JobStep(i))

Spec == Init /\ [][Next]_vars /\ Fairness

------------------------------------------------------------------------------
\* Types of the variables.
TypeOK ==
    /\ PartnerTypeOK
    /\ role \in {"member", "ambassador"}
    /\ reward \in {"none", "PENDING", "APPLIED"}
    /\ credits \in Nat
    /\ key \in {"unused", "kept", "forgotten"}
    /\ buried \in BOOLEAN /\ unseen \in BOOLEAN
    /\ commission \in [Periods -> Invoices \cup {None}]
    /\ job \in [Invoices -> Job]
    /\ faults \in 0..MaxFaults

\* A paid invoice of the filleul is never in vain: its job ends with the month
\* credited (by it or by another), a commission for its month, no price for
\* the month, or its last attempt failed.  A reward left PENDING by an earlier
\* invoice does not freeze the month (grantReferralFreeMonth).
Rewarded ==
    \A i \in Invoices : i.user = Filleul =>
        (At(i, "queued") /\ job[i].paid ~>
            \/ At(i, "unpriced") \/ At(i, "dropped")
            \/ reward = "APPLIED" \/ commission[i.period] # None)

=============================================================================
