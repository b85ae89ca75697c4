--------------------------- MODULE ReferralRewards ---------------------------
(***************************************************************************)
(* What a referrer (parrain) is owed when ONE referred account (filleul)   *)
(* pays an invoice (StripeReferralService): a commission for the month of  *)
(* the invoice when the referrer is an ambassador, otherwise one month     *)
(* offered for the filleul, ever, credited on the referrer's customer      *)
(* balance at Stripe.  Each operator below is one request of the code: the *)
(* job that handles the invoice may stop after any of them.                *)
(***************************************************************************)
EXTENDS Integers

CONSTANTS
    Periods,    \* months of invoices
    None        \* no commission

VARIABLES
    role,       \* of the referrer
    reward,     \* ReferralReward, unique by filleul
    credits,    \* balance transactions at Stripe that name the filleul
    key,        \* Stripe's memory of the idempotency key of the filleul: 24 h
    buried,     \* is the credit older than the 100 last transactions?
    unseen,     \* history: a job that did not see the credit asked for another
                \* one, the key forgotten
    commission  \* ReferralCommission: the invoice whose amount each month has

rewardVars == <<role, reward, credits, key, buried, unseen, commission>>

RewardInit ==
    /\ role \in {"member", "ambassador"}
    /\ reward = "none"
    /\ credits = 0
    /\ key = "unused"
    /\ buried = FALSE
    /\ unseen = FALSE
    /\ commission = [period \in Periods |-> None]

\* An admin makes the referrer an ambassador, or no longer.
ChangeRole ==
    /\ role' \in {"member", "ambassador"} \ {role}
    /\ UNCHANGED <<reward, credits, key, buried, unseen, commission>>

\* creditAmbassadorCommission: an upsert by subscription and month, so that a
\* second invoice of the month replaces the amount of the first.
Commission(invoice, period) ==
    /\ role = "ambassador"
    /\ commission' = [commission EXCEPT ![period] = invoice]
    /\ UNCHANGED <<role, reward, credits, key, buried, unseen>>

\* Faulty: a reward that exists is left as it is.
GrantOnce(goOn) ==
    /\ role = "member"
    /\ goOn = (reward = "none")
    /\ reward' = IF reward = "none" THEN "PENDING" ELSE reward
    /\ UNCHANGED <<role, credits, key, buried, unseen, commission>>

\* Faulty: the row is created with its last status.
GrantApplied(goOn) ==
    /\ role = "member"
    /\ goOn = (reward # "APPLIED")
    /\ reward' = IF reward = "none" THEN "APPLIED" ELSE reward
    /\ UNCHANGED <<role, credits, key, buried, unseen, commission>>

\* grantReferralFreeMonth: the row is created, or found; the work goes on
\* unless the month was credited already.
Grant(goOn) ==
    /\ role = "member"
    /\ goOn = (reward # "APPLIED")
    /\ reward' = IF reward = "none" THEN "PENDING" ELSE reward
    /\ UNCHANGED <<role, credits, key, buried, unseen, commission>>

\* hasReferralCredit: what the 100 last transactions say.  An error of the list
\* ("unread"), like a credit that is older ("old"), counts as no credit.
Credited == {"unread", IF credits = 0 THEN "no" ELSE IF buried THEN "old" ELSE "yes"}

Asked(found) ==
    /\ credits' = credits + 1
    /\ key' = "kept"
    /\ buried' = FALSE
    /\ unseen' = (unseen \/ (found \in {"unread", "old"} /\ key = "forgotten"))

\* Faulty: the credit is not requested under the key of the filleul.
CreditKeyless(found) ==
    /\ IF found = "yes" THEN UNCHANGED <<credits, key, buried, unseen>> ELSE Asked(found)
    /\ UNCHANGED <<role, reward, commission>>

\* createBalanceTransaction, unless a credit was found: Stripe answers a key
\* it remembers with the transaction it made then.
Credit(found) ==
    /\ IF found = "yes" \/ key = "kept" THEN UNCHANGED <<credits, key, buried, unseen>>
       ELSE Asked(found)
    /\ UNCHANGED <<role, reward, commission>>

\* The row of the reward is marked at last.
Apply ==
    /\ reward' = "APPLIED"
    /\ UNCHANGED <<role, credits, key, buried, unseen, commission>>

\* A day passes at Stripe.
ForgetKey ==
    /\ key = "kept"
    /\ key' = "forgotten"
    /\ UNCHANGED <<role, reward, credits, buried, unseen, commission>>

\* The referrer has many filleuls: a hundred transactions are made since.
Bury ==
    /\ credits > 0 /\ ~buried
    /\ buried' = TRUE
    /\ UNCHANGED <<role, reward, credits, key, unseen, commission>>

------------------------------------------------------------------------------
\* One month is credited for a filleul, whatever the number of invoices, of
\* attempts and of jobs at once ("Rejouable sans double crédit").  More are
\* credited only by an attempt made once Stripe had forgotten the key and that
\* could not read the transactions (hasReferralCredit accepts that case), or did
\* not find the credit among the 100 that are read (of which it says nothing).
OneCredit == credits <= 1 \/ unseen

\* A reward is shown as applied only once the month is credited.
AppliedIsCredited == reward = "APPLIED" => credits > 0

=============================================================================
