-------------------------- MODULE InvoicePaidProofs --------------------------
(* Theorems about InvoicePaid, for every set of accounts and of invoices,  *)
(* every quota and every number of attempts.                               *)
EXTENDS InvoicePaid, FiniteSetTheorems, TLAPS

Answers == {"yes", "no", "old", "unread"}

LEMMA NoJobType == NoJob \in Job /\ NoJob.step = "unpaid" /\ NoJob.found = "no"
BY AttemptsAssumption DEF NoJob, Job, Steps

LEMMA GotoType ==
    ASSUME job \in [Invoices -> Job], NEW i \in Invoices, NEW step \in Steps, Goto(i, step)
    PROVE  job' \in [Invoices -> Job]
BY DEF Goto, Job

LEMMA FinishType ==
    ASSUME job \in [Invoices -> Job], NEW i \in Invoices, NEW step \in Steps, Finish(i, step)
    PROVE  job' \in [Invoices -> Job]
<1>1. [NoJob EXCEPT !.step = step] \in Job
  BY NoJobType DEF Job
<1> QED
  BY <1>1 DEF Finish

LEMMA StepReached ==
    ASSUME job \in [Invoices -> Job], NEW i \in Invoices, NEW step, Goto(i, step) \/ Finish(i, step)
    PROVE  \A j \in Invoices : job'[j] = job[j] \/ job'[j].step = step
<1>1. CASE Goto(i, step)
  BY <1>1 DEF Goto, Job
<1>2. CASE Finish(i, step)
  <2>1. [NoJob EXCEPT !.step = step].step = step
    BY DEF NoJob
  <2> QED
    BY <1>2, <2>1 DEF Finish
<1> QED
  BY <1>1, <1>2

LEMMA TwoFieldsType ==
    ASSUME job \in [Invoices -> Job], NEW i \in Invoices, NEW step \in Steps
    PROVE  /\ \A paid \in BOOLEAN :
                [job EXCEPT ![i].step = step, ![i].paid = paid] \in [Invoices -> Job]
           /\ \A found \in Answers :
                [job EXCEPT ![i].step = step, ![i].found = found] \in [Invoices -> Job]
<1>1. ASSUME NEW paid \in BOOLEAN
      PROVE  [job EXCEPT ![i].step = step, ![i].paid = paid] \in [Invoices -> Job]
  BY DEF Job
<1>2. ASSUME NEW found \in Answers
      PROVE  [job EXCEPT ![i].step = step, ![i].found = found] \in [Invoices -> Job]
  BY DEF Job, Answers
<1> QED
  BY <1>1, <1>2

-----------------------------------------------------------------------------
(* Type correctness.                                                       *)

RewardTypeOK ==
    /\ role \in {"member", "ambassador"}
    /\ reward \in {"none", "PENDING", "APPLIED"}
    /\ credits \in Nat
    /\ key \in {"unused", "kept", "forgotten"}
    /\ buried \in BOOLEAN /\ unseen \in BOOLEAN
    /\ commission \in [Periods -> Invoices \cup {None}]

LEMMA TypeParts ==
    TypeOK <=> PartnerTypeOK /\ RewardTypeOK /\ job \in [Invoices -> Job] /\ faults \in 0..MaxFaults
BY DEF TypeOK, RewardTypeOK

LEMMA InitType == Init => TypeOK
<1> SUFFICES ASSUME Init
             PROVE  TypeOK
  OBVIOUS
<1>1. PartnerTypeOK
  BY DEF Init, PartnerInit, PartnerTypeOK, Subscription, Redemption, Over
<1>2. RewardTypeOK
  BY DEF Init, RewardInit, RewardTypeOK
<1>3. job \in [Invoices -> Job] /\ faults \in 0..MaxFaults
  BY NoJobType, AttemptsAssumption DEF Init
<1> QED
  BY <1>1, <1>2, <1>3, TypeParts

LEMMA PartnerStepType ==
    ASSUME PartnerTypeOK, NEW u \in Users,
           Reserve(u) \/ Free(u) \/ Pay(u) \/ Claim(u) \/ End(u) \/ UNCHANGED partnerVars
    PROVE  PartnerTypeOK'
<1>1. CASE Reserve(u)
  BY <1>1 DEF Reserve, endVars, PartnerTypeOK
<1>2. CASE Free(u)
  BY <1>2 DEF Free, endVars, PartnerTypeOK
<1>3. CASE Pay(u)
  BY <1>3 DEF Pay, endVars, PartnerTypeOK, Subscription
<1>4. CASE Claim(u)
  BY <1>4 DEF Claim, endVars, PartnerTypeOK, Redemption
<1>5. CASE End(u)
  <2>1. CASE Cancel(u)
    BY <2>1 DEF Cancel, endVars, PartnerTypeOK, Subscription
  <2>2. ASSUME NEW status \in Over, FindActive(u, status)
        PROVE  PartnerTypeOK'
    BY <2>2 DEF FindActive, PartnerTypeOK
  <2>3. ASSUME NEW status \in Over, UpdateById(u, status)
        PROVE  PartnerTypeOK'
    <3>1. redemption' \in [Users -> Redemption] /\ recounted' \in SUBSET Users
      BY <2>3 DEF UpdateById, PartnerTypeOK, Redemption
    <3>2. ending' \in [Users -> SUBSET Over]
      BY <2>3 DEF UpdateById, PartnerTypeOK
    <3> QED
      BY <2>3, <3>1, <3>2 DEF UpdateById, PartnerTypeOK
  <2> QED
    BY <1>5, <2>1, <2>2, <2>3 DEF End
<1>6. CASE UNCHANGED partnerVars
  BY <1>6 DEF partnerVars, endVars, PartnerTypeOK
<1> QED
  BY <1>1, <1>2, <1>3, <1>4, <1>5, <1>6

LEMMA RewardStepType ==
    ASSUME RewardTypeOK, NEW i \in Invoices,
           \/ Commission(i, i.period) \/ Grant(TRUE) \/ Grant(FALSE)
           \/ \E found \in Answers : Credit(found)
           \/ Apply \/ ForgetKey \/ ChangeRole \/ Bury \/ UNCHANGED rewardVars
    PROVE  RewardTypeOK'
<1>1. CASE Commission(i, i.period)
  BY <1>1, InvoicesAssumption DEF Commission, RewardTypeOK
<1>2. CASE Grant(TRUE) \/ Grant(FALSE)
  BY <1>2 DEF Grant, RewardTypeOK
<1>3. ASSUME NEW found \in Answers, Credit(found)
      PROVE  RewardTypeOK'
  <2>1. UNCHANGED <<role, reward, commission>>
    BY <1>3 DEF Credit
  <2>2. credits' \in Nat
    BY <1>3 DEF Credit, Asked, RewardTypeOK
  <2>3. key' \in {"unused", "kept", "forgotten"}
    BY <1>3 DEF Credit, Asked, RewardTypeOK
  <2>4. buried' \in BOOLEAN /\ unseen' \in BOOLEAN
    BY <1>3, ZenonT(20) DEF Credit, Asked, RewardTypeOK
  <2> QED
    BY <2>1, <2>2, <2>3, <2>4 DEF RewardTypeOK
<1>4. CASE Apply \/ ForgetKey \/ ChangeRole \/ Bury
  BY <1>4 DEF Apply, ForgetKey, ChangeRole, Bury, RewardTypeOK
<1>5. CASE UNCHANGED rewardVars
  BY <1>5 DEF rewardVars, RewardTypeOK
<1> QED
  BY <1>1, <1>2, <1>3, <1>4, <1>5

LEMMA NextType == TypeOK /\ [Next]_vars => TypeOK'
<1> SUFFICES ASSUME TypeOK, [Next]_vars
             PROVE  TypeOK'
  OBVIOUS
<1>1. PartnerTypeOK /\ RewardTypeOK /\ job \in [Invoices -> Job] /\ faults \in 0..MaxFaults
  BY TypeParts
<1>2. \A i \in Invoices : i.user \in Users
  BY InvoicesAssumption
<1>3. Steps = {"claim", "referral", "price", "list", "credit", "apply", "unpaid",
               "queued", "done", "unpriced", "dropped"}
  BY DEF Steps, Running
<1>4. ASSUME NEW i \in Invoices, Send(i)
      PROVE  TypeOK'
  <2>1. PartnerTypeOK'
    BY <1>1, <1>2, <1>4, PartnerStepType DEF Send
  <2>2. RewardTypeOK' /\ faults' \in 0..MaxFaults
    BY <1>1, <1>4, RewardStepType DEF Send
  <2>3. job' \in [Invoices -> Job]
    <3>1. "queued" \in Steps
      BY <1>3
    <3>2. \A paid \in BOOLEAN :
            [job EXCEPT ![i].step = "queued", ![i].paid = paid] \in [Invoices -> Job]
      BY <1>1, <3>1, TwoFieldsType
    <3> QED
      BY <1>4, <3>2 DEF Send
  <2> QED
    BY <2>1, <2>2, <2>3 DEF TypeOK, RewardTypeOK
<1>5. ASSUME NEW i \in Invoices, JobStep(i)
      PROVE  TypeOK'
  <2>1. PartnerTypeOK'
    BY <1>1, <1>2, <1>5, PartnerStepType
       DEF JobStep, Sync, ClaimUse, Refer, Price, List, CreditMonth, ApplyReward
  <2>2. RewardTypeOK'
    <3>1. job[i].found \in Answers
      BY <1>1 DEF Job, Answers
    <3> QED
      BY <1>1, <1>5, <3>1, RewardStepType
         DEF JobStep, Sync, ClaimUse, Refer, Price, List, CreditMonth, ApplyReward
  <2>3. job' \in [Invoices -> Job] /\ faults' \in 0..MaxFaults
    <3>0. faults' \in 0..MaxFaults
      BY <1>1, <1>5 DEF JobStep, Sync, ClaimUse, Refer, Price, List, CreditMonth, ApplyReward
    <3>1. CASE \E step \in Steps : Goto(i, step) \/ Finish(i, step)
      BY <1>1, <3>1, <3>0, GotoType, FinishType
    <3>2. CASE List(i)
      <4>1. "credit" \in Steps
        BY <1>3
      <4>2. \A found \in Answers :
              [job EXCEPT ![i].step = "credit", ![i].found = found] \in [Invoices -> Job]
        BY <1>1, <4>1, TwoFieldsType
      <4>3. PICK found \in Answers :
              job' = [job EXCEPT ![i].step = "credit", ![i].found = found]
        BY <3>2 DEF List, Credited, Answers
      <4> QED
        BY <1>1, <3>0, <4>2, <4>3
    <3>3. List(i) \/ \E step \in Steps : Goto(i, step) \/ Finish(i, step)
      <4>1. CASE Sync(i)
        BY <1>3, <4>1 DEF Sync
      <4>2. CASE ClaimUse(i) \/ Refer(i) \/ Price(i)
        BY <1>3, <4>2 DEF ClaimUse, Refer, Price
      <4>3. CASE CreditMonth(i) \/ ApplyReward(i)
        BY <1>3, <4>3 DEF CreditMonth, ApplyReward
      <4> QED
        BY <1>5, <4>1, <4>2, <4>3 DEF JobStep
    <3> QED
      BY <3>1, <3>2, <3>3
  <2> QED
    BY <2>1, <2>2, <2>3 DEF TypeOK, RewardTypeOK
<1>6. ASSUME NEW i \in Invoices, Fault(i)
      PROVE  TypeOK'
  <2>1. PartnerTypeOK'
    BY <1>1, <1>2, <1>6, PartnerStepType DEF Fault
  <2>2. RewardTypeOK'
    BY <1>1, <1>6, RewardStepType DEF Fault
  <2>3. faults' \in 0..MaxFaults
    BY <1>1, <1>6, AttemptsAssumption DEF Fault
  <2>4. job' \in [Invoices -> Job]
    <3>1. CASE LastAttempt(i)
      BY <1>1, <1>3, <1>6, <3>1, FinishType DEF Fault
    <3>2. CASE ~LastAttempt(i)
      <4>1. job[i].attempts + 1 \in 0..Attempts - 1
        BY <1>1, <3>2, AttemptsAssumption DEF LastAttempt, Job
      <4> QED
        BY <1>1, <1>3, <1>6, <3>2, <4>1 DEF Fault, Job
    <3> QED
      BY <3>1, <3>2
  <2> QED
    BY <2>1, <2>2, <2>3, <2>4 DEF TypeOK, RewardTypeOK
<1>7. CASE Day
  <2>1. RewardTypeOK'
    BY <1>1, <1>7 DEF Day, ForgetKey, RewardTypeOK
  <2>2. PartnerTypeOK' /\ job' \in [Invoices -> Job] /\ faults' \in 0..MaxFaults
    <3>1. UNCHANGED partnerVars
      BY <1>7 DEF Day
    <3>2. PartnerTypeOK'
      BY <1>1, <3>1 DEF partnerVars, endVars, PartnerTypeOK
    <3> QED
      BY <1>1, <1>7, <3>2 DEF Day
  <2> QED
    BY <2>1, <2>2 DEF TypeOK, RewardTypeOK
<1>8. CASE PartnerNext /\ UNCHANGED <<rewardVars, job, faults>>
  <2>1. PartnerTypeOK'
    BY <1>1, <1>8, PartnerStepType DEF PartnerNext
  <2>2. RewardTypeOK' /\ job' \in [Invoices -> Job] /\ faults' \in 0..MaxFaults
    BY <1>1, <1>8 DEF rewardVars, RewardTypeOK
  <2> QED
    BY <2>1, <2>2 DEF TypeOK, RewardTypeOK
<1>9. CASE (ChangeRole \/ Bury) /\ UNCHANGED <<partnerVars, job, faults>>
  <2>1. RewardTypeOK'
    BY <1>1, <1>9 DEF ChangeRole, Bury, RewardTypeOK
  <2>2. PartnerTypeOK' /\ job' \in [Invoices -> Job] /\ faults' \in 0..MaxFaults
    BY <1>1, <1>9 DEF partnerVars, endVars, PartnerTypeOK
  <2> QED
    BY <2>1, <2>2 DEF TypeOK, RewardTypeOK
<1>10. CASE UNCHANGED vars
  BY <1>1, <1>10 DEF vars, partnerVars, endVars, rewardVars, TypeOK, PartnerTypeOK
<1> QED
  BY <1>4, <1>5, <1>6, <1>7, <1>8, <1>9, <1>10 DEF Next

\* The variables keep their types: no job is handled more often than its
\* attempts, and a code has at most one use of each account.
THEOREM TypeCorrect == Spec => []TypeOK
<1> QED
  BY InitType, NextType, PTL DEF Spec

-----------------------------------------------------------------------------
(* The uses of the code.                                                   *)

\* What a step may do to the code: one operation of one account.
LEMMA CodeStep ==
    ASSUME [Next]_vars
    PROVE  \/ UNCHANGED partnerVars
           \/ \E u \in Users : Reserve(u) \/ Free(u) \/ Pay(u) \/ Claim(u) \/ End(u)
<1>1. \A i \in Invoices : i.user \in Users
  BY InvoicesAssumption
<1>2. ASSUME NEW i \in Invoices, Send(i) \/ JobStep(i) \/ Fault(i)
      PROVE  UNCHANGED partnerVars \/ Pay(i.user) \/ Claim(i.user)
  BY <1>2 DEF Send, Fault, JobStep, Sync, ClaimUse, Refer, Price, List, CreditMonth, ApplyReward
<1>3. Day \/ UNCHANGED vars => UNCHANGED partnerVars
  BY DEF Day, vars
<1> QED
  BY <1>1, <1>2, <1>3 DEF Next, PartnerNext

\* What is about to be ended was counted.  With one job at a time it is active:
\* nothing has ended it since it was read.
EndingActive ==
    \A u \in Users, status \in Over : status \in ending[u] =>
        /\ redemption[u] # "none"
        /\ alone => /\ redemption[u] = "ACTIVE"
                    /\ \A v \in Users, other \in Over : other \in ending[v] => v = u /\ other = status

LEMMA EndingActiveStep == TypeOK /\ EndingActive /\ [Next]_vars => EndingActive'
<1> SUFFICES ASSUME TypeOK, EndingActive, [Next]_vars
             PROVE  EndingActive'
  OBVIOUS
<1>1. redemption \in [Users -> Redemption] /\ ending \in [Users -> SUBSET Over]
  BY DEF TypeOK, PartnerTypeOK
<1>2. CASE UNCHANGED partnerVars
  BY <1>2 DEF partnerVars, endVars, EndingActive
<1>3. ASSUME NEW u \in Users, Reserve(u) \/ Free(u) \/ Pay(u) \/ Cancel(u)
      PROVE  EndingActive'
  BY <1>3 DEF Reserve, Free, Pay, Cancel, endVars, EndingActive
<1>4. ASSUME NEW u \in Users, Claim(u)
      PROVE  EndingActive'
  BY <1>1, <1>4 DEF Claim, endVars, EndingActive
<1>5. ASSUME NEW u \in Users, NEW status \in Over, FindActive(u, status)
      PROVE  EndingActive'
  BY <1>1, <1>5 DEF FindActive, EndingActive
<1>6. ASSUME NEW u \in Users, NEW status \in Over, UpdateById(u, status)
      PROVE  EndingActive'
  <2>1. alone' = alone /\ status \in ending[u]
    BY <1>6 DEF UpdateById
  <2>2. redemption' = redemption \/ redemption' = [redemption EXCEPT ![u] = status]
    BY <1>6 DEF UpdateById
  <2>3. \A v \in Users : ending'[v] \subseteq ending[v]
    BY <1>1, <1>6 DEF UpdateById
  <2>4. \A v \in Users : redemption'[v] = "none" => redemption[v] = "none"
    BY <1>1, <2>2 DEF Over
  <2>5. CASE ~alone
    BY <2>1, <2>3, <2>4, <2>5 DEF EndingActive
  <2>6. CASE alone
    <3>1. \A v \in Users, other \in Over : other \in ending[v] => v = u /\ other = status
      BY <2>1, <2>6 DEF EndingActive
    <3>2. ending' = [ending EXCEPT ![u] = @ \ {status}]
      BY <1>6, <2>6 DEF UpdateById
    <3>3. \A v \in Users, other \in Over : other \notin ending'[v]
      BY <1>1, <3>1, <3>2
    <3> QED
      BY <3>3 DEF EndingActive
  <2> QED
    BY <2>5, <2>6
<1> QED
  BY <1>2, <1>3, <1>4, <1>5, <1>6, CodeStep DEF End

LEMMA EndingActiveInvariant == Spec => []EndingActive
<1>1. Init => EndingActive
  BY DEF Init, PartnerInit, EndingActive
<1> QED
  BY <1>1, EndingActiveStep, TypeCorrect, PTL DEF Spec

\* A use that has ended is never active again: no expiry, payment, retry of a
\* job or late first invoice changes it.  With one job at a time, lost stays lost
\* and released stays released.
THEOREM EndedUseStaysEnded == Spec => EndedUseStays
<1> DEFINE Stays == \A u \in Users : redemption[u] \in Over =>
                        /\ redemption'[u] \in Over
                        /\ alone => redemption'[u] = redemption[u]
<1>1. TypeOK /\ EndingActive /\ [Next]_vars => [Stays]_partnerVars
  <2> SUFFICES ASSUME TypeOK, EndingActive, [Next]_vars, ~UNCHANGED partnerVars
               PROVE  Stays
    OBVIOUS
  <2>1. redemption \in [Users -> Redemption] /\ ending \in [Users -> SUBSET Over]
    BY DEF TypeOK, PartnerTypeOK
  <2>2. PICK u \in Users : Reserve(u) \/ Free(u) \/ Pay(u) \/ Claim(u) \/ End(u)
    BY CodeStep
  <2>3. CASE redemption' = redemption
    BY <2>3
  <2>4. CASE Claim(u)
    BY <2>1, <2>4 DEF Claim, Over
  <2>5. ASSUME NEW status \in Over, UpdateById(u, status)
        PROVE  Stays
    <3>1. redemption' = redemption \/ redemption' = [redemption EXCEPT ![u] = status]
      BY <2>5 DEF UpdateById
    <3>2. alone => redemption[u] = "ACTIVE"
      BY <2>5 DEF UpdateById, EndingActive
    <3>3. "ACTIVE" \notin Over
      BY DEF Over
    <3> QED
      BY <2>1, <2>5, <3>1, <3>2, <3>3
  <2> QED
    BY <2>2, <2>3, <2>4, <2>5 DEF Reserve, Free, Pay, End, Cancel, FindActive
<1> QED
  BY <1>1, TypeCorrect, EndingActiveInvariant, PTL DEF Spec, EndedUseStays

LEMMA UsesFinite ==
    ASSUME PartnerTypeOK
    PROVE  /\ IsFiniteSet(Used) /\ IsFiniteSet(reserved) /\ IsFiniteSet(Beyond)
           /\ Cardinality(Used) \in Nat
           /\ Cardinality(reserved) \in Nat
           /\ Cardinality(Beyond) \in Nat
<1>1. Used \in SUBSET Users /\ reserved \in SUBSET Users /\ Beyond \in SUBSET Users
  BY DEF Used, Beyond, PartnerTypeOK
<1>2. IsFiniteSet(Used) /\ IsFiniteSet(reserved) /\ IsFiniteSet(Beyond)
  BY <1>1, UsersAssumption, FS_Subset
<1> QED
  BY <1>2, FS_CardinalityType

\* reserve leaves room for the account in the quota.
LEMMA ReserveKeepsQuota ==
    ASSUME PartnerTypeOK, NEW u \in Users, Reserve(u)
    PROVE  QuotaKept'
<1>1. Used' = Used /\ Beyond' = Beyond
  BY DEF Reserve, Used, Beyond, endVars
<1>2. reserved' = (reserved \ {u}) \cup {u}
  BY DEF Reserve
<1>3. /\ IsFiniteSet(reserved \ {u}) /\ Cardinality(reserved \ {u}) \in Nat
      /\ Cardinality(reserved') = Cardinality(reserved \ {u}) + 1
  <2>1. IsFiniteSet(reserved \ {u})
    BY UsesFinite, FS_RemoveElement
  <2> QED
    BY <1>2, <2>1, FS_AddElement, FS_CardinalityType
<1>4. Cardinality(Used) + Cardinality(reserved \ {u}) < MaxRedemptions
  BY DEF Reserve, UsedCount
<1>5. /\ Cardinality(Used') = Cardinality(Used)
      /\ Cardinality(Beyond') = Cardinality(Beyond)
  BY <1>1
<1> QED
  BY <1>1, <1>3, <1>4, <1>5, UsesFinite, MaxRedemptionsAssumption DEF QuotaKept

LEMMA FreeKeepsQuota ==
    ASSUME PartnerTypeOK, QuotaKept, NEW u \in Users, Free(u)
    PROVE  QuotaKept'
<1>1. Used' = Used /\ Beyond' = Beyond /\ reserved' = reserved \ {u}
  BY DEF Free, Used, Beyond, endVars
<1>2. Cardinality(reserved') = Cardinality(reserved) - 1
  BY <1>1, UsesFinite, FS_RemoveElement DEF Free
<1>3. /\ Cardinality(Used') = Cardinality(Used)
      /\ Cardinality(Beyond') = Cardinality(Beyond)
  BY <1>1
<1> QED
  BY <1>1, <1>2, <1>3, UsesFinite, MaxRedemptionsAssumption DEF QuotaKept

\* A use takes the place of its reservation, or is counted among the late.
LEMMA ClaimKeepsQuota ==
    ASSUME PartnerTypeOK, QuotaKept, NEW u \in Users, Claim(u)
    PROVE  QuotaKept'
<1>1. CASE redemption[u] # "none"
  <2>1. Used' = Used /\ Beyond' = Beyond /\ reserved' = reserved
    BY <1>1 DEF Claim, Used, Beyond, endVars
  <2> QED
    BY <2>1 DEF QuotaKept
<1>2. CASE redemption[u] = "none"
  <2>1. u \notin Used /\ Used' = Used \cup {u}
    BY <1>2 DEF Claim, Used, PartnerTypeOK, Redemption, Over
  <2>2. Cardinality(Used') = Cardinality(Used) + 1
    BY <2>1, UsesFinite, FS_AddElement
  <2>3. IsFiniteSet(Beyond')
    <3>1. Beyond' \in SUBSET (Used \cup {u})
      BY <2>1 DEF Beyond
    <3> QED
      BY <3>1, UsesFinite, FS_AddElement, FS_Subset
  <2>4. CASE u \in reserved
    <3>1. reserved' = reserved \ {u} /\ Beyond \in SUBSET (Beyond')
      BY <1>2, <2>1, <2>4 DEF Claim, Beyond, endVars
    <3>2. Cardinality(reserved') = Cardinality(reserved) - 1
      BY <2>4, <3>1, UsesFinite, FS_RemoveElement
    <3>3. /\ Cardinality(Beyond) <= Cardinality(Beyond')
          /\ Cardinality(Beyond') \in Nat
      BY <2>3, <3>1, FS_Subset, FS_CardinalityType
    <3> QED
      BY <2>2, <3>2, <3>3, UsesFinite, MaxRedemptionsAssumption DEF QuotaKept
  <2>5. CASE u \notin reserved
    <3>1. reserved' = reserved /\ Beyond' = Beyond \cup {u}
      BY <1>2, <2>1, <2>5 DEF Claim, Beyond, endVars
    <3>2. Cardinality(Beyond') = Cardinality(Beyond) + 1
      BY <2>1, <3>1, UsesFinite, FS_AddElement DEF Beyond
    <3> QED
      BY <2>2, <3>1, <3>2, UsesFinite, MaxRedemptionsAssumption DEF QuotaKept
  <2> QED
    BY <2>4, <2>5
<1> QED
  BY <1>1, <1>2

\* A use given back and then lost is counted again, when jobs end it at once.
LEMMA EndKeepsQuota ==
    ASSUME PartnerTypeOK, EndingActive, QuotaKept, NEW u \in Users, NEW status \in Over,
           UpdateById(u, status)
    PROVE  QuotaKept'
<1>1. late' = late /\ reserved' = reserved /\ alone' = alone
  BY DEF UpdateById
<1>2. redemption \in [Users -> Redemption]
  BY DEF PartnerTypeOK
<1>3. CASE Used' = Used /\ recounted' = recounted
  BY <1>1, <1>3 DEF QuotaKept, Beyond
<1>4. CASE u \in Used /\ Used' = Used \ {u} /\ recounted' = recounted
  <2>1. Cardinality(Used') = Cardinality(Used) - 1
    BY <1>4, UsesFinite, FS_RemoveElement
  <2>2. Beyond' = Beyond \ {u}
    BY <1>1, <1>4 DEF Beyond
  <2> DEFINE L == Beyond
  <2>3. IsFiniteSet(L \ {u}) /\ Cardinality(L \ {u}) \in {Cardinality(L), Cardinality(L) - 1}
    <3>1. IsFiniteSet(L)
      BY UsesFinite
    <3> HIDE DEF L
    <3> QED
      BY <3>1, FS_RemoveElement
  <2>4. Cardinality(L \ {u}) \in Nat
    BY <2>3, FS_CardinalityType
  <2>5. Cardinality(Beyond') = Cardinality(L \ {u})
    BY <2>2
  <2> QED
    BY <1>1, <2>1, <2>3, <2>4, <2>5, UsesFinite, MaxRedemptionsAssumption DEF QuotaKept
<1>5. CASE u \notin Used /\ Used' = Used \cup {u} /\ recounted' = recounted \cup {u} /\ ~alone
  <2>1. Cardinality(Used') = Cardinality(Used) + 1
    BY <1>5, UsesFinite, FS_AddElement
  <2>2. Beyond' = Beyond \cup {u} /\ u \notin Beyond
    BY <1>1, <1>5 DEF Beyond
  <2>3. Cardinality(Beyond') = Cardinality(Beyond) + 1
    BY <2>2, UsesFinite, FS_AddElement
  <2> QED
    BY <1>1, <2>1, <2>3, UsesFinite, MaxRedemptionsAssumption DEF QuotaKept
<1>6. CASE UNCHANGED <<redemption, recounted>>
  BY <1>3, <1>6 DEF Used
<1>7. CASE redemption' = [redemption EXCEPT ![u] = status]
  <2>1. redemption[u] # "none" /\ (alone => redemption[u] = "ACTIVE")
    BY DEF UpdateById, EndingActive
  <2>2. CASE status = "RELEASED"
    <3>1. Used' = Used \ {u} /\ recounted' = recounted
      BY <1>2, <1>7, <2>2 DEF Used, UpdateById
    <3> QED
      BY <1>3, <1>4, <3>1
  <2>3. CASE status = "LOST" /\ redemption[u] # "RELEASED"
    <3>1. redemption[u] \in {"ACTIVE", "LOST"}
      BY <1>2, <2>1, <2>3 DEF Redemption, Over
    <3>2. Used' = Used /\ recounted' = recounted
      BY <1>2, <1>7, <2>3, <3>1 DEF Used, UpdateById
    <3> QED
      BY <1>3, <3>2
  <2>4. CASE status = "LOST" /\ redemption[u] = "RELEASED"
    <3>1. u \notin Used /\ Used' = Used \cup {u} /\ ~alone
      BY <1>2, <1>7, <2>1, <2>4 DEF Used
    <3>2. recounted' = recounted \cup {u} \/ UNCHANGED redemption
      BY <2>4 DEF UpdateById
    <3> QED
      BY <1>5, <1>7, <2>4, <3>1, <3>2 DEF Used
  <2> QED
    BY <2>2, <2>3, <2>4 DEF Over
<1> QED
  BY <1>2, <1>6, <1>7 DEF UpdateById

\* The quota of the code: uses and checkouts in progress exceed it only by the
\* uses counted without a reservation, and by those counted again after they were
\* given back if jobs end a use at once, whatever else happens at once.
THEOREM QuotaIsKept == Spec => []QuotaKept
<1>1. Init => QuotaKept
  <2> SUFFICES ASSUME Init
               PROVE  QuotaKept
    OBVIOUS
  <2>1. Used = {} /\ reserved = {} /\ Beyond = {}
    BY DEF Init, PartnerInit, Used, Beyond
  <2> QED
    BY <2>1, FS_EmptySet, MaxRedemptionsAssumption DEF QuotaKept
<1>2. TypeOK /\ EndingActive /\ QuotaKept /\ [Next]_vars => QuotaKept'
  <2> SUFFICES ASSUME TypeOK, EndingActive, QuotaKept, [Next]_vars
               PROVE  QuotaKept'
    OBVIOUS
  <2>1. PartnerTypeOK
    BY DEF TypeOK
  <2>2. ASSUME UNCHANGED <<reserved, redemption, late, alone, recounted>>
        PROVE  QuotaKept'
    <3>1. Used' = Used /\ Beyond' = Beyond /\ reserved' = reserved
      BY <2>2 DEF Used, Beyond
    <3> QED
      BY <3>1 DEF QuotaKept
  <2>3. CASE UNCHANGED partnerVars
    BY <2>2, <2>3 DEF partnerVars, endVars
  <2>4. ASSUME NEW u \in Users, Pay(u) \/ Cancel(u) \/ \E status \in Over : FindActive(u, status)
        PROVE  QuotaKept'
    BY <2>2, <2>4 DEF Pay, Cancel, FindActive, endVars
  <2> QED
    BY <2>1, <2>3, <2>4, CodeStep, ReserveKeepsQuota, FreeKeepsQuota, ClaimKeepsQuota,
       EndKeepsQuota DEF End
<1> QED
  BY <1>1, <1>2, TypeCorrect, EndingActiveInvariant, PTL DEF Spec

-----------------------------------------------------------------------------
(* The month of the referrer.                                              *)

\* OneCredit is not inductive: what keeps the second job from crediting is the
\* key that Stripe keeps, or the credit that the list shows.  A job that has
\* read "no credit" is at most as old as the key.
CreditInv ==
    /\ OneCredit
    /\ AppliedIsCredited
    /\ credits > 0 <=> key # "unused"
    /\ \A i \in Invoices :
        /\ At(i, "credit") /\ job[i].found = "yes" => credits > 0
        /\ At(i, "credit") /\ job[i].found = "no" => credits = 0 \/ key = "kept"
        /\ At(i, "apply") => credits > 0

LEMMA InitCredit == Init => CreditInv
BY DEF Init, RewardInit, CreditInv, OneCredit, AppliedIsCredited, At, NoJob

\* A step that touches neither the credits nor the key, and that brings no job
\* to the credit or to the end of it.
LEMMA Elsewhere ==
    ASSUME TypeOK, CreditInv, UNCHANGED <<credits, key, unseen>>,
           reward' = "APPLIED" => reward = "APPLIED",
           \A i \in Invoices : job'[i] = job[i] \/ job'[i].step \notin {"credit", "apply"}
    PROVE  CreditInv'
<1>1. OneCredit' /\ AppliedIsCredited' /\ (credits' > 0 <=> key' # "unused")
  BY DEF CreditInv, OneCredit, AppliedIsCredited
<1>2. ASSUME NEW i \in Invoices
      PROVE  /\ At(i, "credit")' /\ job'[i].found = "yes" => credits' > 0
             /\ At(i, "credit")' /\ job'[i].found = "no" => credits' = 0 \/ key' = "kept"
             /\ At(i, "apply")' => credits' > 0
  BY DEF CreditInv, At
<1> QED
  BY <1>1, <1>2 DEF CreditInv

\* A job that reads whether the month was credited.
LEMMA ListKeepsCredit ==
    ASSUME TypeOK, CreditInv, NEW i \in Invoices, List(i)
    PROVE  CreditInv'
<1>1. UNCHANGED <<role, reward, credits, key, unseen, commission>>
  BY DEF List, rewardVars
<1>2. PICK found \in Credited : job' = [job EXCEPT ![i].step = "credit", ![i].found = found]
  BY DEF List
<1>3. /\ job'[i].step = "credit" /\ job'[i].found = found
      /\ \A j \in Invoices \ {i} : job'[j] = job[j]
  BY <1>2 DEF TypeOK, Job
<1>4. found = "yes" => credits > 0
  BY DEF Credited, TypeOK
<1>5. found = "no" => credits = 0
  BY DEF Credited, TypeOK
<1>6. ASSUME NEW j \in Invoices
      PROVE  /\ At(j, "credit")' /\ job'[j].found = "yes" => credits' > 0
             /\ At(j, "credit")' /\ job'[j].found = "no" => credits' = 0 \/ key' = "kept"
             /\ At(j, "apply")' => credits' > 0
  BY <1>1, <1>3, <1>4, <1>5 DEF CreditInv, At
<1>7. OneCredit' /\ AppliedIsCredited' /\ (credits' > 0 <=> key' # "unused")
  BY <1>1 DEF CreditInv, OneCredit, AppliedIsCredited
<1> QED
  BY <1>6, <1>7 DEF CreditInv

\* The credit itself: the only step that adds one.
LEMMA CreditMonthKeepsCredit ==
    ASSUME TypeOK, CreditInv, NEW i \in Invoices, CreditMonth(i)
    PROVE  CreditInv'
<1> DEFINE found == job[i].found
<1>1. /\ job'[i].step = "apply"
      /\ \A j \in Invoices \ {i} : job'[j] = job[j]
      /\ found \in Answers /\ credits \in Nat
      /\ key \in {"unused", "kept", "forgotten"}
  BY DEF CreditMonth, Goto, TypeOK, Job, Answers
<1>2. reward' = reward /\ Credit(found) /\ At(i, "credit")
  BY DEF CreditMonth, Credit
<1>3. CASE found = "yes" \/ key = "kept"
  <2>1. UNCHANGED <<credits, key, unseen>>
    BY <1>2, <1>3 DEF Credit
  <2>2. credits > 0
    BY <1>2, <1>3 DEF CreditInv
  <2>3. OneCredit' /\ AppliedIsCredited' /\ (credits' > 0 <=> key' # "unused")
    BY <1>2, <2>1 DEF CreditInv, OneCredit, AppliedIsCredited
  <2>4. ASSUME NEW j \in Invoices
        PROVE  /\ At(j, "credit")' /\ job'[j].found = "yes" => credits' > 0
               /\ At(j, "credit")' /\ job'[j].found = "no" => credits' = 0 \/ key' = "kept"
               /\ At(j, "apply")' => credits' > 0
    BY <1>1, <2>1, <2>2 DEF CreditInv, At
  <2> QED
    BY <2>3, <2>4 DEF CreditInv
<1>4. CASE ~(found = "yes" \/ key = "kept")
  <2>1. credits' = credits + 1 /\ key' = "kept"
    BY <1>2, <1>4 DEF Credit, Asked
  <2>2. unseen' = (unseen \/ (found \in {"unread", "old"} /\ key = "forgotten"))
    BY <1>2, <1>4 DEF Credit, Asked
  <2>3. credits' > 0
    BY <1>1, <2>1
  <2>4. credits = 0 \/ unseen'
    <3>1. CASE found = "no"
      BY <1>2, <1>4, <3>1 DEF CreditInv
    <3>2. CASE key = "unused"
      BY <1>1, <3>2 DEF CreditInv
    <3>3. CASE found \in {"unread", "old"} /\ key = "forgotten"
      BY <2>2, <3>3
    <3> QED
      BY <1>1, <1>4, <3>1, <3>2, <3>3 DEF Answers
  <2>5. OneCredit'
    BY <2>1, <2>4 DEF OneCredit
  <2>6. AppliedIsCredited' /\ (credits' > 0 <=> key' # "unused")
    BY <2>1, <2>3 DEF AppliedIsCredited
  <2>7. ASSUME NEW j \in Invoices
        PROVE  /\ At(j, "credit")' /\ job'[j].found = "yes" => credits' > 0
               /\ At(j, "credit")' /\ job'[j].found = "no" => credits' = 0 \/ key' = "kept"
               /\ At(j, "apply")' => credits' > 0
    BY <2>1, <2>3
  <2> QED
    BY <2>5, <2>6, <2>7 DEF CreditInv
<1> QED
  BY <1>3, <1>4

LEMMA ApplyRewardKeepsCredit ==
    ASSUME TypeOK, CreditInv, NEW i \in Invoices, ApplyReward(i)
    PROVE  CreditInv'
<1>1. UNCHANGED <<credits, key, unseen>> /\ credits > 0
  BY DEF ApplyReward, Apply, CreditInv
<1>2. \A j \in Invoices : job'[j] = job[j] \/ job'[j].step = "done"
  BY StepReached DEF ApplyReward, TypeOK
<1>3. OneCredit' /\ AppliedIsCredited' /\ (credits' > 0 <=> key' # "unused")
  BY <1>1 DEF CreditInv, OneCredit, AppliedIsCredited
<1>4. ASSUME NEW j \in Invoices
      PROVE  /\ At(j, "credit")' /\ job'[j].found = "yes" => credits' > 0
             /\ At(j, "credit")' /\ job'[j].found = "no" => credits' = 0 \/ key' = "kept"
             /\ At(j, "apply")' => credits' > 0
  BY <1>1, <1>2 DEF CreditInv, At
<1> QED
  BY <1>3, <1>4 DEF CreditInv

\* Stripe forgets the key while no job is between the list and the credit.
LEMMA DayKeepsCredit ==
    ASSUME TypeOK, CreditInv, Day
    PROVE  CreditInv'
<1>1. UNCHANGED <<reward, credits, unseen, job>> /\ key = "kept" /\ key' = "forgotten"
  BY DEF Day, ForgetKey
<1>2. \A j \in Invoices : job'[j].step \notin {"credit", "apply"}
  BY <1>1 DEF Day, Running
<1>3. OneCredit' /\ AppliedIsCredited' /\ (credits' > 0 <=> key' # "unused")
  BY <1>1 DEF CreditInv, OneCredit, AppliedIsCredited
<1> QED
  BY <1>2, <1>3 DEF CreditInv, At

LEMMA NextCredit == TypeOK /\ CreditInv /\ [Next]_vars => CreditInv'
<1> SUFFICES ASSUME TypeOK, CreditInv, [Next]_vars
             PROVE  CreditInv'
  OBVIOUS
<1>1. ASSUME NEW i \in Invoices, Send(i)
      PROVE  CreditInv'
  <2>1. \A j \in Invoices : job'[j] = job[j] \/ job'[j].step = "queued"
    BY <1>1 DEF Send, TypeOK, Job
  <2> QED
    BY <1>1, <2>1, Elsewhere DEF Send, rewardVars
<1>2. ASSUME NEW i \in Invoices, Fault(i)
      PROVE  CreditInv'
  <2>1. \A j \in Invoices : job'[j] = job[j] \/ job'[j].step \in {"queued", "dropped"}
    BY <1>2, NoJobType DEF Fault, Finish, TypeOK, Job
  <2> QED
    BY <1>2, <2>1, Elsewhere DEF Fault, rewardVars
<1>3. ASSUME NEW i \in Invoices, Sync(i) \/ ClaimUse(i) \/ Price(i)
      PROVE  CreditInv'
  <2>1. \A j \in Invoices : job'[j] = job[j] \/ job'[j].step \notin {"credit", "apply"}
    <3>1. PICK step \in {"claim", "referral", "list", "unpriced"} : Goto(i, step) \/ Finish(i, step)
      BY <1>3 DEF Sync, ClaimUse, Price
    <3> QED
      BY <3>1, StepReached DEF TypeOK
  <2> QED
    BY <1>3, <2>1, Elsewhere DEF Sync, ClaimUse, Price, rewardVars
<1>4. ASSUME NEW i \in Invoices, Refer(i)
      PROVE  CreditInv'
  <2>1. \A j \in Invoices : job'[j] = job[j] \/ job'[j].step \notin {"credit", "apply"}
    <3>1. PICK step \in {"price", "done"} : Goto(i, step) \/ Finish(i, step)
      BY <1>4 DEF Refer
    <3> QED
      BY <3>1, StepReached DEF TypeOK
  <2>2. UNCHANGED <<credits, key, unseen>> /\ (reward' = "APPLIED" => reward = "APPLIED")
    BY <1>4 DEF Refer, Commission, Grant, rewardVars
  <2> QED
    BY <2>1, <2>2, Elsewhere
<1>5. ASSUME NEW i \in Invoices, JobStep(i)
      PROVE  CreditInv'
  BY <1>3, <1>4, <1>5, ListKeepsCredit, CreditMonthKeepsCredit, ApplyRewardKeepsCredit
     DEF JobStep
<1>6. CASE PartnerNext /\ UNCHANGED <<rewardVars, job, faults>>
  BY <1>6, Elsewhere DEF rewardVars
<1>7. CASE (ChangeRole \/ Bury) /\ UNCHANGED <<partnerVars, job, faults>>
  BY <1>7, Elsewhere DEF ChangeRole, Bury
<1>8. CASE UNCHANGED vars
  BY <1>8, Elsewhere DEF vars, rewardVars
<1> QED
  BY <1>1, <1>2, <1>5, <1>6, <1>7, <1>8, DayKeepsCredit DEF Next

LEMMA CreditInvariant == Spec => []CreditInv
<1> QED
  BY InitCredit, NextCredit, TypeCorrect, PTL DEF Spec

\* One month is credited for a filleul, for every number of invoices, of
\* attempts and of jobs at once, but when Stripe had forgotten the key and the
\* credit could not be read, or was not among the last 100 transactions.
THEOREM CreditedOnce == Spec => []OneCredit
<1>1. CreditInv => OneCredit
  BY DEF CreditInv
<1> QED
  BY <1>1, CreditInvariant, PTL

\* No reward is shown as applied before its month is credited.
THEOREM AppliedCredited == Spec => []AppliedIsCredited
<1>1. CreditInv => AppliedIsCredited
  BY DEF CreditInv
<1> QED
  BY <1>1, CreditInvariant, PTL

=============================================================================
