------------------------- MODULE SchwabClientProofs -------------------------
(* Theorems about SchwabClient and the TokenBucket it extends, for any     *)
(* number of callers, rates and lives of tokens.                           *)
EXTENDS SchwabClient, FiniteSums, TLAPS

(* What a full bucket holds; hidden in the steps, whose arithmetic is      *)
(* linear in it.                                                           *)
Cap == Burst * Cost

LEMMA CapType == Cap \in Nat /\ Cost \in Nat /\ Cost >= 1 /\ Cost <= Cap
  BY BucketAssumption DEF Cap

(* The amount in the bucket now, with the capacity named.                  *)
LEMMA RefilledIs ==
  Refilled = IF Cap < tokens + (now - lastTime) THEN Cap ELSE tokens + (now - lastTime)
  BY DEF Refilled, Lesser, Cap

-----------------------------------------------------------------------------
(* Types. *)

LEMMA TypeInit == Init => TypeOK
<1> SUFFICES ASSUME Init PROVE TypeOK
  OBVIOUS
<1>1. Cost \in Nat /\ Horizon \in Nat /\ Lifetime \in Nat /\ Timeout \in Nat /\ RefreshLife \in Nat
  BY BucketAssumption, ClientAssumption
<1>2. BucketTypeOK
  BY <1>1, CapType DEF Init, InitBucket, BucketTypeOK, Times, Cap
<1>3. token \in [validTo : Int, expires : Nat, refreshExpires : Nat]
  BY <1>1 DEF Init
<1>4. call \in [Callers -> [step : Steps, validTo : Int, since : Times]]
  BY <1>1 DEF Init, Idle, Steps, Times
<1> QED
  BY <1>2, <1>3, <1>4 DEF TypeOK

LEMMA TypeTake == BucketTypeOK /\ Take /\ UNCHANGED now => BucketTypeOK'
<1> SUFFICES ASSUME BucketTypeOK, Take, now' = now PROVE BucketTypeOK'
  OBVIOUS
<1>1. /\ Cap \in Nat /\ Cost \in Nat /\ Horizon \in Nat /\ now \in Nat /\ tokens \in 0..Cap
      /\ lastTime \in Nat /\ lastTime <= now
  BY CapType, BucketAssumption DEF BucketTypeOK, Times, Cap
<1>2. tokens' \in 0..Cap
  BY <1>1, RefilledIs DEF Take
<1>3. taken' \in Nat /\ admitted' \in Nat
  BY <1>1 DEF Take, Count, BucketTypeOK
<1> QED
  BY <1>1, <1>2, <1>3 DEF Take, BucketTypeOK, Cap

LEMMA TypeWait == ASSUME NEW c \in Callers
                  PROVE  BucketTypeOK /\ Wait(c) /\ UNCHANGED now => BucketTypeOK'
<1> SUFFICES ASSUME BucketTypeOK, Wait(c), now' = now PROVE BucketTypeOK'
  OBVIOUS
<1>1. /\ Cap \in Nat /\ Cost \in Nat /\ Horizon \in Nat /\ now \in Nat /\ tokens \in 0..Cap
      /\ lastTime \in Nat /\ lastTime <= now
  BY CapType, BucketAssumption DEF BucketTypeOK, Times, Cap
<1>2. now + (Cost - Refilled) \in 0..now + Cost
  BY <1>1, RefilledIs DEF Wait
<1>3. wakeAt' \in [Callers -> 0..now + Cost]
  BY <1>2 DEF Wait, BucketTypeOK
<1> QED
  BY <1>1, <1>3 DEF Wait, BucketTypeOK, Cap

LEMMA TypeWakeUp == ASSUME NEW c \in Callers
                    PROVE  BucketTypeOK /\ WakeUp(c) /\ UNCHANGED now => BucketTypeOK'
<1> SUFFICES ASSUME BucketTypeOK, WakeUp(c), now' = now PROVE BucketTypeOK'
  OBVIOUS
<1>1. Cost \in Nat /\ Horizon \in Nat /\ now \in Nat
  BY BucketAssumption DEF BucketTypeOK, Times
<1> QED
  BY <1>1 DEF WakeUp, BucketTypeOK, Count

LEMMA TypeTick == TypeOK /\ Tick => TypeOK'
<1> SUFFICES ASSUME TypeOK, Tick PROVE TypeOK'
  OBVIOUS
<1>1. now \in Nat /\ Horizon \in Nat /\ Cost \in Nat /\ now' = now + 1 /\ now' \in Times
  BY BucketAssumption DEF TypeOK, BucketTypeOK, Times, Tick
<1>2. 0..now \subseteq 0..now' /\ 0..now + Cost \subseteq 0..now' + Cost
  BY <1>1
<1>3. lastTime' \in 0..now' /\ wakeAt' \in [Callers -> 0..now' + Cost]
  BY <1>2 DEF TypeOK, BucketTypeOK, Tick, bucketVars
<1> QED
  BY <1>1, <1>3 DEF TypeOK, BucketTypeOK, Tick, bucketVars

LEMMA TypeNext == TypeOK /\ [Next]_vars => TypeOK'
<1> SUFFICES ASSUME TypeOK, [Next]_vars PROVE TypeOK'
  OBVIOUS
<1>0. now \in Times /\ now \in Nat /\ Lifetime \in Nat /\ RefreshLife \in Nat /\ 0 \in Times
  BY BucketAssumption, ClientAssumption DEF TypeOK, BucketTypeOK, Times
<1>1. CASE Tick
  BY <1>1, TypeTick
<1>2. ASSUME NEW c \in Callers, Begin(c) PROVE TypeOK'
  BY <1>2, TypeTake, TypeWait DEF Begin, TypeOK, Steps
<1>3. ASSUME NEW c \in Callers, Admit(c) PROVE TypeOK'
  BY <1>3, TypeWakeUp DEF Admit, TypeOK, Steps
<1>a. ASSUME NEW c \in Callers, NEW r \in [step : Steps, validTo : Int, since : Times],
             call' = [call EXCEPT ![c] = r], UNCHANGED <<now, bucketVars, token>>
      PROVE  TypeOK'
  BY <1>a DEF TypeOK, BucketTypeOK, bucketVars
<1>4. ASSUME NEW c \in Callers, GetAccessToken(c) PROVE TypeOK'
  <2>1. [step |-> "sending", validTo |-> token.validTo, since |-> now]
          \in [step : Steps, validTo : Int, since : Times]
    BY <1>0 DEF TypeOK, Steps
  <2>2. Idle \in [step : Steps, validTo : Int, since : Times]
    BY <1>0 DEF Idle, Steps
  <2>3. [step |-> "refreshing", validTo |-> 0, since |-> now]
          \in [step : Steps, validTo : Int, since : Times]
    BY <1>0 DEF Idle, Steps
  <2> QED
    BY <1>4, <1>a, <2>1, <2>2, <2>3 DEF GetAccessToken, Send
<1>5. ASSUME NEW c \in Callers, Issue(c) PROVE TypeOK'
  <2>1. [step |-> "refreshed", validTo |-> now + Lifetime, since |-> call[c].since]
          \in [step : Steps, validTo : Int, since : Times]
    BY <1>0 DEF TypeOK, Steps
  <2> QED
    BY <1>5, <1>a, <2>1 DEF Issue
<1>6. ASSUME NEW c \in Callers, RefreshFails(c) PROVE TypeOK'
  BY <1>6, <1>0 DEF RefreshFails, Idle, TypeOK, BucketTypeOK, bucketVars, Steps
<1>7. ASSUME NEW c \in Callers, StoreToken(c) PROVE TypeOK'
  BY <1>7, <1>0 DEF StoreToken, Send, TypeOK, BucketTypeOK, bucketVars, Steps
<1>8. ASSUME NEW c \in Callers, Answer(c) PROVE TypeOK'
  BY <1>8, <1>0 DEF Answer, Idle, TypeOK, BucketTypeOK, bucketVars, Steps
<1>9. CASE UNCHANGED vars
  BY <1>9 DEF vars, bucketVars, TypeOK, BucketTypeOK
<1> QED
  BY <1>1, <1>2, <1>3, <1>4, <1>5, <1>6, <1>7, <1>8, <1>9 DEF Next

(* Every variable keeps its type; above all the bucket never holds less    *)
(* than nothing nor more than its burst (newTokenBucket, refill).          *)
THEOREM ClientTypeCorrect == Spec => []TypeOK
<1> QED
  BY TypeInit, TypeNext, PTL DEF Spec

-----------------------------------------------------------------------------
(* The rate. *)

(* What was taken in the window, together with what may be taken at once,  *)
(* is a full bucket and what accrued since the window began.               *)
Budget == IF from <= now THEN taken + Refilled <= Cap + (now - from) ELSE taken = 0

LEMMA BudgetInit == Init => Budget
<1> SUFFICES ASSUME Init PROVE Budget
  OBVIOUS
<1>1. now = 0 /\ from \in Nat /\ taken = 0 /\ tokens = Cap /\ lastTime = 0 /\ Cap \in Nat
  BY CapType, BucketAssumption DEF Init, InitBucket, Times, Cap
<1> QED
  BY <1>1, RefilledIs DEF Budget

(* The bucket after a step, with the capacity named.                       *)
LEMMA RefilledNext ==
  Refilled' = IF Cap < tokens' + (now' - lastTime') THEN Cap ELSE tokens' + (now' - lastTime')
  BY DEF Refilled, Lesser, Cap

LEMMA BudgetNext == TypeOK /\ Budget /\ [Next]_vars => Budget'
<1> SUFFICES ASSUME TypeOK, Budget, [Next]_vars PROVE Budget'
  OBVIOUS
<1>0. /\ Cap \in Nat /\ Cost \in Nat /\ now \in Nat /\ tokens \in 0..Cap
      /\ lastTime \in Nat /\ lastTime <= now /\ from \in Nat /\ taken \in Nat
  BY CapType, BucketAssumption DEF TypeOK, BucketTypeOK, Times, Cap
<1>1. CASE Tick
  <2>1. /\ now' = now + 1 /\ tokens' = tokens /\ lastTime' = lastTime /\ from' = from
        /\ taken' = taken
    BY <1>1 DEF Tick, bucketVars
  <2> QED
    BY <1>0, <2>1, RefilledIs, RefilledNext DEF Budget
<1>2. CASE Take /\ now' = now
  <2>1. /\ Refilled >= Cost /\ tokens' = Refilled - Cost /\ lastTime' = now /\ from' = from
        /\ taken' = IF from <= now THEN taken + Cost ELSE taken
    BY <1>2 DEF Take, Count
  <2> QED
    BY <1>0, <1>2, <2>1, RefilledIs, RefilledNext DEF Budget
<1>3. ASSUME NEW c \in Callers, Wait(c), now' = now PROVE Budget'
  <2>1. tokens' = 0 /\ lastTime' = now /\ from' = from /\ taken' = taken
    BY <1>3 DEF Wait
  <2> QED
    BY <1>0, <1>3, <2>1, RefilledIs, RefilledNext DEF Budget
<1>4. CASE UNCHANGED <<now, tokens, lastTime, from, taken>>
  BY <1>4, RefilledIs, RefilledNext DEF Budget
<1>5. ASSUME NEW c \in Callers, Begin(c) PROVE Budget'
  BY <1>2, <1>3, <1>5 DEF Begin
<1>6. ASSUME NEW c \in Callers,
             Admit(c) \/ GetAccessToken(c) \/ Issue(c) \/ RefreshFails(c) \/ StoreToken(c) \/ Answer(c)
      PROVE  Budget'
  BY <1>4, <1>6 DEF Admit, WakeUp, GetAccessToken, Issue, RefreshFails, StoreToken, Answer, bucketVars
<1>7. CASE UNCHANGED vars
  BY <1>4, <1>7 DEF vars, bucketVars
<1> QED
  BY <1>1, <1>5, <1>6, <1>7 DEF Next

(* In every window of time the operations that found a token keep to a     *)
(* burst and the rate (Try and getImpl), whatever the burst and the rate.  *)
THEOREM TakenKeepsToTheRate == Spec => []TakenWithinRate
<1>1. TypeOK /\ Budget => TakenWithinRate
  <2> SUFFICES ASSUME TypeOK, Budget, from <= now PROVE taken <= Cap + (now - from)
    BY DEF TakenWithinRate, Cap
  <2>1. /\ Cap \in Nat /\ now \in Nat /\ tokens \in 0..Cap
        /\ lastTime \in Nat /\ lastTime <= now /\ from \in Nat /\ taken \in Nat
    BY CapType, BucketAssumption DEF TypeOK, BucketTypeOK, Times, Cap
  <2> QED
    BY <2>1, RefilledIs DEF Budget
<1> QED
  BY <1>1, ClientTypeCorrect, BudgetInit, BudgetNext, PTL DEF Spec

-----------------------------------------------------------------------------
(* The rate of all operations, the ones that slept included. *)

(* What a caller may still be let through without a token: as much as one  *)
(* that never stops sleeping, until the end of its sleep if it sleeps now. *)
Allowance(c) == IF wakeAt[c] = 0 THEN (now - from) + Cost
                ELSE IF wakeAt[c] < from THEN 0 ELSE wakeAt[c] - from

Allowances == [c \in Callers |-> Allowance(c)]

Allowed == SumFunction(Allowances)

(* A wait costs the bucket what it forfeits and the caller the rest of a   *)
(* token: what was let through, and what may be taken at once, is a full   *)
(* bucket, what accrued, and what the callers were allowed.                *)
Admission == IF from <= now
             THEN admitted + Refilled <= Cap + (now - from) + Allowed
             ELSE admitted = 0

(* Only a caller that the bucket holds up sleeps.                          *)
Sleepers == \A c \in Callers : wakeAt[c] # 0 => call[c].step = "limited"

LEMMA Figures ==
  ASSUME TypeOK
  PROVE  /\ Cap \in Nat /\ Cost \in Nat /\ Cost >= 1 /\ now \in Nat /\ from \in Nat
         /\ tokens \in 0..Cap /\ lastTime \in Nat /\ lastTime <= now /\ admitted \in Nat
         /\ \A c \in Callers : wakeAt[c] \in Nat /\ wakeAt[c] <= now + Cost
<1>1. Cost \in Nat /\ now \in Nat
  BY BucketAssumption DEF TypeOK, BucketTypeOK, Times
<1>2. \A c \in Callers : wakeAt[c] \in Nat /\ wakeAt[c] <= now + Cost
  BY <1>1 DEF TypeOK, BucketTypeOK
<1> QED
  BY <1>1, <1>2, CapType, BucketAssumption DEF TypeOK, BucketTypeOK, Times, Cap

AllowanceTypeOK == /\ Allowances \in [Callers -> Int] /\ Allowed \in Int
                   /\ \A c \in Callers : Allowances[c] = Allowance(c)

LEMMA AllowanceTypes == TypeOK => AllowanceTypeOK
<1> SUFFICES ASSUME TypeOK PROVE AllowanceTypeOK
  OBVIOUS
<1>1. \A c \in Callers : Allowance(c) \in Int
  BY Figures DEF Allowance
<1>2. Allowances \in [Callers -> Int]
  BY <1>1 DEF Allowances
<1>3. Allowed \in Int
  BY <1>2, TotalInt, BucketAssumption DEF Allowed
<1> QED
  BY <1>2, <1>3 DEF Allowances, AllowanceTypeOK

(* When the window begins no caller owes anything.                         *)
LEMMA NoneOwes == TypeOK /\ from <= now => Allowed >= 0
<1> SUFFICES ASSUME TypeOK, from <= now PROVE Allowed >= 0
  OBVIOUS
<1>1. \A c \in Callers : Allowance(c) \in Nat
  BY Figures DEF Allowance
<1>2. Allowances \in [Callers -> Nat]
  BY <1>1 DEF Allowances
<1> QED
  BY <1>2, TotalNat, BucketAssumption DEF Allowed

LEMMA SleepersInit == Init => Sleepers
  BY DEF Init, InitBucket, Sleepers

LEMMA SleepersNext == TypeOK /\ Sleepers /\ [Next]_vars => Sleepers'
<1> SUFFICES ASSUME TypeOK, Sleepers, [Next]_vars PROVE Sleepers'
  OBVIOUS
<1>0. wakeAt \in [Callers -> 0..now + Cost] /\ call \in [Callers -> [step : Steps, validTo : Int, since : Times]]
  BY DEF TypeOK, BucketTypeOK
<1>1. CASE UNCHANGED <<wakeAt, call>>
  BY <1>1 DEF Sleepers
<1>2. ASSUME NEW c \in Callers, Begin(c) PROVE Sleepers'
  <2>1. CASE Take /\ call' = [call EXCEPT ![c].step = "ready"]
    <3>1. wakeAt' = wakeAt /\ wakeAt[c] = 0
      BY <1>2, <2>1 DEF Take, Begin, Sleepers
    <3> QED
      BY <1>0, <2>1, <3>1 DEF Sleepers
  <2>2. CASE Wait(c) /\ call' = [call EXCEPT ![c].step = "limited"]
    BY <1>0, <2>2 DEF Wait, Sleepers
  <2> QED
    BY <1>2, <2>1, <2>2 DEF Begin
<1>3. ASSUME NEW c \in Callers, Admit(c) PROVE Sleepers'
  BY <1>0, <1>3 DEF Admit, WakeUp, Sleepers
<1>4. ASSUME NEW c \in Callers, wakeAt' = wakeAt, call[c].step # "limited",
             \A d \in Callers \ {c} : call'[d] = call[d]
      PROVE  Sleepers'
  BY <1>4 DEF Sleepers
<1>5. ASSUME NEW c \in Callers,
             GetAccessToken(c) \/ Issue(c) \/ RefreshFails(c) \/ StoreToken(c) \/ Answer(c)
      PROVE  Sleepers'
  <2>1. wakeAt' = wakeAt /\ call[c].step # "limited"
    BY <1>5 DEF GetAccessToken, Issue, RefreshFails, StoreToken, Answer, bucketVars
  <2>2. \A d \in Callers \ {c} : call'[d] = call[d]
    BY <1>0, <1>5 DEF GetAccessToken, Issue, RefreshFails, StoreToken, Answer, Send
  <2> QED
    BY <1>4, <2>1, <2>2
<1> QED
  BY <1>1, <1>2, <1>3, <1>5 DEF Next, Tick, vars, bucketVars

LEMMA AdmissionInit == Init => Admission
<1> SUFFICES ASSUME Init, from <= now PROVE Admission
  BY DEF Init, InitBucket, Admission
<1>1. now = 0 /\ from \in Nat /\ admitted = 0 /\ tokens = Cap /\ lastTime = 0 /\ Cap \in Nat
  BY CapType, BucketAssumption DEF Init, InitBucket, Times, Cap
<1>2. Allowed >= 0 /\ Allowed \in Int
  BY TypeInit, NoneOwes, AllowanceTypes DEF AllowanceTypeOK
<1> QED
  BY <1>1, <1>2, RefilledIs DEF Admission

LEMMA AdmissionTick ==
  ASSUME TypeOK, TypeOK', Admission, Tick
  PROVE  Admission'
<1>1. /\ now' = now + 1 /\ tokens' = tokens /\ lastTime' = lastTime /\ from' = from
      /\ admitted' = admitted /\ wakeAt' = wakeAt
  BY DEF Tick, bucketVars
<1>a. AllowanceTypeOK /\ AllowanceTypeOK'
  BY AllowanceTypes, PTL
<1>2. Allowed \in Int /\ Allowed' \in Int
  BY <1>a DEF AllowanceTypeOK
<1>3. CASE from <= now
  <2>1. \A c \in Callers : Allowances[c] <= Allowances'[c]
    BY <1>1, <1>3, <1>a, Figures DEF AllowanceTypeOK, Allowance
  <2>2. Allowed <= Allowed'
    BY <1>a, <2>1, TotalMonotonic, BucketAssumption DEF AllowanceTypeOK, Allowed
  <2> QED
    BY <1>1, <1>2, <1>3, <2>2, Figures, RefilledIs, RefilledNext DEF Admission
<1>4. CASE ~ (from <= now) /\ from <= now'
  <2>1. (TypeOK /\ from <= now => Allowed >= 0)'
    BY NoneOwes, PTL
  <2> QED
    BY <1>1, <1>2, <1>4, <2>1, Figures, RefilledIs, RefilledNext DEF Admission
<1>5. CASE ~ (from <= now')
  BY <1>1, <1>5, Figures DEF Admission
<1> QED
  BY <1>3, <1>4, <1>5

(* The allowance of one caller changes.                                    *)
LEMMA AllowanceChanged ==
  ASSUME TypeOK, TypeOK', NEW c \in Callers, UNCHANGED <<now, from>>,
         \A d \in Callers \ {c} : wakeAt'[d] = wakeAt[d]
  PROVE  /\ Allowed' = Allowed - Allowance(c) + Allowance(c)'
         /\ Allowed \in Int /\ Allowed' \in Int /\ Allowance(c) \in Int /\ Allowance(c)' \in Int
<1>1. AllowanceTypeOK /\ AllowanceTypeOK'
  BY AllowanceTypes, PTL
<1>2. \A d \in Callers \ {c} : Allowances'[d] = Allowances[d]
  BY <1>1 DEF AllowanceTypeOK, Allowance
<1>3. DifferAt(Callers, Allowances, c, Allowances')
  BY <1>1, <1>2, BucketAssumption DEF DifferAt, AllowanceTypeOK
<1>4. /\ Allowed' = Allowed - Allowances[c] + Allowances'[c]
      /\ Allowances[c] \in Int /\ Allowances'[c] \in Int
  BY <1>3, TotalChanged DEF Allowed
<1> QED
  BY <1>1, <1>4 DEF AllowanceTypeOK

LEMMA AdmissionSame ==
  ASSUME Admission, UNCHANGED <<now, tokens, lastTime, from, admitted, wakeAt>>
  PROVE  Admission'
  BY RefilledIs, RefilledNext DEF Admission, Allowed, Allowances, Allowance

LEMMA AdmissionTake ==
  ASSUME TypeOK, Admission, Take, UNCHANGED now
  PROVE  Admission'
<1>1. /\ Refilled >= Cost /\ tokens' = Refilled - Cost /\ lastTime' = now /\ from' = from
      /\ admitted' = (IF from <= now THEN admitted + Cost ELSE admitted) /\ wakeAt' = wakeAt
  BY DEF Take, Count
<1>2. Allowed' = Allowed
  BY <1>1 DEF Allowed, Allowances, Allowance
<1>3. Allowed \in Int
  BY AllowanceTypes DEF AllowanceTypeOK
<1> QED
  BY <1>1, <1>2, <1>3, Figures, RefilledIs, RefilledNext DEF Admission

LEMMA AdmissionWait ==
  ASSUME TypeOK, TypeOK', Sleepers, Admission, NEW c \in Callers,
         call[c].step = "idle", Wait(c), UNCHANGED now
  PROVE  Admission'
<1>1. /\ Refilled < Cost /\ tokens' = 0 /\ lastTime' = now /\ from' = from
      /\ admitted' = admitted
  BY DEF Wait
<1>2. wakeAt[c] = 0
  BY DEF Sleepers
<1>3. wakeAt'[c] = now + (Cost - Refilled) /\ \A d \in Callers \ {c} : wakeAt'[d] = wakeAt[d]
  BY DEF Wait, TypeOK, BucketTypeOK
<1>4. /\ Allowed' = Allowed - Allowance(c) + Allowance(c)'
      /\ Allowed \in Int /\ Allowed' \in Int
  BY <1>1, <1>3, AllowanceChanged
<1>5. CASE from <= now
  <2>1. Allowance(c) = (now - from) + Cost
    BY <1>2 DEF Allowance
  <2>2. Refilled \in 0..Cap
    BY Figures, RefilledIs
  <2>3. Allowance(c)' = now + (Cost - Refilled) - from
    BY <1>1, <1>3, <1>5, <2>2, Figures DEF Allowance
  <2>4. Refilled' = 0
    BY <1>1, Figures, RefilledNext
  <2> QED
    BY <1>1, <1>4, <1>5, <2>1, <2>2, <2>3, <2>4, Figures DEF Admission
<1>6. CASE ~ (from <= now)
  BY <1>1, <1>6 DEF Admission
<1> QED
  BY <1>5, <1>6

LEMMA AdmissionWakeUp ==
  ASSUME TypeOK, TypeOK', Admission, NEW c \in Callers, WakeUp(c), UNCHANGED now
  PROVE  Admission'
<1>1. /\ wakeAt[c] # 0 /\ now >= wakeAt[c] /\ tokens' = tokens /\ lastTime' = lastTime
      /\ from' = from /\ admitted' = IF from <= now THEN admitted + Cost ELSE admitted
  BY DEF WakeUp, Count
<1>2. wakeAt'[c] = 0 /\ \A d \in Callers \ {c} : wakeAt'[d] = wakeAt[d]
  BY DEF WakeUp, TypeOK, BucketTypeOK
<1>3. /\ Allowed' = Allowed - Allowance(c) + Allowance(c)'
      /\ Allowed \in Int /\ Allowed' \in Int
  BY <1>1, <1>2, AllowanceChanged
<1>4. CASE from <= now
  <2>1. Allowance(c) <= now - from /\ Allowance(c) \in Int
    BY <1>1, <1>4, Figures DEF Allowance
  <2>2. Allowance(c)' = (now - from) + Cost
    BY <1>1, <1>2 DEF Allowance
  <2>3. Refilled' = Refilled /\ Refilled \in Int
    BY <1>1, Figures, RefilledIs, RefilledNext
  <2> QED
    BY <1>1, <1>3, <1>4, <2>1, <2>2, <2>3, Figures DEF Admission
<1>5. CASE ~ (from <= now)
  BY <1>1, <1>5 DEF Admission
<1> QED
  BY <1>4, <1>5

LEMMA AdmissionNext == TypeOK /\ TypeOK' /\ Sleepers /\ Admission /\ [Next]_vars => Admission'
<1> SUFFICES ASSUME TypeOK, TypeOK', Sleepers, Admission, [Next]_vars PROVE Admission'
  OBVIOUS
<1>1. CASE Tick
  BY <1>1, AdmissionTick
<1>2. ASSUME NEW c \in Callers, Begin(c) PROVE Admission'
  BY <1>2, AdmissionTake, AdmissionWait DEF Begin
<1>3. ASSUME NEW c \in Callers, Admit(c) PROVE Admission'
  BY <1>3, AdmissionWakeUp DEF Admit
<1>4. ASSUME NEW c \in Callers,
             GetAccessToken(c) \/ Issue(c) \/ RefreshFails(c) \/ StoreToken(c) \/ Answer(c)
      PROVE  Admission'
  BY <1>4, AdmissionSame
     DEF GetAccessToken, Issue, RefreshFails, StoreToken, Answer, bucketVars
<1>5. CASE UNCHANGED vars
  BY <1>5, AdmissionSame DEF vars, bucketVars
<1> QED
  BY <1>1, <1>2, <1>3, <1>4, <1>5 DEF Next

(* In every window of time the bucket lets through no more than a burst    *)
(* and the rate, and as much again as each of the goroutines that share it *)
(* would by sleeping all the while (getImpl, which does not reserve the    *)
(* token it waits for), whatever the burst, the rate and their number.     *)
THEOREM AdmissionIsBounded == Spec => []AdmittedWithinRates
<1>1. TypeOK /\ Admission => AdmittedWithinRates
  <2> SUFFICES ASSUME TypeOK, Admission, from <= now
               PROVE  admitted <= Cap + (now - from) + Cardinality(Callers) * (Cost + now - from)
    BY DEF AdmittedWithinRates, Cap
  <2> DEFINE k == Cost + now - from
  <2>1. AllowanceTypeOK
    BY AllowanceTypes
  <2>2. k \in Int /\ \A c \in Callers : Allowances[c] <= k
    BY <2>1, Figures DEF AllowanceTypeOK, Allowance
  <2> HIDE DEF k
  <2>3. Allowed <= Cardinality(Callers) * k
    BY <2>1, <2>2, TotalBound, BucketAssumption DEF Allowed, AllowanceTypeOK
  <2>4. Cardinality(Callers) * k \in Int
    BY <2>2, FS_CardinalityType, BucketAssumption
  <2>5. admitted + Refilled <= Cap + (now - from) + Allowed /\ Refilled >= 0 /\ Refilled \in Int
    BY Figures, RefilledIs DEF Admission
  <2> QED
    BY <2>1, <2>3, <2>4, <2>5, Figures DEF k, AllowanceTypeOK
<1> QED
  BY <1>1, ClientTypeCorrect, SleepersInit, SleepersNext, AdmissionInit, AdmissionNext, PTL DEF Spec

-----------------------------------------------------------------------------
(* The access token. *)

(* An exchange under way began at most Timeout ago; a token just issued,   *)
(* the one stored and one in use are valid for long enough.                *)
ExchangeBounds(c) ==
  /\ Underway(c) => call[c].since <= now /\ now <= call[c].since + Timeout
  /\ call[c].step = "refreshed" =>
       call[c].since + Lifetime <= call[c].validTo /\ call[c].validTo <= now + Lifetime
  /\ call[c].step = "sending" => call[c].since + Timeout < call[c].validTo

TokenBounds ==
  /\ token.expires <= token.validTo + Timeout
  /\ \A c \in Callers : ExchangeBounds(c)

LEMMA BoundsInit == Init => TokenBounds
<1> SUFFICES ASSUME Init PROVE TokenBounds
  OBVIOUS
<1>1. token.expires <= token.validTo + Timeout
  BY ClientAssumption DEF Init
<1>2. ASSUME NEW c \in Callers PROVE ExchangeBounds(c)
  BY <1>2 DEF Init, Idle, ExchangeBounds, Underway
<1> QED
  BY <1>1, <1>2 DEF TokenBounds

LEMMA BoundsNext == TypeOK /\ TokenBounds /\ [Next]_vars => TokenBounds'
<1> SUFFICES ASSUME TypeOK, TokenBounds, [Next]_vars PROVE TokenBounds'
  OBVIOUS
<1>0. /\ now \in Nat /\ Lifetime \in Nat /\ Margin \in Nat /\ Timeout \in Nat
      /\ 2 * Timeout <= Margin /\ Margin < Lifetime
  BY BucketAssumption, ClientAssumption DEF TypeOK, BucketTypeOK, Times
<1>a. token.validTo \in Int /\ token.expires \in Nat
  BY DEF TypeOK
<1>b. ASSUME NEW c \in Callers
      PROVE  call[c] \in [step : Steps, validTo : Int, since : Nat]
  BY DEF TypeOK, Times
<1>1. CASE Tick
  <2>1. now' = now + 1 /\ call' = call /\ token' = token
    BY <1>1 DEF Tick
  <2>2. ASSUME NEW c \in Callers PROVE ExchangeBounds(c)'
    <3>1. Underway(c) => now < call[c].since + Timeout
      BY <1>1 DEF Tick
    <3>2. ExchangeBounds(c)
      BY DEF TokenBounds
    <3> QED
      BY <1>0, <1>b, <2>1, <3>1, <3>2 DEF ExchangeBounds, Underway
  <2> QED
    BY <2>1, <2>2 DEF TokenBounds
<1>2. ASSUME NEW c \in Callers, now' = now, token' = token,
             call' = [call EXCEPT ![c] = call'[c]], ExchangeBounds(c)'
      PROVE  TokenBounds'
  <2>1. ASSUME NEW d \in Callers, d # c PROVE ExchangeBounds(d)'
    <3>1. call'[d] = call[d]
      BY <1>2, <2>1 DEF TypeOK
    <3> QED
      BY <1>2, <3>1 DEF TokenBounds, ExchangeBounds, Underway
  <2> QED
    BY <1>2, <2>1 DEF TokenBounds
<1>3. ASSUME NEW c \in Callers, Begin(c) \/ Admit(c) \/ RefreshFails(c) \/ Answer(c)
      PROVE  TokenBounds'
  <2>1. call' = [call EXCEPT ![c] = call'[c]]
    BY <1>3 DEF TypeOK, Begin, Admit, RefreshFails, Answer
  <2>2. call'[c].step \in {"ready", "limited", "idle", "backoff"}
    BY <1>3, <1>b DEF TypeOK, Begin, Admit, RefreshFails, Answer, Idle
  <2> QED
    BY <1>2, <1>3, <2>1, <2>2 DEF ExchangeBounds, Underway, Begin, Admit, RefreshFails, Answer
<1>4. ASSUME NEW c \in Callers, GetAccessToken(c) PROVE TokenBounds'
  <2>1. call' = [call EXCEPT ![c] = call'[c]] /\ now' = now /\ token' = token
    BY <1>4 DEF TypeOK, GetAccessToken, Send, Idle
  <2>2. CASE Fresh /\ Send(c, token.validTo)
    <3>1. call'[c] = [step |-> "sending", validTo |-> token.validTo, since |-> now]
      BY <2>2 DEF TypeOK, Send
    <3>2. now + Timeout < token.validTo
      BY <1>0, <1>a, <2>2 DEF Fresh, TokenBounds
    <3> QED
      BY <1>0, <1>2, <2>1, <3>1, <3>2 DEF ExchangeBounds, Underway
  <2>3. CASE call'[c] = Idle
    BY <1>2, <2>1, <2>3 DEF ExchangeBounds, Underway, Idle
  <2>4. CASE call'[c] = [step |-> "refreshing", validTo |-> 0, since |-> now]
    BY <1>0, <1>2, <2>1, <2>4 DEF ExchangeBounds, Underway, Idle
  <2> QED
    BY <1>4, <2>2, <2>3, <2>4 DEF GetAccessToken, TypeOK
<1>5. ASSUME NEW c \in Callers, Issue(c) PROVE TokenBounds'
  <2>1. call' = [call EXCEPT ![c] = call'[c]] /\ now' = now /\ token' = token
    BY <1>5 DEF TypeOK, Issue
  <2>2. call'[c].step = "refreshed" /\ call'[c].validTo = now + Lifetime /\ call'[c].since = call[c].since
    BY <1>5, <1>b DEF TypeOK, Issue
  <2>3. call[c].since <= now /\ now <= call[c].since + Timeout
    BY <1>5 DEF TokenBounds, ExchangeBounds, Underway, Issue
  <2> QED
    BY <1>0, <1>2, <1>b, <2>1, <2>2, <2>3 DEF ExchangeBounds, Underway
<1>6. ASSUME NEW c \in Callers, StoreToken(c) PROVE TokenBounds'
  <2>1. /\ call[c].since <= now /\ now <= call[c].since + Timeout
        /\ call[c].since + Lifetime <= call[c].validTo
    BY <1>6 DEF TokenBounds, ExchangeBounds, Underway, StoreToken
  <2>2. /\ now' = now /\ token'.validTo = call[c].validTo /\ token'.expires = now + Lifetime
        /\ call'[c] = [step |-> "sending", validTo |-> call[c].validTo, since |-> now]
    BY <1>6 DEF StoreToken, Send, TypeOK
  <2>3. token'.expires <= token'.validTo + Timeout
    BY <1>0, <1>b, <2>1, <2>2
  <2>4. ExchangeBounds(c)'
    <3>1. now + Timeout < call[c].validTo
      BY <1>0, <1>b, <2>1
    <3> QED
      BY <1>0, <2>2, <3>1 DEF ExchangeBounds, Underway
  <2>5. ASSUME NEW d \in Callers, d # c PROVE ExchangeBounds(d)'
    <3>1. call'[d] = call[d]
      BY <1>6, <2>5 DEF StoreToken, Send, TypeOK
    <3> QED
      BY <2>2, <3>1 DEF TokenBounds, ExchangeBounds, Underway
  <2> QED
    BY <2>3, <2>4, <2>5 DEF TokenBounds
<1>7. CASE UNCHANGED vars
  BY <1>7 DEF vars, TokenBounds, ExchangeBounds, Underway
<1> QED
  BY <1>1, <1>3, <1>4, <1>5, <1>6, <1>7 DEF Next

(* A request never reaches Schwab with an access token that has ceased to  *)
(* be valid, however many goroutines refresh at a time and in whatever     *)
(* order their answers are stored, since the margin of getAccessToken is   *)
(* twice what an exchange can take.                                        *)
THEOREM SentTokensAreValid == Spec => []SentTokenIsValid
<1>1. TypeOK /\ TokenBounds => SentTokenIsValid
  <2> SUFFICES ASSUME TypeOK, TokenBounds, NEW c \in Callers, call[c].step = "sending"
               PROVE  now < call[c].validTo
    BY DEF SentTokenIsValid
  <2>1. now \in Nat /\ Timeout \in Nat /\ call[c].since \in Nat /\ call[c].validTo \in Int
    BY BucketAssumption, ClientAssumption DEF TypeOK, BucketTypeOK, Times
  <2> QED
    BY <2>1 DEF TokenBounds, ExchangeBounds, Underway
<1> QED
  BY <1>1, ClientTypeCorrect, BoundsInit, BoundsNext, PTL DEF Spec
=============================================================================
