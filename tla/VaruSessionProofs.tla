-------------------------- MODULE VaruSessionProofs --------------------------
(* Theorems about VaruSession, for every schedule of the day. *)
EXTENDS VaruSession, TLAPS

-----------------------------------------------------------------------------
(* Types. *)

LEMMA TypeInit == Init => TypeOK
<1> SUFFICES ASSUME Init PROVE TypeOK
  OBVIOUS
<1>1. panicBefore \in Nat /\ Close \in Nat /\ now \in 1..Close
  BY SessionAssumption DEF Init
<1>2. now \in 1..(Close + 1) /\ Never \in 1..Never /\ Never \in (-panicBefore)..Never
  BY <1>1 DEF Never
<1> QED
  BY <1>1, <1>2 DEF Init, TypeOK, Strategies

LEMMA TypeThought == TypeOK /\ OnThought => TypeOK'
<1> SUFFICES ASSUME TypeOK, OnThought PROVE TypeOK'
  OBVIOUS
<1>1. panicBefore \in Nat /\ Close \in Nat /\ Cooldown \in Nat /\ HurriedCooldown \in Nat
  BY SessionAssumption DEF TypeOK
<1>2. enabled' \subseteq Strategies
  BY DEF TypeOK, OnThought, EnabledAfter, DefaultEOD, Strategies
<1>3. panicTime' \in (-panicBefore)..Never
  BY <1>1 DEF TypeOK, OnThought, PanicTimeAfter, ScheduledPanic, MarketClose, Never
<1>4. bypass' \subseteq Checks
  BY DEF TypeOK, OnThought, Checks
<1>5. cooldown' \in {Cooldown, HurriedCooldown}
  BY DEF TypeOK, OnThought
<1>6. order' \in Strategies \cup {"none"}
  BY <1>2 DEF OnThought
<1>7. nextTradeTime' \in Nat
  <2>1. nextTradeTime' = nextTradeTime \/ nextTradeTime' = now + cooldown'
    BY DEF OnThought
  <2>2. now \in Nat /\ cooldown' \in Nat /\ nextTradeTime \in Nat
    BY <1>1, <1>5 DEF TypeOK
  <2> QED
    BY <2>1, <2>2
<1>8. asked' \in 1..Never
  BY <1>1 DEF TypeOK, OnThought, Never
<1>9. /\ stopTransitioned' \in BOOLEAN /\ noHurry' \in BOOLEAN /\ panicking' \in BOOLEAN
  BY DEF TypeOK, OnThought
<1> QED
  BY <1>2, <1>3, <1>4, <1>5, <1>6, <1>7, <1>8, <1>9 DEF TypeOK, OnThought

LEMMA TypeRequest == TypeOK /\ ProcessWebRequest => TypeOK'
<1> SUFFICES ASSUME TypeOK, ProcessWebRequest PROVE TypeOK'
  OBVIOUS
<1>1. panicBefore \in Nat /\ Close \in Nat
  BY SessionAssumption DEF TypeOK
<1>2. now \in (-panicBefore)..Never /\ Asks \in 1..Never /\ Never \in 1..Never
  BY <1>1 DEF TypeOK, Never, Asks
<1>3. ScheduledPanic \in (-panicBefore)..Never
  BY <1>1 DEF TypeOK, ScheduledPanic, MarketClose, Never
<1>4. CASE PauseOrResume
  BY <1>4 DEF TypeOK, PauseOrResume, history
<1>5. CASE Panic
  BY <1>2, <1>5 DEF TypeOK, Panic
<1>6. CASE Destroy
  BY <1>2, <1>6 DEF TypeOK, Destroy
<1>7. CASE Rehabilitate
  BY <1>2, <1>3, <1>7 DEF TypeOK, Rehabilitate, Restored
<1>8. ASSUME NEW named \in FlagSettings, NEW off \in SUBSET named, ApplyFlags(named, off) PROVE TypeOK'
  BY <1>8, SessionAssumption DEF TypeOK, ApplyFlags
<1>9. ASSUME NEW S \in SUBSET Strategies, ChooseStrategies(S) PROVE TypeOK'
  BY <1>9 DEF TypeOK, ChooseStrategies
<1> QED
  BY <1>4, <1>5, <1>6, <1>7, <1>8, <1>9 DEF ProcessWebRequest

LEMMA TypeNext == TypeOK /\ [Next]_vars => TypeOK'
<1> SUFFICES ASSUME TypeOK, [Next]_vars PROVE TypeOK'
  OBVIOUS
<1>1. panicBefore \in Nat /\ Close \in Nat
  BY SessionAssumption DEF TypeOK
<1>2. CASE OnOptionDefEnd
  BY <1>1, <1>2 DEF TypeOK, OnOptionDefEnd, Never
<1>3. CASE Tick
  BY <1>1, <1>3 DEF TypeOK, Tick, history
<1>4. CASE OnThought
  BY <1>4, TypeThought
<1>5. CASE ProcessWebRequest
  BY <1>5, TypeRequest
<1>6. CASE UNCHANGED vars
  BY <1>6 DEF TypeOK, vars, history
<1> QED
  BY <1>2, <1>3, <1>4, <1>5, <1>6 DEF Next

(* The state of a session has its type. *)
THEOREM SessionTypeCorrect == Spec => []TypeOK
BY TypeInit, TypeNext, PTL DEF Spec

-----------------------------------------------------------------------------
(* The inductive invariant.                                                 *)

(* Once trading has been stopped, opening is on only if the user said so.   *)
StopInv ==
  stopTransitioned => /\ now >= StopTrading
                      /\ "open" \in enabled => reopened

(* A request that no thought has answered still stands in PanicTime.        *)
AskedInv == asked # Never => ~panicking /\ panicTime = asked

(* Without a request to panic, PanicTime is not before the scheduled one.   *)
CalmInv ==
  ~panicking /\ ~hurry /\ ~noHurry /\ ~early => panicTime >= Close - panicBefore

IInv == TypeOK /\ StopInv /\ AskedInv /\ CalmInv /\ UncheckedOnlyInPanic

LEMMA InvInit == Init => IInv
<1> SUFFICES ASSUME Init PROVE IInv
  OBVIOUS
<1>1. TypeOK
  BY TypeInit
<1>2. panicTime >= Close - panicBefore
  BY SessionAssumption DEF Init, Never
<1> QED
  BY <1>1, <1>2 DEF Init, IInv, StopInv, AskedInv, CalmInv, UncheckedOnlyInPanic

(* The facts about numbers that the steps need. *)
LEMMA Clock ==
  ASSUME TypeOK
  PROVE  /\ now \in Nat /\ Close \in Nat /\ StopTrading \in Nat /\ panicBefore \in Nat
         /\ panicTime \in Int /\ asked \in Int
         /\ Never \in Int /\ now < Never /\ Never >= Close - panicBefore
<1>1. /\ Close \in Nat /\ StopTrading \in Nat /\ panicBefore \in Nat
      /\ now \in 1..(Close + 1)
  BY SessionAssumption DEF TypeOK
<1>2. panicTime \in Int /\ asked \in Int
  BY <1>1 DEF TypeOK, Never
<1> QED
  BY <1>1, <1>2 DEF Never

LEMMA InvThought == IInv /\ OnThought => IInv'
<1> SUFFICES ASSUME IInv, OnThought PROVE IInv'
  OBVIOUS
<1>0. TypeOK /\ TypeOK'
  BY TypeThought DEF IInv
<1>1. StopInv'
  <2>1. Arming => enabled' = DefaultEOD
    BY DEF OnThought, EnabledAfter
  <2>2. ~Arming => enabled' = IF Stopping THEN {} ELSE enabled
    BY DEF OnThought, EnabledAfter
  <2>3. "open" \in enabled' => ~Stopping /\ "open" \in enabled
    BY <2>1, <2>2 DEF DefaultEOD
  <2>4. stopTransitioned' => stopTransitioned \/ Stopping
    BY DEF OnThought
  <2>5. now' = now /\ reopened' = reopened
    BY DEF OnThought
  <2> QED
    BY <2>3, <2>4, <2>5 DEF IInv, StopInv, Stopping
<1>2. AskedInv'
  <2>1. SUFFICES ASSUME asked' # Never PROVE ~panicking' /\ panicTime' = asked'
    BY DEF AskedInv, Never
  <2>2. asked' = asked /\ ~(now > asked) /\ asked # Never
    BY <2>1 DEF OnThought
  <2>3. ~panicking /\ panicTime = asked
    BY <2>2 DEF IInv, AskedInv
  <2>4. ~Arming
    BY <2>2, <2>3 DEF Arming
  <2> QED
    BY <2>2, <2>3, <2>4 DEF OnThought, PanicTimeAfter, Hurrying
<1>3. CalmInv'
  <2>1. SUFFICES ASSUME ~panicking', ~hurry', ~noHurry', ~early'
        PROVE  panicTime' >= Close - panicBefore'
    BY DEF CalmInv
  <2>2. /\ ~panicking /\ ~Hurrying /\ ~hurry /\ ~early
        /\ panicBefore' = panicBefore /\ ready
    BY <2>1 DEF OnThought
  <2>3. CASE Arming
    <3>1. panicTime' = Close - panicBefore
      BY <2>2, <2>3 DEF OnThought, PanicTimeAfter, Hurrying, ScheduledPanic, MarketClose
    <3> QED
      BY <3>1, <2>2, <1>0, Clock
  <2>4. CASE ~Arming
    <3>1. panicTime' = panicTime /\ ~noHurry
      BY <2>1, <2>4 DEF OnThought, PanicTimeAfter
    <3> QED
      BY <3>1, <2>2 DEF IInv, CalmInv
  <2> QED
    BY <2>3, <2>4
<1>4. UncheckedOnlyInPanic'
  <2>1. SUFFICES ASSUME ~panicking' PROVE bypass' \subseteq unchecked'
    BY DEF UncheckedOnlyInPanic
  <2>2. ~panicking /\ bypass' = bypass /\ unchecked' = unchecked
    BY <2>1 DEF OnThought
  <2> QED
    BY <2>2 DEF IInv, UncheckedOnlyInPanic
<1> QED
  BY <1>0, <1>1, <1>2, <1>3, <1>4 DEF IInv

LEMMA InvRequest == IInv /\ ProcessWebRequest => IInv'
<1> SUFFICES ASSUME IInv, ProcessWebRequest PROVE IInv'
  OBVIOUS
<1>0. TypeOK /\ TypeOK'
  BY TypeRequest DEF IInv
<1> DEFINE Rest == StopInv /\ AskedInv /\ CalmInv /\ UncheckedOnlyInPanic
<1>1. CASE PauseOrResume
  <2>1. Rest'
    BY <1>1 DEF IInv, StopInv, AskedInv, CalmInv, UncheckedOnlyInPanic,
                PauseOrResume, history, Never
  <2> QED
    BY <1>0, <2>1 DEF IInv
<1>2. CASE Panic
  <2>1. Rest'
    BY <1>2 DEF IInv, StopInv, AskedInv, CalmInv, UncheckedOnlyInPanic, Panic, Asks, Never
  <2> QED
    BY <1>0, <2>1 DEF IInv
<1>3. CASE Destroy
  <2>1. Rest'
    BY <1>3 DEF IInv, StopInv, AskedInv, CalmInv, UncheckedOnlyInPanic, Destroy, Asks, Never
  <2> QED
    BY <1>0, <2>1 DEF IInv
<1>4. CASE Rehabilitate
  <2>1. StopInv'
    BY <1>4 DEF IInv, StopInv, Rehabilitate
  <2>2. AskedInv' /\ UncheckedOnlyInPanic'
    BY <1>4 DEF AskedInv, UncheckedOnlyInPanic, Rehabilitate, Restored, Never
  <2>3. CalmInv'
    <3>1. SUFFICES ASSUME ~early' PROVE panicTime' >= Close - panicBefore'
      BY DEF CalmInv
    <3>2. panicTime' = Close - panicBefore /\ panicBefore' = panicBefore
      BY <1>4, <3>1 DEF Rehabilitate, ScheduledPanic, MarketClose
    <3> QED
      BY <3>2, <1>0, Clock
  <2> QED
    BY <1>0, <2>1, <2>2, <2>3 DEF IInv
<1>5. ASSUME NEW named \in FlagSettings, NEW off \in SUBSET named, ApplyFlags(named, off) PROVE IInv'
  <2>1. Rest'
    BY <1>5 DEF IInv, StopInv, AskedInv, CalmInv, UncheckedOnlyInPanic, ApplyFlags, Never
  <2> QED
    BY <1>0, <2>1 DEF IInv
<1>6. ASSUME NEW S \in SUBSET Strategies, ChooseStrategies(S) PROVE IInv'
  <2>1. Rest'
    BY <1>6 DEF IInv, StopInv, AskedInv, CalmInv, UncheckedOnlyInPanic,
                ChooseStrategies, Never
  <2> QED
    BY <1>0, <2>1 DEF IInv
<1> QED
  BY <1>1, <1>2, <1>3, <1>4, <1>5, <1>6 DEF ProcessWebRequest

LEMMA InvNext == IInv /\ [Next]_vars => IInv'
<1> SUFFICES ASSUME IInv, [Next]_vars PROVE IInv'
  OBVIOUS
<1>0. TypeOK /\ TypeOK'
  BY TypeNext DEF IInv
<1>1. CASE OnOptionDefEnd
  <2>1. StopInv' /\ UncheckedOnlyInPanic'
    BY <1>1 DEF IInv, StopInv, UncheckedOnlyInPanic, OnOptionDefEnd
  <2>2. AskedInv'
    BY <1>1 DEF IInv, AskedInv, OnOptionDefEnd, Never
  <2>3. CalmInv'
    <3>1. CASE panicBefore > 0
      <4>1. panicTime' = Close - panicBefore /\ panicBefore' = panicBefore
        BY <1>1, <3>1 DEF OnOptionDefEnd
      <4> QED
        BY <4>1, <1>0, Clock DEF CalmInv
    <3>2. CASE ~(panicBefore > 0)
      BY <1>1, <3>2 DEF IInv, CalmInv, OnOptionDefEnd
    <3> QED
      BY <3>1, <3>2
  <2> QED
    BY <1>0, <2>1, <2>2, <2>3 DEF IInv
<1>2. CASE Tick
  <2>1. StopInv'
    BY <1>2, <1>0, Clock DEF IInv, StopInv, Tick, history
  <2>2. AskedInv' /\ CalmInv' /\ UncheckedOnlyInPanic'
    BY <1>2 DEF IInv, AskedInv, CalmInv, UncheckedOnlyInPanic, Tick, history, Never
  <2> QED
    BY <1>0, <2>1, <2>2 DEF IInv
<1>3. CASE OnThought
  BY <1>3, InvThought
<1>4. CASE ProcessWebRequest
  BY <1>4, InvRequest
<1>5. CASE UNCHANGED vars
  <2>1. (StopInv /\ AskedInv /\ CalmInv /\ UncheckedOnlyInPanic)'
    BY <1>5 DEF IInv, StopInv, AskedInv, CalmInv, UncheckedOnlyInPanic, vars, history, Never
  <2> QED
    BY <1>0, <2>1 DEF IInv
<1> QED
  BY <1>1, <1>2, <1>3, <1>4, <1>5 DEF Next

LEMMA InvHolds == Spec => []IInv
BY InvInit, InvNext, PTL DEF Spec

-----------------------------------------------------------------------------
(* Theorems. *)

(* Outside of a panic no check is off that the user did not turn off since  *)
(* the last rehabilitation.                                                 *)
THEOREM ChecksComeBack == Spec => []UncheckedOnlyInPanic
<1>1. IInv => UncheckedOnlyInPanic
  BY DEF IInv
<1> QED
  BY <1>1, InvHolds, PTL

(* Only a thought makes "order" anything but "none".                        *)
LEMMA OrdersComeFromThoughts ==
  ASSUME Next, order' # "none"
  PROVE  OnThought
BY DEF Next, OnOptionDefEnd, Tick, ProcessWebRequest, PauseOrResume, Panic, Destroy,
       Rehabilitate, ApplyFlags, ChooseStrategies

(* After StopTrading no order opens a position without the user's word.     *)
THEOREM OpeningNeedsTheUser == Spec => OpeningIsAuthorised
<1>1. IInv /\ IInv' /\ [Next]_vars =>
        [order' = "open" => now < StopTrading \/ reopened]_vars
  <2> SUFFICES ASSUME IInv, IInv', Next, order' = "open", ~(now < StopTrading)
               PROVE  reopened
    OBVIOUS
  <2>1. OnThought
    BY OrdersComeFromThoughts
  <2>2. "open" \in enabled' /\ reopened' = reopened
    BY <2>1 DEF OnThought
  <2>3. now >= StopTrading
    BY Clock DEF IInv
  <2>4. stopTransitioned'
    BY <2>1, <2>3 DEF OnThought, Stopping
  <2> QED
    BY <2>2, <2>4 DEF IInv, StopInv
<1> QED
  BY <1>1, InvHolds, PTL DEF Spec, OpeningIsAuthorised

(* A request to liquidate is answered by the first thought after it.        *)
THEOREM PanicsAreHeard == Spec => PanicIsHeard
<1>1. IInv /\ [Next]_vars =>
        [OnThought /\ asked < now => DefaultEOD \subseteq enabled']_vars
  <2> SUFFICES ASSUME IInv, OnThought, asked < now
               PROVE  DefaultEOD \subseteq enabled'
    OBVIOUS
  <2>1. asked # Never
    BY Clock DEF IInv
  <2>2. ~panicking /\ panicTime = asked
    BY <2>1 DEF IInv, AskedInv
  <2>3. Arming
    BY <2>2, Clock DEF IInv, Arming
  <2> QED
    BY <2>3 DEF OnThought, EnabledAfter
<1> QED
  BY <1>1, InvHolds, PTL DEF Spec, PanicIsHeard

(* The trader hurries only on request or on schedule.                       *)
THEOREM HurryHasACause == Spec => HurryOnlyWhenDue
<1>1. IInv /\ [Next]_vars =>
        [panicking' /\ ~panicking => hurry \/ now > Close - panicBefore \/ early]_vars
  <2> SUFFICES ASSUME IInv, Next, panicking', ~panicking, ~hurry, ~early
               PROVE  now > Close - panicBefore
    OBVIOUS
  <2>1. OnThought
    BY DEF Next, OnOptionDefEnd, Tick, ProcessWebRequest, PauseOrResume, Panic, Destroy,
           Rehabilitate, ApplyFlags, ChooseStrategies
  <2>2. now > panicTime /\ ~noHurry
    BY <2>1 DEF OnThought, Hurrying, Arming
  <2>3. panicTime >= Close - panicBefore
    BY <2>2 DEF IInv, CalmInv
  <2> QED
    BY <2>2, <2>3, Clock DEF IInv
<1> QED
  BY <1>1, InvHolds, PTL DEF Spec, HurryOnlyWhenDue
=============================================================================
