----------------------------- MODULE VaruSession -----------------------------
(***************************************************************************)
(* One trading day of src/cmd/varu: the thought the main loop gives the    *)
(* market whenever its channels are empty (trader.go), and the requests of *)
(* the dashboard that the same loop serves between thoughts (web.go):      *)
(* pause, panic, destroy, rehabilitate, the flags and the strategies.      *)
(*                                                                         *)
(* Time is a small number; the strategies are two kinds, those that open   *)
(* positions and those that liquidate them.  Whether a thought that may    *)
(* trade finds an order worth sending, and a slot free for it, is up to    *)
(* the market and to VaruOrders: nondeterministic here.  Spread, Eval and  *)
(* Patience, which price and age orders, are not modelled.                 *)
(***************************************************************************)
EXTENDS Integers

CONSTANTS
  StartOfDay, StopTrading,   (* Config, as times of this day               *)
  Close,                     (* cboe.GetCloseTime                          *)
  PanicFlags,                (* values of -panic; 0: no scheduled panic    *)
  Cooldown, HurriedCooldown, (* Config.Cooldown, and while panicking       *)
  FlagSettings               (* the sets of checks that "flags" requests name *)

Strategies == {"open", "liquidate"}
DefaultEOD == {"liquidate"}                       (* kStrategyDefaultEOD  *)
Checks     == {"closing", "payoff", "score", "risk"}  (* AllowClosing, Bypass... *)

ASSUME SessionAssumption ==
  /\ StartOfDay \in Nat /\ StopTrading \in Nat /\ Close \in Nat
  /\ PanicFlags \subseteq Nat /\ Cooldown \in Nat /\ HurriedCooldown \in Nat
  /\ FlagSettings \subseteq SUBSET Checks

Never == Close + 2                                (* clocky.MaxTime       *)

VARIABLES
  now,
  panicBefore,        (* Config.Panic                                      *)
  ready,              (* onOptionDefEnd has run: MarketClose is known      *)
  enabled,            (* Config.Strategies                                 *)
  bypass,             (* the checks Config turns off                       *)
  cooldown,           (* Config.Cooldown                                   *)
  noHurry,            (* Config.NoHurry                                    *)
  paused, panicking, panicTime, stopTransitioned,
  nextTradeTime,
  order,              (* what the thought just made sent, or "none"        *)
  (* history *)
  reopened,           (* the user enabled opening after StopTrading        *)
  unchecked,          (* the checks the user has turned off                *)
  hurry,              (* "panic" was requested and not taken back          *)
  asked,              (* when liquidation was requested, until a thought   *)
  early               (* "rehabilitate" came before MarketClose was known  *)

history == <<reopened, unchecked, hurry, asked, early>>
vars == <<now, panicBefore, ready, enabled, bypass, cooldown, noHurry, paused, panicking,
          panicTime, stopTransitioned, nextTradeTime, order, history>>

MarketClose == IF ready THEN Close ELSE 0

(* Mutant: the sign of the duration. *)
ScheduledPanicAfter == MarketClose + panicBefore

ScheduledPanic == MarketClose - panicBefore

-----------------------------------------------------------------------------
(* The day begins and goes by. *)

OnOptionDefEnd ==
  /\ ~ready
  /\ ready' = TRUE
  /\ panicTime' = IF panicBefore > 0 THEN Close - panicBefore ELSE panicTime
  /\ asked' = IF panicBefore > 0 THEN Never ELSE asked
  /\ order' = "none"
  /\ UNCHANGED <<now, panicBefore, enabled, bypass, cooldown, noHurry, paused, panicking,
                 stopTransitioned, nextTradeTime, reopened, unchecked, hurry, early>>

Tick ==
  /\ now <= Close
  /\ now' = now + 1
  /\ order' = "none"
  /\ UNCHANGED <<panicBefore, ready, enabled, bypass, cooldown, noHurry, paused, panicking,
                 panicTime, stopTransitioned, nextTradeTime, history>>

-----------------------------------------------------------------------------
(* onThought. *)

(* Mutant: trading goes on at StopTrading itself. *)
StoppingLate == ~stopTransitioned /\ now > StopTrading

Stopping == ~stopTransitioned /\ now >= StopTrading
Arming   == ~panicking /\ now > panicTime

(* Mutant: trading is stopped after liquidation has begun. *)
EnabledStoppedLast ==
  IF Stopping THEN {} ELSE IF Arming THEN DefaultEOD ELSE enabled

EnabledAfter ==
  IF Arming THEN DefaultEOD ELSE IF Stopping THEN {} ELSE enabled

(* Mutant: the patient liquidation leaves PanicTime where it was. *)
PanicTimeUnmoved == panicTime

PanicTimeAfter == IF Arming /\ noHurry THEN ScheduledPanic ELSE panicTime

Hurrying == Arming /\ ~noHurry

MayTrade == now >= nextTradeTime /\ ~paused

OnThought ==
  /\ ready /\ StartOfDay <= now /\ now <= Close
  /\ stopTransitioned' = (stopTransitioned \/ Stopping)
  /\ enabled' = EnabledAfter
  /\ panicTime' = PanicTimeAfter
  /\ noHurry' = (noHurry /\ ~Arming)
  /\ panicking' = (panicking \/ Hurrying)
  /\ bypass' = IF Hurrying THEN bypass \cup {"closing", "payoff", "score"} ELSE bypass
  /\ cooldown' = IF Hurrying THEN HurriedCooldown ELSE cooldown
  /\ order' \in {"none"} \cup (IF MayTrade THEN enabled' ELSE {})
  /\ nextTradeTime' = IF order' = "none" THEN nextTradeTime ELSE now + cooldown'
  /\ asked' = IF now > asked THEN Never ELSE asked
  /\ UNCHANGED <<now, panicBefore, ready, paused, reopened, unchecked, hurry, early>>

-----------------------------------------------------------------------------
(* processWebRequest. *)

Asks == IF panicking THEN asked ELSE now

PauseOrResume ==
  /\ paused' = ~paused
  /\ order' = "none"
  /\ UNCHANGED <<now, panicBefore, ready, enabled, bypass, cooldown, noHurry, panicking,
                 panicTime, stopTransitioned, nextTradeTime, history>>

Panic ==
  /\ panicTime' = now
  /\ hurry' = TRUE /\ asked' = Asks
  /\ order' = "none"
  /\ UNCHANGED <<now, panicBefore, ready, enabled, bypass, cooldown, noHurry, paused,
                 panicking, stopTransitioned, nextTradeTime, reopened, unchecked, early>>

Destroy ==
  /\ noHurry' = TRUE
  /\ panicTime' = now
  /\ asked' = Asks
  /\ order' = "none"
  /\ UNCHANGED <<now, panicBefore, ready, enabled, bypass, cooldown, paused, panicking,
                 stopTransitioned, nextTradeTime, reopened, unchecked, hurry, early>>

(* Mutant: the score is still bypassed. *)
RestoredButScore == bypass \cap {"score"}

Restored == {}

Rehabilitate ==
  /\ panicking' = FALSE /\ noHurry' = FALSE
  /\ bypass' = Restored
  /\ panicTime' = ScheduledPanic
  /\ cooldown' = Cooldown
  /\ enabled' = {}
  /\ hurry' = FALSE /\ unchecked' = {} /\ asked' = Never
  /\ early' = (early \/ ~ready)
  /\ order' = "none"
  /\ UNCHANGED <<now, panicBefore, ready, paused, stopTransitioned, nextTradeTime,
                 reopened>>

(* Of the checks a request names those in off are turned off and the       *)
(* others on; a check it does not name stays as it is.                      *)
ApplyFlags(named, off) ==
  /\ bypass' = (bypass \ named) \cup off
  /\ unchecked' = (unchecked \ named) \cup off
  /\ order' = "none"
  /\ UNCHANGED <<now, panicBefore, ready, enabled, cooldown, noHurry, paused, panicking,
                 panicTime, stopTransitioned, nextTradeTime, reopened, hurry, asked, early>>

ChooseStrategies(S) ==
  /\ enabled' = S
  /\ reopened' = (reopened \/ (now >= StopTrading /\ "open" \in S))
  /\ order' = "none"
  /\ UNCHANGED <<now, panicBefore, ready, bypass, cooldown, noHurry, paused, panicking,
                 panicTime, stopTransitioned, nextTradeTime, unchecked, hurry, asked, early>>

ProcessWebRequest ==
  \/ PauseOrResume \/ Panic \/ Destroy \/ Rehabilitate
  \/ \E named \in FlagSettings : \E off \in SUBSET named : ApplyFlags(named, off)
  \/ \E S \in SUBSET Strategies : ChooseStrategies(S)

Init ==
  /\ now \in 1..Close /\ panicBefore \in PanicFlags /\ ready = FALSE
  /\ enabled = {"open"} /\ bypass = {} /\ cooldown = Cooldown
  /\ noHurry = FALSE /\ paused = FALSE
  /\ panicking = FALSE /\ panicTime = Never /\ stopTransitioned = FALSE
  /\ nextTradeTime = 0 /\ order = "none"
  /\ reopened = FALSE /\ unchecked = {} /\ hurry = FALSE /\ asked = Never
  /\ early = FALSE

Next == OnOptionDefEnd \/ Tick \/ OnThought \/ ProcessWebRequest

Spec == Init /\ [][Next]_vars

-----------------------------------------------------------------------------
(* Properties. *)

TypeOK ==
  /\ now \in 1..(Close + 1) /\ panicBefore \in PanicFlags /\ ready \in BOOLEAN
  /\ enabled \subseteq Strategies /\ bypass \subseteq Checks
  /\ cooldown \in {Cooldown, HurriedCooldown}
  /\ noHurry \in BOOLEAN /\ paused \in BOOLEAN /\ panicking \in BOOLEAN
  /\ panicTime \in (-panicBefore)..Never /\ stopTransitioned \in BOOLEAN
  /\ nextTradeTime \in Nat /\ order \in Strategies \cup {"none"}
  /\ reopened \in BOOLEAN /\ unchecked \subseteq Checks /\ hurry \in BOOLEAN
  /\ asked \in 1..Never /\ early \in BOOLEAN

(* From StopTrading on, whatever panics and rehabilitations come in         *)
(* between, no order opens a position unless the user has enabled such a    *)
(* strategy since (trader.go:97-103, before trade).                         *)
OpeningIsAuthorised ==
  [][order' = "open" => now < StopTrading \/ reopened]_vars

(* The first thought after "panic" or "destroy" begins to liquidate, and    *)
(* still does when StopTrading falls due in the same thought.  (A request   *)
(* is taken back by "rehabilitate" and, if a panic is scheduled, forgotten  *)
(* by onOptionDefEnd; while panicking it changes nothing.)                  *)
PanicIsHeard ==
  [][OnThought /\ asked < now => DefaultEOD \subseteq enabled']_vars

(* The checks that panicking bypasses are back once it is over: outside of  *)
(* it none is off that the user has not turned off since (web.go:341-353).  *)
UncheckedOnlyInPanic == ~panicking => bypass \subseteq unchecked

(* "destroy" liquidates without hurry: the trader turns to crossing the     *)
(* spread, bypassing its checks, only if "panic" was requested and not      *)
(* taken back or the scheduled panic is due - unless "rehabilitate" came    *)
(* before MarketClose was known, which leaves PanicTime in 1970.            *)
HurryOnlyWhenDue ==
  [][panicking' /\ ~panicking => \/ hurry \/ now > Close - panicBefore
                                 \/ early]_vars
=============================================================================
