---------------------------- MODULE TokenBucket ----------------------------
(***************************************************************************)
(* The rate limiter of src/netty/tokenbucket.go under a clock that passes  *)
(* while its callers sleep.  Time advances in ticks; a token takes Cost    *)
(* ticks to accrue and is counted as Cost, so that fractions of a token    *)
(* are whole numbers.  Every operation of a bucket is atomic (tb.mu).      *)
(*                                                                         *)
(* refill is lazy: a Try that fails changes nothing that a later call can  *)
(* tell, and is left out.                                                  *)
(***************************************************************************)
EXTENDS Integers, FiniteSets

CONSTANTS
  Callers,   (* goroutines that use the bucket                             *)
  Cost,      (* ticks a token takes to accrue: 1/rate                      *)
  Burst,     (* tokens the bucket holds at most                            *)
  Horizon    (* bound: the last tick                                       *)

ASSUME BucketAssumption ==
  /\ IsFiniteSet(Callers) /\ Cost \in Nat \ {0} /\ Burst \in Nat \ {0} /\ Horizon \in Nat

Times == 0..Horizon

VARIABLES
  now,
  tokens,    (* tokens left at lastTime                                    *)
  lastTime,  (* the last refill                                            *)
  wakeAt,    (* when a caller asleep in Get wakes up, 0 when it is not     *)
  (* a window of time that begins anywhere (auxiliary)                     *)
  from,      (* its beginning                                              *)
  taken,     (* cost of the tokens taken from the bucket since then        *)
  admitted   (* cost of the operations let through since then              *)

bucketVars == <<tokens, lastTime, wakeAt, from, taken, admitted>>

Lesser(a, b) == IF a < b THEN a ELSE b

(* Mutant: the bucket holds any number of tokens. *)
RefilledUncapped == tokens + (now - lastTime)

Refilled == Lesser(Burst * Cost, tokens + (now - lastTime))

Count(sum) == IF from <= now THEN sum + Cost ELSE sum

(* Mutant: a part of a token is enough. *)
TakePart ==
  /\ Refilled > 0
  /\ tokens' = Refilled - Cost
  /\ lastTime' = now
  /\ taken' = Count(taken)
  /\ admitted' = Count(admitted)
  /\ UNCHANGED <<wakeAt, from>>

(* Try, and Get when a token is there.                                     *)
Take ==
  /\ Refilled >= Cost
  /\ tokens' = Refilled - Cost
  /\ lastTime' = now
  /\ taken' = Count(taken)
  /\ admitted' = Count(admitted)
  /\ UNCHANGED <<wakeAt, from>>

(* Mutant: the caller sleeps for what there is of a token. *)
WaitForPart(c) ==
  /\ Refilled < Cost
  /\ tokens' = 0
  /\ lastTime' = now
  /\ wakeAt' = [wakeAt EXCEPT ![c] = now + Refilled]
  /\ UNCHANGED <<from, taken, admitted>>

(* Get without a token: what is left of one is forfeited, and the caller   *)
(* sleeps for as long as the rest of it takes to accrue.                   *)
Wait(c) ==
  /\ Refilled < Cost
  /\ tokens' = 0
  /\ lastTime' = now
  /\ wakeAt' = [wakeAt EXCEPT ![c] = now + (Cost - Refilled)]
  /\ UNCHANGED <<from, taken, admitted>>

(* Get returns; the token that accrued meanwhile stays in the bucket.      *)
WakeUp(c) ==
  /\ wakeAt[c] # 0 /\ now >= wakeAt[c]
  /\ wakeAt' = [wakeAt EXCEPT ![c] = 0]
  /\ admitted' = Count(admitted)
  /\ UNCHANGED <<tokens, lastTime, from, taken>>

InitBucket ==
  /\ now = 0 /\ tokens = Burst * Cost /\ lastTime = 0
  /\ wakeAt = [c \in Callers |-> 0]
  /\ from \in Times /\ taken = 0 /\ admitted = 0

-----------------------------------------------------------------------------
(* Properties. *)

BucketTypeOK ==
  /\ now \in Times
  /\ tokens \in 0..Burst * Cost /\ lastTime \in 0..now
  /\ wakeAt \in [Callers -> 0..now + Cost]
  /\ from \in Times /\ taken \in Nat /\ admitted \in Nat

(* The operations that found a token keep to the rate in every window: a   *)
(* burst, and what accrues while it lasts.                                 *)
TakenWithinRate ==
  from <= now => taken <= Burst * Cost + (now - from)

(* Operations that slept are not paid for by a token, since Get does not   *)
(* reserve the one it waits for: what the bucket lets through in a window  *)
(* grows with the goroutines that share it, up to a rate of its own for    *)
(* each, and never more than that.                                         *)
AdmittedWithinRates ==
  from <= now =>
    admitted <= Burst * Cost + (now - from) + Cardinality(Callers) * (Cost + now - from)
=============================================================================
