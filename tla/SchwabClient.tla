---------------------------- MODULE SchwabClient ----------------------------
(***************************************************************************)
(* Order requests of src/broker/schwab: goroutines that pass the client's  *)
(* token bucket, take the access token that all of them share (token.go),  *)
(* refresh it when it is about to expire, and send the request, again and  *)
(* again while the answer says so (Request in client.go).                  *)
(*                                                                         *)
(* A network exchange lasts at most Timeout: the limits of FastHTTPClient  *)
(* in netty/http.go (5s to dial, 5s for TLS, 5s for the answer) against    *)
(* the 60s of Margin.  The token file is written and never read again      *)
(* while the process runs, and is left out, as are the bodies of requests. *)
(***************************************************************************)
EXTENDS TokenBucket

CONSTANTS
  Lifetime,      (* ticks an access token is valid for                     *)
  RefreshLife,   (* ticks a refresh token is said to be valid for          *)
  Margin,        (* how early an access token is refreshed                 *)
  Timeout        (* ticks a network exchange lasts at most                 *)

ASSUME ClientAssumption ==
  /\ Lifetime \in Nat /\ RefreshLife \in Nat /\ Margin \in Nat /\ Timeout \in Nat
  /\ 2 * Timeout <= Margin /\ Margin < Lifetime

(* An access token is known by the instant it ceases to be valid, which    *)
(* only Schwab knows; expires is when the program believes it does.        *)
VARIABLES
  token,     (* tokenSave                                                  *)
  call       (* the order request of each goroutine: its step, the token   *)
             (* in use and when the exchange under way began               *)

vars == <<now, bucketVars, call, token>>

Steps == {"idle", "limited", "ready", "refreshing", "refreshed", "sending", "backoff"}

Idle == [step |-> "idle", validTo |-> 0, since |-> 0]

-----------------------------------------------------------------------------
(* CreateOrder, ReplaceOrder, CancelOrder: the bucket comes first. *)

Begin(c) ==
  /\ call[c].step = "idle"
  /\ \/ Take    /\ call' = [call EXCEPT ![c].step = "ready"]
     \/ Wait(c) /\ call' = [call EXCEPT ![c].step = "limited"]
  /\ UNCHANGED <<now, token>>

Admit(c) ==
  /\ call[c].step = "limited"
  /\ WakeUp(c)
  /\ call' = [call EXCEPT ![c].step = "ready"]
  /\ UNCHANGED <<now, token>>

(* Mutant: a token is good until it expires. *)
FreshUntilExpiry == now < token.expires

(* getAccessToken: the shared token while it is good for a Margin more; an *)
(* error when the refresh token is known to have expired; or a refresh,    *)
(* out of tokenMu, of the token as it was read.                            *)
Fresh == now + Margin < token.expires

Send(c, validTo) ==
  call' = [call EXCEPT ![c] = [step |-> "sending", validTo |-> validTo, since |-> now]]

GetAccessToken(c) ==
  /\ call[c].step \in {"ready", "backoff"}
  /\ \/ Fresh /\ Send(c, token.validTo)
     \/ ~ Fresh /\ now >= token.refreshExpires /\ call' = [call EXCEPT ![c] = Idle]
     \/ /\ ~ Fresh /\ now < token.refreshExpires
        /\ call' = [call EXCEPT ![c] = [step |-> "refreshing", validTo |-> 0, since |-> now]]
  /\ UNCHANGED <<now, bucketVars, token>>

(* Schwab issues a token for as long as Lifetime, or does not.             *)
Issue(c) ==
  /\ call[c].step = "refreshing"
  /\ call' = [call EXCEPT ![c] = [step |-> "refreshed", validTo |-> now + Lifetime,
                                  since |-> call[c].since]]
  /\ UNCHANGED <<now, bucketVars, token>>

RefreshFails(c) ==
  /\ call[c].step \in {"refreshing", "refreshed"}
  /\ call' = [call EXCEPT ![c] = Idle]
  /\ UNCHANGED <<now, bucketVars, token>>

(* postToken: lives are counted from the arrival of the answer.  Of two    *)
(* refreshes at a time the last to arrive stays.                           *)
StoreToken(c) ==
  /\ call[c].step = "refreshed"
  /\ token' = [validTo |-> call[c].validTo, expires |-> now + Lifetime,
               refreshExpires |-> now + RefreshLife]
  /\ Send(c, call[c].validTo)
  /\ UNCHANGED <<now, bucketVars>>

(* The request arrives: an answer that ends the call, or one to retry      *)
(* after a pause (429, 5xx, a broken connection, or no answer in time).    *)
Answer(c) ==
  /\ call[c].step = "sending"
  /\ \E step \in {"idle", "backoff"} : call' = [call EXCEPT ![c] = [Idle EXCEPT !.step = step]]
  /\ UNCHANGED <<now, bucketVars, token>>

Underway(c) == call[c].step \in {"refreshing", "refreshed", "sending"}

Tick ==
  /\ now < Horizon
  /\ \A c \in Callers : Underway(c) => now < call[c].since + Timeout
  /\ now' = now + 1
  /\ UNCHANGED <<bucketVars, call, token>>

(* The token as it was stored by an earlier run: issued up to Timeout      *)
(* before its answer was read.                                             *)
Init ==
  /\ InitBucket
  /\ call = [c \in Callers |-> Idle]
  /\ \E expires \in 0..Lifetime, late \in 0..Timeout :
       token = [validTo |-> expires - late, expires |-> expires, refreshExpires |-> RefreshLife]

Next ==
  \/ Tick
  \/ \E c \in Callers : \/ Begin(c) \/ Admit(c) \/ GetAccessToken(c)
                        \/ Issue(c) \/ RefreshFails(c) \/ StoreToken(c) \/ Answer(c)

Spec == Init /\ [][Next]_vars

-----------------------------------------------------------------------------
(* Properties. *)

TypeOK ==
  /\ BucketTypeOK
  /\ token \in [validTo : Int, expires : Nat, refreshExpires : Nat]
  /\ call \in [Callers -> [step : Steps, validTo : Int, since : Times]]

(* Whenever a request may reach Schwab, on its first try or on a later     *)
(* one, the access token it carries is still valid, although lives are     *)
(* counted late and several goroutines refresh at a time (the margin of    *)
(* getAccessToken).                                                        *)
SentTokenIsValid ==
  \A c \in Callers : call[c].step = "sending" => now < call[c].validTo
=============================================================================
