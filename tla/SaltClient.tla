----------------------------- MODULE SaltClient -----------------------------
(***************************************************************************)
(* The client of Salt API in the storage operator                          *)
(* (storage-operator/pkg/salt/client.go and token.go): every request goes  *)
(* out with a token, which the client asks for when it has none or when it *)
(* believes it has expired, and once more when the server refuses it.  The *)
(* server forgets its tokens when it restarts, any exchange with it may    *)
(* fail on either way, and its clock is not the client's.                  *)
(***************************************************************************)
EXTENDS Integers

CONSTANTS
  Ttl,        \* lifetime the server gives to a token
  MaxTime,    \* bound of the clock
  MaxFaults,  \* how many exchanges fail and how many times the server restarts
  MaxSkew     \* how far the clocks of client and server may be apart

ASSUME ClockAssumption == Ttl \in Nat /\ MaxTime \in Nat /\ MaxSkew \in Nat
ASSUME FaultAssumption == MaxFaults \in Nat

VARIABLES
  clock,    \* time of the server
  skew,     \* the client's clock minus the server's
  epoch,    \* number of restarts of the server: older tokens are unknown
  token,    \* token of the client
  step,     \* where the call in progress is
  ran,      \* how many times the server ran the command of this call
  shaken,   \* whether this call saw the server restart or the time pass
  faults    \* number of faults so far

vars == <<clock, skew, epoch, token, step, ran, shaken, faults>>
server == <<clock, skew, epoch>>

Token   == [epoch : 0..MaxFaults, expire : 0..(MaxTime + Ttl)]
NoToken == [epoch |-> 0, expire |-> -1]

Outcomes == {"answered", "refused", "failed", "panic"}
Steps == {"idle", "login", "send", "relogin", "resend"} \cup Outcomes

TypeOK ==
  /\ clock \in 0..MaxTime /\ skew \in (-MaxSkew)..MaxSkew /\ epoch \in 0..MaxFaults
  /\ token \in Token \cup {NoToken}
  /\ step \in Steps
  /\ ran \in Nat /\ shaken \in BOOLEAN /\ faults \in 0..MaxFaults

Fault == faults < MaxFaults /\ faults' = faults + 1

\* time.Now().UTC().After(self.expire), on the client's clock.
IsExpired(t) == clock + skew > t.expire

\* The server's own view of a token.
Accepts(t) == t # NoToken /\ t.epoch = epoch /\ clock <= t.expire

-----------------------------------------------------------------------------
(* authenticatedRequest. *)

Call ==
  /\ step = "idle"
  /\ step' = IF token = NoToken \/ IsExpired(token) THEN "login" ELSE "send"
  /\ ran' = 0 /\ shaken' = FALSE
  /\ UNCHANGED <<server, token, faults>>

\* Mutant: the lifetime is counted backwards.
NewTokenPast == token' = [epoch |-> epoch, expire |-> clock - Ttl]
NewToken == token' = [epoch |-> epoch, expire |-> clock + Ttl]

\* authenticate; an error of it ends the request.
Authenticate(from, to) ==
  /\ step = from
  /\ \/ NewToken /\ step' = to /\ UNCHANGED faults
     \/ Fault /\ step' = "failed" /\ UNCHANGED token
  /\ UNCHANGED <<server, ran, shaken>>

Login   == Authenticate("login", "send")
Relogin == Authenticate("relogin", "resend")

\* Mutant: a request that got no response is sent again.
LostRetries(at) == IF at = "send" THEN "resend" ELSE "panic"
\* doRequest returned an error: the first one is returned, but the body of
\* the response that is not there is closed after the second.
Lost(at) == IF at = "send" THEN "failed" ELSE "panic"

\* Mutant: the refusal of a token is an error like another.
RefusedAtOnce(at) == step' = "refused" /\ UNCHANGED token
\* 401: authenticate again and retry, once.
Refused(at) ==
  \/ at = "send" /\ token' = NoToken /\ step' = "relogin"
  \/ at = "resend" /\ step' = "refused" /\ UNCHANGED token

DoRequest(at) ==
  /\ step = at
  /\ \/ Accepts(token) /\ ran' = ran + 1 /\ step' = "answered"
        /\ UNCHANGED <<token, faults>>
     \/ ~Accepts(token) /\ Refused(at) /\ UNCHANGED <<ran, faults>>
     \* The request is lost, or the response to it is.
     \/ Fault /\ step' = Lost(at) /\ UNCHANGED <<token, ran>>
     \/ /\ Accepts(token) /\ Fault /\ ran' = ran + 1
        /\ step' = Lost(at) /\ UNCHANGED token
     \* An answer with another code than 200, before or after the command.
     \/ /\ Accepts(token) /\ Fault /\ step' = "failed"
        /\ \E n \in {0, 1} : ran' = ran + n
        /\ UNCHANGED token
  /\ UNCHANGED <<server, shaken>>

Send   == DoRequest("send")
Resend == DoRequest("resend")

\* A panic ends the operator, whose next process has no token.
Return ==
  /\ step \in Outcomes
  /\ step' = "idle" /\ ran' = 0
  /\ token' = IF step = "panic" THEN NoToken ELSE token
  /\ UNCHANGED <<server, shaken, faults>>

-----------------------------------------------------------------------------
Tick ==
  /\ clock < MaxTime
  /\ clock' = clock + 1 /\ shaken' = TRUE
  /\ UNCHANGED <<skew, epoch, token, step, ran, faults>>

Restart ==
  /\ Fault
  /\ epoch' = epoch + 1 /\ shaken' = TRUE
  /\ UNCHANGED <<clock, skew, token, step, ran>>

Init ==
  /\ clock = 0 /\ skew \in (-MaxSkew)..MaxSkew /\ epoch = 0 /\ token = NoToken
  /\ step = "idle" /\ ran = 0 /\ shaken = FALSE /\ faults = 0

Client == Call \/ Login \/ Relogin \/ Send \/ Resend \/ Return
Next   == Client \/ Tick \/ Restart
Spec   == Init /\ [][Next]_vars

\* The client goes on; nothing is assumed of time or of faults.
LiveSpec == Spec /\ WF_vars(Client)

-----------------------------------------------------------------------------
(* Properties. *)

\* The client implements SaltCall: with one retry and two logins, the command
\* of a call is never run twice, and was run if the call is answered.
CallState == CASE step \in {"login", "send", "relogin", "resend"} -> "called"
               [] step \in {"refused", "failed"}                  -> "failed"
               [] step = "panic"                                  -> "crashed"
               [] step = "answered"                               -> "answered"
               [] step = "idle"                                   -> "idle"

Calls == INSTANCE SaltCall WITH call <- CallState

CallSpec == Calls!Spec

\* A token is refused to the caller only if the server restarted or time
\* passed during the call: an old token is always replaced first.
RefusedOnlyIfShaken == step = "refused" => shaken

\* Whatever token the client is left with, its calls are answered again once
\* the server stays up: it cannot be locked out.
CallsRecover == []<>(step = "answered")
=============================================================================
