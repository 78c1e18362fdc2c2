---------------------------- MODULE RateLimiter ----------------------------
(***************************************************************************)
(* The per-client sliding-window rate limiter (RateLimiter, Allow,         *)
(* cleanup and the RateLimit middleware in unnamed/part_005).              *)
(*                                                                         *)
(* rl.requests is a Go map keyed by r.RemoteAddr, which is "IP:port": a    *)
(* key here is a pair <<ip, port>>, so that the model can tell the client  *)
(* (the IP the spec keys on) from the connection the code keys on.  Time   *)
(* is a discrete clock and the 1-second window is Window ticks.  Allow and *)
(* one whole pass of cleanup each hold rl.mu, so each is one step.         *)
(***************************************************************************)
EXTENDS Integers, Sequences, FiniteSets

CONSTANTS
    IPs,        \* client addresses
    Ports,      \* the source ports a client connects from
    Limit,      \* rl.limit (GATEWAY_RATE_LIMIT_PER_SECOND)
    Window,     \* rl.window, in ticks
    MaxTime     \* bound on the clock, for model checking

ASSUME RateLimiterAssumption ==
    /\ Limit \in Nat \ {0}
    /\ Window \in Nat \ {0}
    /\ MaxTime \in Nat

VARIABLES
    requests,   \* rl.requests: a function on the keys the map holds
    now,        \* time.Now()
    admitted,   \* ghost: per IP, the times of the requests Allow let through
    refused     \* ghost: the IP whose request the last step answered with 429

vars == <<requests, now, admitted, refused>>

Keys == IPs \X Ports

Times == 0..MaxTime

TypeOK ==
    /\ DOMAIN requests \subseteq Keys
    /\ \A k \in DOMAIN requests : requests[k] \in Seq(Times)
    /\ now \in Times
    /\ admitted \in [IPs -> Seq(Times)]
    /\ refused \subseteq IPs

(* The positions of the timestamps t of times with t.After(c).            *)
After(times, c) == {i \in 1..Len(times) : times[i] > c}

(* The place of position i among the positions I.                          *)
Rank(I, i) == Cardinality({j \in I : j <= i})

(* The loop of Allow and cleanup: valid starts empty and                   *)
(*   for _, t := range times { if t.After(cutoff) { valid = append(valid, t) } } *)
(* so its r-th element is the r-th timestamp of times after the cutoff.    *)
Filter(times, c) ==
    LET I == After(times, c) IN
    [r \in 1..Cardinality(I) |-> times[CHOOSE i \in I : Rank(I, i) = r]]

(* Mutant: the pruning keeps a timestamp equal to the cutoff               *)
(* (!t.Before(cutoff) instead of t.After(cutoff)).                         *)
ValidInclusive(times) == Filter(times, now - Window - 1)

(* The timestamps t with t.After(cutoff), cutoff = now - window.           *)
Valid(times) == Filter(times, now - Window)

(* rl.requests[key] = v, adding the key if the map lacks it.               *)
Store(key, v) ==
    [k \in DOMAIN requests \cup {key} |-> IF k = key THEN v ELSE requests[k]]

(* The middleware passes the request on: recorded in the ghost history.    *)
Admit(ip) == admitted' = [admitted EXCEPT ![ip] = Append(@, now)]

(* Mutant: the limit check off by one (len(valid) > rl.limit).             *)
OverLimitLate(times) == Len(Valid(times)) > Limit

(* len(valid) >= rl.limit.                                                 *)
OverLimit(times) == Len(Valid(times)) >= Limit

(* Mutant: the denied request is recorded as well.                         *)
DenyRecorded(key) == requests' = Store(key, Append(Valid(requests[key]), now))

(* The deny branch writes the pruned list back.                            *)
Deny(key) == requests' = Store(key, Valid(requests[key]))

(* RateLimit(rl) on a request from r.RemoteAddr = ip:port: rl.Allow, then  *)
(* the handler or a 429.                                                   *)
Allow(ip, port) ==
    LET key == <<ip, port>> IN
    /\ \/ /\ key \notin DOMAIN requests
          /\ requests' = Store(key, <<now>>)
          /\ Admit(ip)
          /\ refused' = {}
       \/ /\ key \in DOMAIN requests
          /\ OverLimit(requests[key])
          /\ Deny(key)
          /\ UNCHANGED admitted
          /\ refused' = {ip}
       \/ /\ key \in DOMAIN requests
          /\ ~OverLimit(requests[key])
          /\ requests' = Store(key, Append(Valid(requests[key]), now))
          /\ Admit(ip)
          /\ refused' = {}
    /\ UNCHANGED now

(* One pass of cleanup: prune every list, delete the keys left empty.      *)
Cleanup ==
    /\ requests' = [k \in {j \in DOMAIN requests : Valid(requests[j]) # <<>>}
                      |-> Valid(requests[k])]
    /\ refused' = {}
    /\ UNCHANGED <<now, admitted>>

Tick ==
    /\ now < MaxTime
    /\ now' = now + 1
    /\ refused' = {}
    /\ UNCHANGED <<requests, admitted>>

Init ==
    /\ requests = [k \in {} |-> <<>>]
    /\ now = 0
    /\ admitted = [ip \in IPs |-> <<>>]
    /\ refused = {}

Next ==
    \/ \E ip \in IPs, port \in Ports : Allow(ip, port)
    \/ Cleanup
    \/ Tick

Spec == Init /\ [][Next]_vars

-----------------------------------------------------------------------------
(* The number of requests of ip let through at times in (t - Window, t].   *)
InWindow(ip, t) ==
    Cardinality({i \in 1..Len(admitted[ip]) :
                    t - Window < admitted[ip][i] /\ admitted[ip][i] <= t})

(* Spec 8, rate limiter: in every window of one second, at most `limit`    *)
(* requests of one client reach the handler.  It fails if Allow's check,   *)
(* its pruning or cleanup's deletion of idle keys lets an extra request    *)
(* through, or if one client owns several keys of rl.requests.            *)
WindowLimit ==
    \A ip \in IPs, t \in Times : InWindow(ip, t) <= Limit

(* The limiter does not over-restrict: a client is answered 429 only when *)
(* `limit` of its requests really were let through in the current window.  *)
(* It fails if Allow's pruning or cleanup keeps a timestamp that has left   *)
(* the window, or if a refused request is remembered as if it had been     *)
(* let through.                                                            *)
NoFalseRefusal ==
    \A ip \in refused : InWindow(ip, now) >= Limit

(* The memory Allow keeps per key stays within the limit: the deny branch  *)
(* stores only the pruned list and an admitted request grows it to at most *)
(* `limit` entries.                                                        *)
StoredBound ==
    \A k \in DOMAIN requests : Len(requests[k]) <= Limit

=============================================================================
