----------------------------- MODULE RateLimiter -----------------------------
(***************************************************************************)
(* The sliding window limiter (hosted/control-plane/ratelimit.go).  allow  *)
(* reads the time before it takes the lock, so hits may be recorded in     *)
(* another order than their times, and a sweep of the map may see an older *)
(* now than the one before it.  The times a key holds are the requests     *)
(* that recorded them: two of one instant count twice, and the order in    *)
(* the slice plays no part.  Time is counted in ticks.                     *)
(***************************************************************************)
EXTENDS Integers, FiniteSets

CONSTANTS
  Clients,  \* keys: client addresses
  Hits,     \* requests
  Limit,
  Window,
  Wait,     \* how long a request may wait for the lock
  MaxNow    \* bound: how long the model runs

ASSUME LimiterAssumption ==
  /\ IsFiniteSet(Hits)
  /\ Limit \in Nat \ {0} /\ Window \in Nat \ {0} /\ Wait \in Nat /\ MaxNow \in Nat

VARIABLES
  time,       \* the clock
  hits,       \* rateLimiter.hits
  lastSweep,
  hit         \* requests: the key, the now each has read, and how far it is

limiterVars == <<time, hits, lastSweep, hit>>

LimiterTypeOK ==
  /\ time \in 0..MaxNow
  /\ hits \in [Clients -> SUBSET Hits]
  /\ \A k \in Clients : Cardinality(hits[k]) <= Limit
  /\ lastSweep \in (-Window)..time
  /\ hit \in [Hits -> [at : {"new", "waits", "allowed", "refused"}, key : Clients, now : 0..time]]

LimiterInit ==
  /\ time = 0
  /\ hits = [k \in Clients |-> {}]
  /\ lastSweep = -Window
  /\ hit \in [Hits -> [at : {"new"}, key : Clients, now : {0}]]

LimiterTick ==
  /\ time < MaxNow
  /\ \A h \in Hits : hit[h].at = "waits" => time - hit[h].now < Wait
  /\ time' = time + 1
  /\ UNCHANGED <<hits, lastSweep, hit>>

(* now := time.Now(), before the lock. *)
readNow(h) ==
  /\ hit[h].at = "new"
  /\ hit' = [hit EXCEPT ![h] = [@ EXCEPT !.at = "waits", !.now = time]]
  /\ UNCHANGED <<time, hits, lastSweep>>

Kept(times, now) == {h \in times : now - hit[h].now < Window}

sweepEverything(now) ==
  IF now - lastSweep < Window THEN hits ELSE [k \in Clients |-> {}]

(* Keys with nothing inside the window go, at most once in a window. *)
sweepLocked(now) ==
  IF now - lastSweep < Window THEN hits
  ELSE [k \in Clients |-> IF Kept(hits[k], now) = {} THEN {} ELSE hits[k]]

allow(h) ==
  LET k == hit[h].key
      now == hit[h].now
      kept == Kept(sweepLocked(now)[k], now)
      ok == Cardinality(kept) < Limit
  IN /\ hit[h].at = "waits"
     /\ hits' = [sweepLocked(now) EXCEPT ![k] = IF ok THEN kept \cup {h} ELSE kept]
     /\ lastSweep' = IF now - lastSweep < Window THEN lastSweep ELSE now
     /\ hit' = [hit EXCEPT ![h].at = IF ok THEN "allowed" ELSE "refused"]
     /\ UNCHANGED time

LimiterNext ==
  \/ LimiterTick
  \/ \E h \in Hits : readNow(h) \/ allow(h)

LimiterSpec == LimiterInit /\ [][LimiterNext]_limiterVars

-----------------------------------------------------------------------------
(* Properties *)

(* The requests of a client let through with a time in a span. *)
Through(k, from, to) ==
  {h \in Hits : hit[h].at = "allowed" /\ hit[h].key = k /\ hit[h].now \in from..to}

(* ratelimit.go:12: no client gets more than Limit requests through in any *)
(* span of a window less the time a request may wait for the lock.         *)
LimitHolds ==
  \A k \in Clients, from \in 0..time :
    Cardinality(Through(k, from, from + Window - Wait - 1)) <= Limit

(* ratelimit.go:35: a key that is in the map has a hit from within two     *)
(* windows of the last request, so distinct clients do not fill the memory. *)
NoIdleKeys ==
  \A k \in Clients : hits[k] # {} =>
    \E h \in hits[k] : hit[h].now > lastSweep - Window

(* Both: the sweep forgets what is past and nothing that still counts.     *)
LimiterSound == LimitHolds /\ NoIdleKeys
=============================================================================
