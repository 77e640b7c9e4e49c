---------------------------- MODULE RateLimiter ----------------------------
(***************************************************************************)
(* security.FixedWindowRateLimiter as the API server uses it: concurrent    *)
(* requests call Allow with the key of their user.  A call reads the clock  *)
(* before it gets the mutex, so calls may apply older readings after newer  *)
(* ones; a reading is at most MaxDelay ticks old when it is applied.        *)
(***************************************************************************)
EXTENDS Naturals, FiniteSets, Functions

CONSTANTS Keys, Callers,
          Limit, Window,   \* the configured limit and window, in clock ticks
          PruneEvery,      \* how often expired windows are deleted, 1024 in the code
          MaxDelay,        \* bound: ticks between reading the clock and the lock
          MaxTime,         \* bound: the clock
          MaxCalls         \* bound: calls of Allow

ASSUME LimiterAssumption ==
  /\ Limit \in Nat \ {0} /\ Window \in Nat \ {0} /\ PruneEvery \in Nat \ {0}

VARIABLES now,
          windows,    \* windows[k], for the keys that have one
          calls,
          reading,    \* reading[c]: the call of caller c waits for the mutex
          admitted,   \* history: the calls that were allowed
          begun,      \* history: when the last window of each key began
          early       \* history: keys whose window was pruned and began again before it was over

history == <<admitted, begun, early>>
limiterVars == <<now, windows, calls, reading, history>>

NoCall == [key |-> "none", at |-> 0]

LimiterInit ==
  /\ now = 0 /\ windows = <<>> /\ calls = 0
  /\ reading = [c \in Callers |-> NoCall]
  /\ admitted = {} /\ begun = <<>> /\ early = {}

Tick ==
  /\ now < MaxTime
  /\ \A c \in Callers : reading[c] # NoCall => now < reading[c].at + MaxDelay
  /\ now' = now + 1
  /\ UNCHANGED <<windows, calls, reading, history>>

ReadClock(c, k) ==
  /\ reading[c] = NoCall
  /\ calls + Cardinality({b \in Callers : reading[b] # NoCall}) < MaxCalls
  /\ reading' = [reading EXCEPT ![c] = [key |-> k, at |-> now]]
  /\ UNCHANGED <<now, windows, calls, history>>

Over(w, at) == at >= w.startedAt + Window

\* What is left of the windows when call number n prunes them.
Pruned(n, at) ==
  IF n % PruneEvery = 0 THEN Restrict(windows, {k \in DOMAIN windows : ~Over(windows[k], at)})
  ELSE windows

\* Mutant: a window is not replaced before it is pruned, only emptied.
WindowKept(ws, k, at) ==
  IF k \in DOMAIN ws
  THEN IF Over(ws[k], at) THEN [ws[k] EXCEPT !.count = 0] ELSE ws[k]
  ELSE [startedAt |-> at, count |-> 0]

WindowFor(ws, k, at) ==
  IF k \in DOMAIN ws /\ ~Over(ws[k], at) THEN ws[k] ELSE [startedAt |-> at, count |-> 0]

With(f, k, v) == [j \in DOMAIN f \cup {k} |-> IF j = k THEN v ELSE f[j]]

\* The critical section of Allow.
Allow(c) ==
  LET k  == reading[c].key
      at == reading[c].at
      ws == Pruned(calls + 1, at)
      w  == WindowFor(ws, k, at)
  IN  /\ reading[c] # NoCall
      /\ calls' = calls + 1
      /\ \/ /\ w.count >= Limit
            /\ windows' = ws
            /\ UNCHANGED history
         \/ /\ w.count < Limit
            /\ windows' = With(ws, k, [w EXCEPT !.count = @ + 1])
            /\ admitted' = admitted \cup {[key |-> k, at |-> at, call |-> calls']}
            /\ begun' = With(begun, k, w.startedAt)
            /\ early' = IF k \in DOMAIN begun \ DOMAIN ws /\ at < begun[k] + Window
                        THEN early \cup {k} ELSE early
      /\ reading' = [reading EXCEPT ![c] = NoCall]
      /\ UNCHANGED now

LimiterNext == Tick \/ \E c \in Callers : Allow(c) \/ \E k \in Keys : ReadClock(c, k)
-----------------------------------------------------------------------------
\* A fixed window lets a user have at most twice the limit within any time of a
\* window's length, however calls overtake each other between the clock and the
\* mutex.  The exception are windows that were pruned by a call with a newer
\* reading and begun again by one with an older reading.
AdmissionsLimited ==
  \A k \in Keys \ early, from \in 0..MaxTime :
    Cardinality({a \in admitted : a.key = k /\ from <= a.at /\ a.at < from + Window}) <= 2 * Limit
=============================================================================
