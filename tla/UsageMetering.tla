---------------------------- MODULE UsageMetering ----------------------------
(***************************************************************************)
(* The engine's stats collector: a cycle takes the time since the last one  *)
(* began, reads the containers' counters from docker stats, looks up who    *)
(* pays for each container, and writes usage records.  What it remembers    *)
(* from one cycle to the next is in the engine's memory and lost with it;   *)
(* docker's counters start at zero whenever a container is started, and a   *)
(* text of theirs that the parser does not know reads as zero.  Bytes are   *)
(* counted as docker shows them, rounded.  Usage may go unrecorded in many  *)
(* ways; none may be recorded twice.                                        *)
(***************************************************************************)
EXTENDS Integers

CONSTANTS
    Metered,        \* containers
    MaxBytes,       \* bound: bytes a container sends and receives
    MaxClock,       \* bound: time, in units of the initial delay
    MaxEngines,     \* bound: starts of the engine
    MaxSets         \* bound: how often the host's clock is set forward, how far back

VARIABLES
    clock,          \* the time, how far the host's clock is from it, and by how much that was
                    \*   ever set forward
    traffic,        \* per container: bytes moved ever, docker's counter of them, and (a ghost)
                    \*   the bytes of the counter that readings did not show
    payer,          \* the containers with a running row and an organization that subscribes
    engine,         \* starts of the engine, when it was last started, when it last began a cycle,
                    \*   and what the host's clock showed then
    prevNetBytes,   \* counters of the last cycle that billed the container, or Unseen
    ownershipCache, \* "payer", "nobody" or "unknown"
    cycle,          \* the cycle under way: its interval, the counters it read, and the
                    \*   containers it found an owner of
    usage           \* usage records: bytes and seconds of each container

meteringVars == <<clock, traffic, payer, engine, prevNetBytes, ownershipCache, cycle, usage>>

ASSUME MeteringAssumption == MaxBytes \in Nat /\ MaxClock \in Nat /\ MaxEngines \in Nat
                                /\ MaxSets \in Nat

Unseen == MaxBytes + 1
Never == MaxClock + 1
Delay == 1
NoCycle == [at |-> "none", interval |-> 0, bytes |-> [c \in Metered |-> Unseen], owned |-> {}]

MeteringInit ==
    /\ clock = [time |-> 0, skew |-> 0, ahead |-> 0]
    /\ traffic = [c \in Metered |-> [moved |-> 0, counter |-> 0, unread |-> 0]]
    /\ payer \in SUBSET Metered
    /\ engine = [starts |-> 1, started |-> 0, began |-> Never, last |-> 0]
    /\ prevNetBytes = [c \in Metered |-> Unseen]
    /\ ownershipCache = [c \in Metered |-> "unknown"]
    /\ cycle = NoCycle
    /\ usage = [c \in Metered |-> [bytes |-> 0, seconds |-> 0]]

-----------------------------------------------------------------------------
Tick ==
    /\ clock.time < MaxClock
    /\ clock' = [clock EXCEPT !.time = @ + 1]
    /\ UNCHANGED <<traffic, payer, engine, prevNetBytes, ownershipCache, cycle, usage>>

\* Date.now() is the host's clock, which may be set; the timers go by the time that passes.
SetClock ==
    /\ \/ clock.ahead < MaxSets /\ clock' = [clock EXCEPT !.skew = @ + 1, !.ahead = @ + 1]
       \/ clock.skew > -MaxSets /\ clock' = [clock EXCEPT !.skew = @ - 1]
    /\ UNCHANGED <<traffic, payer, engine, prevNetBytes, ownershipCache, cycle, usage>>

MoveBytes(c) ==
    /\ traffic[c].moved < MaxBytes
    /\ traffic' = [traffic EXCEPT ![c].moved = @ + 1, ![c].counter = @ + 1]
    /\ UNCHANGED <<clock, payer, engine, prevNetBytes, ownershipCache, cycle, usage>>

StartContainer(c) ==
    /\ traffic[c].counter > 0
    /\ traffic' = [traffic EXCEPT ![c].counter = 0]
    /\ UNCHANGED <<clock, payer, engine, prevNetBytes, ownershipCache, cycle, usage>>

\* A subscription ends or begins, a container's row changes its status.
ChangePayer(c) ==
    /\ payer' = IF c \in payer THEN payer \ {c} ELSE payer \cup {c}
    /\ UNCHANGED <<clock, traffic, engine, prevNetBytes, ownershipCache, cycle, usage>>

StartEngine ==
    /\ engine.starts < MaxEngines
    /\ engine' = [starts |-> engine.starts + 1, started |-> clock.time, began |-> Never, last |-> 0]
    /\ prevNetBytes' = [c \in Metered |-> Unseen]
    /\ ownershipCache' = [c \in Metered |-> "unknown"]
    /\ cycle' = NoCycle
    /\ UNCHANGED <<clock, traffic, payer, usage>>

\* Five minutes for an owner, one cycle for none.
CacheExpires(c) ==
    /\ ownershipCache[c] # "unknown"
    /\ ownershipCache' = [ownershipCache EXCEPT ![c] = "unknown"]
    /\ UNCHANGED <<clock, traffic, payer, engine, prevNetBytes, cycle, usage>>

-----------------------------------------------------------------------------
(* collectOnce; cycles do not overlap *)

Now == clock.time + clock.skew

\* resolveIntervalSeconds: the initial delay in the first cycle, and when the host's clock has
\* not moved on.
Interval ==
    IF engine.began = Never \/ Now <= engine.last THEN Delay ELSE Now - engine.last

\* The start is noted before anything can fail.
StartCycle ==
    /\ cycle = NoCycle
    /\ IF engine.began = Never THEN clock.time >= engine.started + Delay ELSE clock.time > engine.began
    /\ cycle' = [NoCycle EXCEPT !.at = "stats", !.interval = Interval]
    /\ engine' = [engine EXCEPT !.began = clock.time, !.last = Now]
    /\ UNCHANGED <<clock, traffic, payer, prevNetBytes, ownershipCache, usage>>

\* docker stats lists some containers, or fails and lists none.  What is received and what is
\* sent are read one by one and added; each reads as nothing when it cannot be parsed.
ReadStats ==
    /\ cycle.at = "stats"
    /\ \E listed \in SUBSET Metered : \E read \in [listed -> 0..MaxBytes] :
          /\ \A c \in listed : read[c] <= traffic[c].counter
          /\ cycle' = IF listed = {} THEN NoCycle
                      ELSE [cycle EXCEPT !.at = "owners", !.bytes =
                                [c \in Metered |-> IF c \in listed THEN read[c] ELSE Unseen]]
          /\ traffic' = [c \in Metered |->
                IF c \in listed THEN [traffic[c] EXCEPT !.unread = @ + traffic[c].counter - read[c]]
                ELSE traffic[c]]
    /\ UNCHANGED <<clock, payer, engine, prevNetBytes, ownershipCache, usage>>

Listed == {c \in Metered : cycle.bytes[c] # Unseen}

\* An owner is looked up unless the cache has an answer.
ResolveOwners ==
    LET answer == [c \in Metered |-> IF ownershipCache[c] # "unknown" THEN ownershipCache[c]
                                     ELSE IF c \in payer THEN "payer" ELSE "nobody"]
    IN
    /\ cycle.at = "owners"
    /\ ownershipCache' = [c \in Metered |-> IF c \in Listed THEN answer[c] ELSE ownershipCache[c]]
    /\ cycle' = [cycle EXCEPT !.at = "write", !.owned = {c \in Listed : answer[c] = "payer"}]
    /\ UNCHANGED <<clock, traffic, payer, engine, prevNetBytes, usage>>

DeltaMutant(c) == LET before == IF prevNetBytes[c] = Unseen THEN 0 ELSE prevNetBytes[c]
                  IN  IF cycle.bytes[c] > before THEN cycle.bytes[c] - before ELSE 0
\* A container seen for the first time has no delta, nor has one whose counter fell.
Delta(c) ==
    IF prevNetBytes[c] # Unseen /\ cycle.bytes[c] > prevNetBytes[c]
    THEN cycle.bytes[c] - prevNetBytes[c] ELSE 0

\* createMany writes all records or, when it fails, none; the counters are remembered already.
\* Containers that were not listed are forgotten when it succeeds.
WriteRecords ==
    /\ cycle.at = "write"
    /\ \/ /\ usage' = [c \in Metered |->
                 IF c \in cycle.owned THEN [bytes |-> usage[c].bytes + Delta(c),
                                       seconds |-> usage[c].seconds + cycle.interval]
                 ELSE usage[c]]
          /\ prevNetBytes' = [c \in Metered |-> IF c \in cycle.owned THEN cycle.bytes[c]
                                                ELSE IF c \in Listed THEN prevNetBytes[c] ELSE Unseen]
          /\ ownershipCache' = [c \in Metered |-> IF c \in Listed THEN ownershipCache[c] ELSE "unknown"]
       \/ /\ prevNetBytes' = [c \in Metered |-> IF c \in cycle.owned THEN cycle.bytes[c] ELSE prevNetBytes[c]]
          /\ UNCHANGED <<usage, ownershipCache>>
    /\ cycle' = NoCycle
    /\ UNCHANGED <<clock, traffic, payer, engine>>

CycleFails ==
    /\ cycle.at \in {"owners", "write"}
    /\ cycle' = NoCycle
    /\ UNCHANGED <<clock, traffic, payer, engine, prevNetBytes, ownershipCache, usage>>

MeteringNext ==
    \/ Tick \/ SetClock \/ StartEngine \/ StartCycle \/ ReadStats \/ ResolveOwners \/ WriteRecords \/ CycleFails
    \/ \E c \in Metered : MoveBytes(c) \/ StartContainer(c) \/ ChangePayer(c) \/ CacheExpires(c)

MeteringSpec == MeteringInit /\ [][MeteringNext]_meteringVars

\* Nothing is billed that was not used, over every restart of the container and of the engine,
\* every failed cycle and every change of owner: no more bytes than the container moved, but for
\* those a reading failed to show, which the next one may bill again (stats-utils.ts 27-51); and
\* no more time than has passed, but for what the host's clock was set forward.
NothingBilledTwice ==
    \A c \in Metered : /\ usage[c].bytes <= traffic[c].moved + traffic[c].unread
                       /\ usage[c].seconds <= clock.time + clock.ahead

=============================================================================
