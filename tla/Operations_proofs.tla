-------------------------- MODULE Operations_proofs --------------------------
(***************************************************************************)
(* For any number of containers, bytes, cycles and restarts: no usage is    *)
(* billed that did not happen.  For any number of members, incidents and    *)
(* admins: an appeal waits only where an unblock can decide it.  For any    *)
(* number of requests, files and changes: the row of a dev container tells  *)
(* the truth, and so does a tab of the editor that shows no dirty mark.     *)
(***************************************************************************)
EXTENDS UsageMetering, SecurityIncidents, DevContainers, Editor, TLAPS

-----------------------------------------------------------------------------
(* UsageMetering *)

Cycle == [at : {"none", "stats", "owners", "write"}, interval : Nat,
          bytes : [Metered -> 0..(MaxBytes + 1)], owned : SUBSET Metered]

MeteringTyped ==
    /\ clock \in [time : 0..MaxClock, skew : Int, ahead : Nat]
    /\ traffic \in [Metered -> [moved : 0..MaxBytes, counter : 0..MaxBytes, unread : Nat]]
    /\ engine \in [starts : Nat, started : 0..MaxClock, began : 0..(MaxClock + 1), last : Int]
    /\ prevNetBytes \in [Metered -> 0..(MaxBytes + 1)]
    /\ cycle \in Cycle
    /\ usage \in [Metered -> [bytes : Nat, seconds : Nat]]

\* How far a counter has grown since it was remembered.
Grown(counter, before) ==
    IF before # Unseen /\ counter > before THEN counter - before ELSE 0

\* What the next cycle would bill, and what the cycle under way will leave to the next.
BytesInv ==
    \A c \in Metered :
        /\ usage[c].bytes + Grown(traffic[c].counter, prevNetBytes[c]) <= traffic[c].moved + traffic[c].unread
        /\ cycle.bytes[c] # Unseen =>
              usage[c].bytes + Grown(cycle.bytes[c], prevNetBytes[c])
                             + Grown(traffic[c].counter, cycle.bytes[c])
                  <= traffic[c].moved + traffic[c].unread

\* The time up to which the engine has billed, or would have.
Accounted == IF engine.began = Never THEN engine.started ELSE engine.began

\* Seconds that may have been billed by then, by the clock of the host as by the time that passed.
Within(seconds) ==
    /\ seconds <= Accounted + clock.ahead
    /\ engine.began # Never => seconds + clock.skew <= engine.last + clock.ahead

TimeInv ==
    /\ Accounted <= clock.time
    /\ \A c \in Metered : Within(usage[c].seconds)
    /\ cycle # NoCycle =>
          engine.began # Never /\ \A c \in Metered : Within(usage[c].seconds + cycle.interval)

OwnersInv ==
    /\ cycle.owned \subseteq Listed
    /\ cycle.at # "write" => cycle.owned = {}

MeteringInv == MeteringTyped /\ BytesInv /\ TimeInv /\ OwnersInv

LEMMA NoCycleTyped == NoCycle \in Cycle /\ NoCycle.owned = {} /\ \A c \in Metered : NoCycle.bytes[c] = Unseen
BY MeteringAssumption DEF NoCycle, Cycle, Unseen

LEMMA MeteringInitInv == MeteringInit => MeteringInv
<1> SUFFICES ASSUME MeteringInit PROVE MeteringInv
  OBVIOUS
<1>1. MeteringTyped
  BY NoCycleTyped, MeteringAssumption DEF MeteringInit, MeteringTyped, Unseen, Never
<1>2. BytesInv
  <2>1. ASSUME NEW c \in Metered
        PROVE  /\ usage[c].bytes = 0 /\ traffic[c].moved + traffic[c].unread = 0 /\ prevNetBytes[c] = Unseen
               /\ cycle.bytes[c] = Unseen
    BY NoCycleTyped DEF MeteringInit
  <2>2. \A c \in Metered : Grown(traffic[c].counter, prevNetBytes[c]) = 0
    BY <2>1 DEF Grown
  <2> SUFFICES ASSUME NEW c \in Metered
               PROVE  usage[c].bytes + Grown(traffic[c].counter, prevNetBytes[c])
                          <= traffic[c].moved + traffic[c].unread
    BY <2>1 DEF BytesInv
  <2>3. usage[c].bytes + Grown(traffic[c].counter, prevNetBytes[c]) = 0
    BY <2>1, <2>2
  <2> QED BY <2>1, <2>3
<1>3. TimeInv
  <2>1. /\ cycle = NoCycle /\ clock.time = 0 /\ clock.ahead = 0 /\ engine.began = Never
        /\ \A c \in Metered : usage[c].seconds = 0
    BY DEF MeteringInit
  <2>2. Accounted = 0
    BY MeteringAssumption DEF MeteringInit, Accounted, Never
  <2> QED BY <2>1, <2>2 DEF TimeInv, Within
<1>4. OwnersInv
  BY NoCycleTyped DEF MeteringInit, OwnersInv
<1> QED BY <1>1, <1>2, <1>3, <1>4 DEF MeteringInv

\* Nothing but the counters moves.
LEMMA TrafficInv ==
    ASSUME MeteringInv, NEW d \in Metered, MoveBytes(d) \/ StartContainer(d)
    PROVE  MeteringInv'
<1>1. UNCHANGED <<clock, engine, prevNetBytes, cycle, usage>>
  BY DEF MoveBytes, StartContainer
<1>2. /\ traffic' \in [Metered -> [moved : 0..MaxBytes, counter : 0..MaxBytes, unread : Nat]]
      /\ \A c \in Metered : traffic'[c].unread = traffic[c].unread
      /\ \A c \in Metered :
            \/ traffic'[c] = traffic[c]
            \/ traffic'[c].moved = traffic[c].moved + 1 /\ traffic'[c].counter = traffic[c].counter + 1
            \/ traffic'[c].moved = traffic[c].moved /\ traffic'[c].counter = 0
  <2>1. traffic[d] \in [moved : 0..MaxBytes, counter : 0..MaxBytes, unread : Nat]
    BY DEF MeteringInv, MeteringTyped
  <2>2. CASE StartContainer(d)
    BY <2>1, <2>2, MeteringAssumption DEF StartContainer, MeteringInv, MeteringTyped
  <2>3. CASE MoveBytes(d)
    <3>1. usage[d].bytes \in Nat /\ traffic[d].moved < MaxBytes
      BY <2>3 DEF MoveBytes, MeteringInv, MeteringTyped
    <3> QED BY <2>1, <2>3, MeteringAssumption DEF MoveBytes, MeteringInv, MeteringTyped
  <2> QED BY <2>2, <2>3
<1>3. MeteringTyped'
  BY <1>1, <1>2 DEF MeteringInv, MeteringTyped
<1>4. BytesInv'
  BY <1>1, <1>2, MeteringAssumption, SMTT(30) DEF MeteringInv, MeteringTyped, Cycle, BytesInv, Grown, Unseen
<1>5. TimeInv' /\ OwnersInv'
  BY <1>1 DEF MeteringInv, TimeInv, Within, Accounted, OwnersInv, Listed
<1> QED BY <1>3, <1>4, <1>5 DEF MeteringInv

\* The cycle ends, or its engine does; what is remembered may be forgotten.
LEMMA NothingWritten ==
    ASSUME MeteringInv, UNCHANGED <<clock, traffic, usage>>, cycle' = NoCycle,
           prevNetBytes' \in [Metered -> 0..(MaxBytes + 1)],
           \A c \in Metered : prevNetBytes'[c] \in {prevNetBytes[c], Unseen},
           \/ UNCHANGED engine
           \/ engine' = [starts |-> engine.starts + 1, started |-> clock.time, began |-> Never, last |-> 0]
    PROVE  MeteringInv'
<1>1. MeteringTyped'
  BY NoCycleTyped, MeteringAssumption DEF MeteringInv, MeteringTyped, Never
<1>2. ASSUME NEW c \in Metered
      PROVE  usage'[c].bytes + Grown(traffic'[c].counter, prevNetBytes'[c])
                 <= traffic'[c].moved + traffic'[c].unread
  <2>1. /\ usage[c].bytes \in Nat /\ traffic[c].counter \in Nat /\ traffic[c].moved \in Nat
        /\ traffic[c].unread \in Nat /\ prevNetBytes[c] \in Nat
    BY MeteringAssumption DEF MeteringInv, MeteringTyped
  <2>2. usage[c].bytes + Grown(traffic[c].counter, prevNetBytes[c]) <= traffic[c].moved + traffic[c].unread
    BY DEF MeteringInv, BytesInv
  <2> QED BY <2>1, <2>2 DEF Grown
<1>3. BytesInv'
  BY <1>2, NoCycleTyped DEF BytesInv, Unseen
<1>4. TimeInv'
  <2>1. Accounted <= Accounted' /\ Accounted' <= clock'.time /\ Accounted \in Nat /\ Accounted' \in Nat
    BY MeteringAssumption DEF MeteringInv, MeteringTyped, TimeInv, Accounted, Never
  <2>2. \A c \in Metered : usage[c].seconds \in Nat /\ Within(usage[c].seconds)
    BY DEF MeteringInv, MeteringTyped, TimeInv
  <2>3. UNCHANGED engine \/ engine'.began = Never
    OBVIOUS
  <2>4. \A c \in Metered : Within(usage[c].seconds)'
    BY <2>1, <2>2, <2>3 DEF Within, MeteringInv, MeteringTyped
  <2> QED BY <2>1, <2>4 DEF TimeInv, NoCycle
<1>5. OwnersInv'
  BY NoCycleTyped DEF OwnersInv
<1> QED BY <1>1, <1>3, <1>4, <1>5 DEF MeteringInv

LEMMA StartCycleInv == MeteringInv /\ StartCycle => MeteringInv'
<1> SUFFICES ASSUME MeteringInv, StartCycle PROVE MeteringInv'
  OBVIOUS
<1>1. /\ clock \in [time : 0..MaxClock, skew : Int, ahead : Nat] /\ engine.last \in Int
      /\ engine.began \in 0..(MaxClock + 1) /\ engine.started \in 0..MaxClock
      /\ engine \in [starts : Nat, started : 0..MaxClock, began : 0..(MaxClock + 1), last : Int]
  BY DEF MeteringInv, MeteringTyped
<1>2. engine' = [starts |-> engine.starts, started |-> engine.started, began |-> clock.time, last |-> Now]
  BY <1>1 DEF StartCycle
<1>3. /\ Interval \in Nat /\ Now \in Int
      /\ \A s \in Nat : Within(s) => s + Interval <= clock.time + clock.ahead
  BY <1>1, MeteringAssumption DEF StartCycle, Interval, Now, Within, Accounted, Delay, Never, MeteringInv, TimeInv
<1>4. cycle' = [at |-> "stats", interval |-> Interval, bytes |-> NoCycle.bytes, owned |-> {}]
  BY DEF StartCycle, NoCycle
<1>5. UNCHANGED <<clock, traffic, prevNetBytes, usage>> /\ clock.time # Never
  BY <1>1, MeteringAssumption DEF StartCycle, Never
<1>6. NoCycle.bytes \in [Metered -> 0..(MaxBytes + 1)]
  BY NoCycleTyped DEF Cycle
<1>7. MeteringTyped'
  <2>1. cycle' \in Cycle
    BY <1>3, <1>4, <1>6 DEF Cycle
  <2>2. engine' \in [starts : Nat, started : 0..MaxClock, began : 0..(MaxClock + 1), last : Int]
    BY <1>1, <1>2, <1>3, MeteringAssumption
  <2> QED BY <1>1, <1>5, <2>1, <2>2 DEF MeteringInv, MeteringTyped
<1>8. BytesInv'
  BY <1>4, <1>5, NoCycleTyped DEF MeteringInv, BytesInv, Unseen
<1>9. TimeInv'
  <2>1. \A c \in Metered : usage[c].seconds \in Nat /\ Within(usage[c].seconds)
    BY DEF MeteringInv, MeteringTyped, TimeInv
  <2>2. /\ engine'.last = clock.time + clock.skew /\ engine'.began = clock.time /\ Accounted' = clock.time
        /\ clock' = clock
    BY <1>1, <1>2, <1>5 DEF Accounted, Never, Now
  <2>3. \A s \in Nat : s <= clock.time + clock.ahead => Within(s)'
    BY <1>1, <2>2 DEF Within
  <2>4. cycle'.interval = Interval
    BY <1>4
  <2>5. \A c \in Metered : Within(usage[c].seconds)' /\ Within(usage[c].seconds + cycle.interval)'
    <3>1. ASSUME NEW c \in Metered
          PROVE  /\ usage[c].seconds \in Nat /\ usage[c].seconds + Interval \in Nat
                 /\ usage[c].seconds <= clock.time + clock.ahead
                 /\ usage[c].seconds + Interval <= clock.time + clock.ahead
      BY <1>1, <1>3, <2>1
    <3>2. usage' = usage
      BY <1>5
    <3> QED BY <2>3, <2>4, <3>1, <3>2 DEF Within
  <2> QED BY <1>1, <1>5, <2>2, <2>5 DEF TimeInv, Never
<1>10. OwnersInv'
  <2>1. cycle'.owned = {}
    BY <1>4
  <2> QED BY <2>1 DEF OwnersInv
<1> QED BY <1>7, <1>8, <1>9, <1>10 DEF MeteringInv

LEMMA ReadStatsInv == MeteringInv /\ ReadStats => MeteringInv'
<1> SUFFICES ASSUME MeteringInv, ReadStats PROVE MeteringInv'
  OBVIOUS
<1>1. UNCHANGED <<clock, engine, prevNetBytes, usage>>
  BY DEF ReadStats
<1> DEFINE Reads(listed, shown) ==
          /\ \A c \in listed : shown[c] <= traffic[c].counter
          /\ cycle' = IF listed = {} THEN NoCycle
                      ELSE [cycle EXCEPT !.at = "owners", !.bytes =
                                [c \in Metered |-> IF c \in listed THEN shown[c] ELSE Unseen]]
          /\ traffic' = [c \in Metered |->
                IF c \in listed THEN [traffic[c] EXCEPT !.unread = @ + traffic[c].counter - shown[c]]
                ELSE traffic[c]]
<1>5. PICK listed \in SUBSET Metered : \E shown \in [listed -> 0..MaxBytes] : Reads(listed, shown)
  BY DEF ReadStats
<1>2. PICK shown \in [listed -> 0..MaxBytes] : Reads(listed, shown)
  BY <1>5
<1>3. CASE listed = {}
  <2>1. traffic' = traffic
    BY <1>2, <1>3 DEF MeteringInv, MeteringTyped
  <2> QED BY <1>1, <1>2, <1>3, <2>1, NothingWritten DEF MeteringInv, MeteringTyped
<1>4. CASE listed # {}
  <2> DEFINE read == [c \in Metered |-> IF c \in listed THEN shown[c] ELSE Unseen]
  <2>1. read \in [Metered -> 0..(MaxBytes + 1)]
    BY MeteringAssumption DEF Unseen
  <2>2. cycle' = [at |-> "owners", interval |-> cycle.interval, bytes |-> read, owned |-> cycle.owned]
    <3> HIDE DEF read
    <3>1. cycle' = [cycle EXCEPT !.at = "owners", !.bytes = read]
      BY <1>2, <1>4 DEF read
    <3> QED BY <3>1 DEF MeteringInv, MeteringTyped, Cycle
  <2>3. cycle.at = "stats" /\ cycle # NoCycle
    BY DEF ReadStats, NoCycle
  <2>9. ASSUME NEW c \in Metered
        PROVE  /\ traffic'[c] \in [moved : 0..MaxBytes, counter : 0..MaxBytes, unread : Nat]
               /\ traffic'[c].moved = traffic[c].moved /\ traffic'[c].counter = traffic[c].counter
               /\ traffic'[c].unread >= traffic[c].unread
               /\ read[c] # Unseen =>
                     /\ read[c] <= traffic[c].counter
                     /\ traffic'[c].unread = traffic[c].unread + traffic[c].counter - read[c]
    <3>1. traffic[c] \in [moved : 0..MaxBytes, counter : 0..MaxBytes, unread : Nat]
      BY DEF MeteringInv, MeteringTyped
    <3>2. CASE c \in listed
      <4>1. shown[c] \in 0..MaxBytes /\ shown[c] <= traffic[c].counter /\ read[c] = shown[c]
        BY <1>2, <3>2
      <4>2. traffic'[c] = [moved |-> traffic[c].moved, counter |-> traffic[c].counter,
                           unread |-> traffic[c].unread + traffic[c].counter - shown[c]]
        BY <1>2, <3>1, <3>2
      <4> HIDE DEF read
      <4> QED BY <3>1, <4>1, <4>2, MeteringAssumption
    <3>3. CASE c \notin listed
      <4>1. traffic'[c] = traffic[c] /\ read[c] = Unseen
        BY <1>2, <3>3
      <4> HIDE DEF read
      <4> QED BY <3>1, <4>1, MeteringAssumption
    <3> QED BY <3>2, <3>3
  <2>4. MeteringTyped'
    <3>1. traffic' = [c \in Metered |-> traffic'[c]]
      BY <1>2
    <3>2. traffic' \in [Metered -> [moved : 0..MaxBytes, counter : 0..MaxBytes, unread : Nat]]
      BY <2>9, <3>1
    <3> HIDE DEF read
    <3> QED BY <1>1, <2>1, <2>2, <3>2 DEF MeteringInv, MeteringTyped, Cycle
  <2>5. ASSUME NEW c \in Metered
        PROVE  /\ usage[c].bytes + Grown(traffic'[c].counter, prevNetBytes[c])
                       <= traffic'[c].moved + traffic'[c].unread
               /\ read[c] # Unseen =>
                     usage[c].bytes + Grown(read[c], prevNetBytes[c]) + Grown(traffic'[c].counter, read[c])
                         <= traffic'[c].moved + traffic'[c].unread
    <3>1. /\ usage[c].bytes \in Nat /\ traffic[c].counter \in Nat /\ prevNetBytes[c] \in Nat
          /\ traffic[c].moved \in Nat /\ traffic[c].unread \in Nat /\ traffic'[c].unread \in Nat
          /\ read[c] \in Nat /\ Unseen \in Nat
      BY <2>1, <2>9, MeteringAssumption DEF MeteringInv, MeteringTyped, Unseen
    <3>2. usage[c].bytes + Grown(traffic[c].counter, prevNetBytes[c]) <= traffic[c].moved + traffic[c].unread
      BY DEF MeteringInv, BytesInv
    <3> HIDE DEF read
    <3>3. read[c] # Unseen =>
              /\ Grown(read[c], prevNetBytes[c]) <= Grown(traffic[c].counter, prevNetBytes[c])
              /\ Grown(traffic[c].counter, read[c]) <= traffic[c].counter - read[c]
              /\ Grown(read[c], prevNetBytes[c]) \in Nat /\ Grown(traffic[c].counter, read[c]) \in Nat
      BY <2>9, <3>1 DEF Grown
    <3>4. Grown(traffic[c].counter, prevNetBytes[c]) \in Nat
      BY <3>1 DEF Grown
    <3> QED BY <2>9, <3>1, <3>2, <3>3, <3>4
  <2>6. BytesInv'
    <3> HIDE DEF read
    <3>1. cycle'.bytes = read
      BY <2>2
    <3> QED BY <1>1, <2>5, <3>1 DEF BytesInv, Grown, Unseen
  <2>7. TimeInv'
    <3>1. cycle'.interval = cycle.interval
      BY <2>2
    <3> QED BY <1>1, <2>3, <3>1 DEF MeteringInv, TimeInv, Within, Accounted, Never
  <2>8. OwnersInv'
    <3>1. cycle.owned = {}
      BY <2>3 DEF MeteringInv, OwnersInv
    <3> QED BY <2>2, <3>1 DEF OwnersInv
  <2> QED BY <2>4, <2>6, <2>7, <2>8 DEF MeteringInv
<1> QED BY <1>3, <1>4

LEMMA ResolveOwnersInv == MeteringInv /\ ResolveOwners => MeteringInv'
<1> SUFFICES ASSUME MeteringInv, ResolveOwners PROVE MeteringInv'
  OBVIOUS
<1>1. PICK owned \in SUBSET Listed : cycle' = [cycle EXCEPT !.at = "write", !.owned = owned]
  BY DEF ResolveOwners
<1>2. UNCHANGED <<clock, traffic, engine, prevNetBytes, usage>> /\ cycle # NoCycle
  BY DEF ResolveOwners, NoCycle
<1>3. cycle' = [at |-> "write", interval |-> cycle.interval, bytes |-> cycle.bytes, owned |-> owned]
  BY <1>1 DEF MeteringInv, MeteringTyped, Cycle
<1>4. MeteringTyped'
  BY <1>2, <1>3 DEF MeteringInv, MeteringTyped, Cycle, Listed
<1>5. cycle'.bytes = cycle.bytes /\ cycle'.interval = cycle.interval /\ cycle'.owned = owned
      /\ cycle'.at = "write"
  BY <1>3
<1>6. BytesInv'
  BY <1>2, <1>5 DEF MeteringInv, BytesInv, Grown, Unseen
<1>7. TimeInv'
  BY <1>2, <1>5 DEF MeteringInv, TimeInv, Within, Accounted, Never
<1>8. OwnersInv'
  BY <1>5 DEF OwnersInv, Listed, Unseen
<1> QED BY <1>4, <1>6, <1>7, <1>8 DEF MeteringInv

LEMMA WriteRecordsInv == MeteringInv /\ WriteRecords => MeteringInv'
<1> SUFFICES ASSUME MeteringInv, WriteRecords PROVE MeteringInv'
  OBVIOUS
<1>1. UNCHANGED <<clock, traffic, engine>> /\ cycle' = NoCycle /\ cycle # NoCycle
  BY DEF WriteRecords, NoCycle
<1>2. ASSUME NEW c \in Metered
      PROVE  /\ usage[c].bytes \in Nat /\ usage[c].seconds \in Nat /\ cycle.interval \in Nat
             /\ traffic[c].counter \in 0..MaxBytes /\ traffic[c].moved \in 0..MaxBytes
             /\ traffic[c].unread \in Nat
             /\ prevNetBytes[c] \in 0..(MaxBytes + 1) /\ cycle.bytes[c] \in 0..(MaxBytes + 1)
             /\ Delta(c) = Grown(cycle.bytes[c], prevNetBytes[c]) /\ Delta(c) \in Nat
  BY MeteringAssumption DEF MeteringInv, MeteringTyped, Cycle, Delta, Grown
<1> DEFINE billed(c) == /\ c \in cycle.owned
                        /\ usage'[c] = [bytes |-> usage[c].bytes + Delta(c),
                                        seconds |-> usage[c].seconds + cycle.interval]
                        /\ prevNetBytes'[c] = cycle.bytes[c]
           lost(c) == c \in cycle.owned /\ usage'[c] = usage[c] /\ prevNetBytes'[c] = cycle.bytes[c]
           passed(c) == usage'[c] = usage[c] /\ prevNetBytes'[c] \in {prevNetBytes[c], Unseen}
<1>3. ASSUME NEW c \in Metered PROVE billed(c) \/ lost(c) \/ passed(c)
  BY DEF WriteRecords
<1> HIDE DEF billed, lost, passed
<1>4. usage' \in [Metered -> [bytes : Nat, seconds : Nat]]
  <2>1. ASSUME NEW c \in Metered PROVE usage'[c] \in [bytes : Nat, seconds : Nat]
    <3>1. CASE billed(c)
      BY <1>2, <3>1 DEF billed
    <3>2. CASE lost(c) \/ passed(c)
      BY <3>2 DEF lost, passed, MeteringInv, MeteringTyped
    <3> QED BY <1>3, <3>1, <3>2
  <2>2. usage' = [c \in Metered |-> usage'[c]]
    BY DEF WriteRecords, MeteringInv, MeteringTyped
  <2> QED BY <2>1, <2>2
<1>5. prevNetBytes' \in [Metered -> 0..(MaxBytes + 1)]
  <2>1. ASSUME NEW c \in Metered PROVE prevNetBytes'[c] \in 0..(MaxBytes + 1)
    <3>1. prevNetBytes'[c] \in {prevNetBytes[c], cycle.bytes[c], Unseen}
      BY <1>3 DEF billed, lost, passed
    <3>2. Unseen \in 0..(MaxBytes + 1)
      BY MeteringAssumption DEF Unseen
    <3> QED BY <1>2, <3>1, <3>2
  <2>2. prevNetBytes' = [c \in Metered |-> prevNetBytes'[c]]
    BY DEF WriteRecords
  <2> QED BY <2>1, <2>2
<1>6. MeteringTyped'
  BY <1>1, <1>4, <1>5, NoCycleTyped DEF MeteringInv, MeteringTyped
<1>7. ASSUME NEW c \in Metered
      PROVE  usage'[c].bytes + Grown(traffic[c].counter, prevNetBytes'[c]) <= traffic[c].moved + traffic[c].unread
  <2>1. usage[c].bytes + Grown(traffic[c].counter, prevNetBytes[c]) <= traffic[c].moved + traffic[c].unread
    BY DEF MeteringInv, BytesInv
  <2>2. c \in cycle.owned =>
            usage[c].bytes + Delta(c) + Grown(traffic[c].counter, cycle.bytes[c])
                <= traffic[c].moved + traffic[c].unread
    BY <1>2 DEF MeteringInv, BytesInv, OwnersInv, Listed
  <2>3. /\ Grown(traffic[c].counter, Unseen) = 0
        /\ Grown(traffic[c].counter, prevNetBytes[c]) \in Nat
        /\ Grown(traffic[c].counter, cycle.bytes[c]) \in Nat
    BY <1>2, MeteringAssumption DEF Grown
  <2>4. CASE billed(c)
    BY <1>2, <2>2, <2>3, <2>4 DEF billed
  <2>5. CASE lost(c)
    BY <1>2, <2>2, <2>3, <2>5 DEF lost
  <2>6. CASE passed(c)
    BY <1>2, <2>1, <2>3, <2>6 DEF passed
  <2> QED BY <1>3, <2>4, <2>5, <2>6
<1>8. BytesInv'
  BY <1>1, <1>7, NoCycleTyped DEF BytesInv, Grown, Unseen
<1>9. TimeInv'
  <2>1. ASSUME NEW c \in Metered PROVE Within(usage'[c].seconds)
    <3>1. Within(usage[c].seconds) /\ Within(usage[c].seconds + cycle.interval)
      BY <1>1 DEF MeteringInv, TimeInv
    <3>2. usage'[c].seconds \in {usage[c].seconds, usage[c].seconds + cycle.interval}
      <4>1. CASE billed(c)
        BY <4>1 DEF billed
      <4>2. CASE lost(c) \/ passed(c)
        BY <4>2 DEF lost, passed
      <4> QED BY <1>3, <4>1, <4>2
    <3> QED BY <3>1, <3>2
  <2> QED BY <1>1, <2>1 DEF MeteringInv, TimeInv, Within, Accounted, NoCycle, Never
<1>10. OwnersInv'
  BY <1>1, NoCycleTyped DEF OwnersInv
<1> QED BY <1>6, <1>8, <1>9, <1>10 DEF MeteringInv

\* The stats collector (stats-collector.ts 138-242) bills no byte that was not moved, but for those
\* a reading failed to show, and no second that did not pass, but for those the host's clock was
\* set forward, for any number of containers, cycles and restarts.
THEOREM NoUsageIsInvented == MeteringSpec => []NothingBilledTwice
<1>1. MeteringInv /\ [MeteringNext]_meteringVars => MeteringInv'
  <2> SUFFICES ASSUME MeteringInv, [MeteringNext]_meteringVars PROVE MeteringInv'
    OBVIOUS
  <2>1. CASE UNCHANGED <<clock, traffic, engine, prevNetBytes, cycle, usage>>
    BY <2>1 DEF MeteringInv, MeteringTyped, BytesInv, TimeInv, Within, Accounted, OwnersInv, Listed, Grown,
                NoCycle, Unseen, Never
  <2>2. CASE Tick \/ SetClock
    <3>1. /\ clock \in [time : 0..MaxClock, skew : Int, ahead : Nat]
          /\ UNCHANGED <<traffic, engine, prevNetBytes, cycle, usage>>
      BY <2>2 DEF Tick, SetClock, MeteringInv, MeteringTyped
    <3>2. /\ clock' \in [time : 0..MaxClock, skew : Int, ahead : Nat]
          /\ clock'.time >= clock.time /\ clock'.ahead >= clock.ahead
          /\ clock'.ahead - clock'.skew >= clock.ahead - clock.skew
      <4>1. /\ clock.time \in 0..MaxClock /\ clock.skew \in Int /\ clock.ahead \in Nat
            /\ MaxClock \in Nat
        BY <3>1, MeteringAssumption
      <4>2. \/ /\ clock.time < MaxClock
               /\ clock' = [time |-> clock.time + 1, skew |-> clock.skew, ahead |-> clock.ahead]
            \/ clock' = [time |-> clock.time, skew |-> clock.skew + 1, ahead |-> clock.ahead + 1]
            \/ clock' = [time |-> clock.time, skew |-> clock.skew - 1, ahead |-> clock.ahead]
        BY <2>2, <3>1 DEF Tick, SetClock
      <4> QED BY <4>1, <4>2
    <3>3. Accounted \in Nat /\ Accounted' = Accounted /\ Accounted <= clock'.time
      BY <3>1, <3>2, MeteringAssumption DEF Accounted, MeteringInv, MeteringTyped, TimeInv, Never
    <3>4. \A s \in Nat : Within(s) => Within(s)'
      BY <3>1, <3>2, <3>3 DEF Within, MeteringInv, MeteringTyped, Never
    <3>5. TimeInv'
      <4>1. \A c \in Metered : usage[c].seconds \in Nat /\ usage[c].seconds + cycle.interval \in Nat
        BY DEF MeteringInv, MeteringTyped, Cycle
      <4>2. \A c \in Metered : Within(usage[c].seconds)'
        BY <3>1, <3>4, <4>1 DEF MeteringInv, TimeInv, Within
      <4>3. cycle # NoCycle => \A c \in Metered : Within(usage[c].seconds + cycle.interval)'
        BY <3>1, <3>4, <4>1 DEF MeteringInv, TimeInv, Within
      <4> QED BY <3>1, <3>3, <4>2, <4>3 DEF MeteringInv, TimeInv, NoCycle, Unseen, Never
    <3> QED BY <3>1, <3>2, <3>5 DEF MeteringInv, MeteringTyped, BytesInv, OwnersInv, Listed, Grown, Unseen
  <2>3. CASE StartEngine
    <3>1. prevNetBytes' \in [Metered -> 0..(MaxBytes + 1)] /\ \A c \in Metered : prevNetBytes'[c] = Unseen
      BY <2>3, MeteringAssumption DEF StartEngine, Unseen
    <3> QED BY <2>3, <3>1, NothingWritten DEF StartEngine
  <2>4. CASE CycleFails
    BY <2>4, NothingWritten DEF CycleFails, MeteringInv, MeteringTyped
  <2>5. ASSUME NEW c \in Metered, MoveBytes(c) \/ StartContainer(c) PROVE MeteringInv'
    BY <2>5, TrafficInv
  <2>6. ASSUME NEW c \in Metered, ChangePayer(c) \/ CacheExpires(c) PROVE MeteringInv'
    BY <2>1, <2>6 DEF ChangePayer, CacheExpires
  <2>7. CASE UNCHANGED meteringVars
    BY <2>1, <2>7 DEF meteringVars
  <2> QED BY <2>2, <2>3, <2>4, <2>5, <2>6, <2>7, StartCycleInv, ReadStatsInv, ResolveOwnersInv,
             WriteRecordsInv DEF MeteringNext
<1>2. MeteringInv => NothingBilledTwice
  <2> SUFFICES ASSUME MeteringInv, NEW c \in Metered
               PROVE  /\ usage[c].bytes <= traffic[c].moved + traffic[c].unread
                      /\ usage[c].seconds <= clock.time + clock.ahead
    BY DEF NothingBilledTwice
  <2>1. /\ usage[c].bytes \in Nat /\ usage[c].seconds \in Nat /\ clock.time \in Nat /\ clock.ahead \in Nat
        /\ traffic[c].moved \in Nat /\ traffic[c].unread \in Nat
        /\ traffic[c].counter \in Nat /\ prevNetBytes[c] \in Nat
    BY MeteringAssumption DEF MeteringInv, MeteringTyped
  <2>2. usage[c].bytes <= traffic[c].moved + traffic[c].unread
    BY <2>1 DEF MeteringInv, BytesInv, Grown
  <2>3. Accounted \in Nat /\ Accounted <= clock.time /\ usage[c].seconds <= Accounted + clock.ahead
    BY MeteringAssumption DEF Accounted, MeteringInv, MeteringTyped, TimeInv, Within
  <2> QED BY <2>1, <2>2, <2>3
<1> QED BY MeteringInitInv, <1>1, <1>2, PTL DEF MeteringSpec

-----------------------------------------------------------------------------
(* SecurityIncidents *)

Statuses == {"none", "open", "appealed", "resolved"}
Incident == [reason : Reasons \cup {"none"}, status : Statuses, blocked : BOOLEAN, recent : BOOLEAN]
Recorder == [at : {"none", "find", "update", "create"}, reason : Reasons \cup {"none"}, incident : 0..MaxIncidents]
Appeal == [at : {"none", "find", "create", "mark"}, member : Members \cup {"none"},
           incident : 0..MaxIncidents, open : BOOLEAN]

SecurityTyped ==
    /\ incidents \in [IncidentIds -> Incident]
    /\ submitted \in [Members \X IncidentIds -> Nat]
    /\ recorder \in Recorder
    /\ recorder.at = "update" => recorder.incident \in IncidentIds
    /\ appealing \in [Appealing -> Appeal]
    /\ \A r \in Appealing : appealing[r].at # "none" =>
          appealing[r].member \in Members /\ appealing[r].incident \in IncidentIds
    /\ admins \in [Admins -> 0..MaxIncidents]

Closable(i) == incidents[i].blocked <=> incidents[i].status \in {"open", "appealed"}

SecurityInv ==
    /\ SecurityTyped
    /\ \A i \in IncidentIds \ crossed :
          /\ Closable(i)
          /\ \A m \in Members : submitted[<<m, i>>] > 0 => incidents[i].blocked
          /\ \A r \in Appealing : appealing[r].at # "none" /\ appealing[r].incident = i => incidents[i].blocked

\* Two fields of an incident written at once.
LEMMA TwoFields ==
    ASSUME NEW z \in Incident, NEW b, NEW s
    PROVE  [[z EXCEPT !.blocked = b] EXCEPT !.status = s]
             = [reason |-> z.reason, status |-> s, blocked |-> b, recent |-> z.recent]
<1> DEFINE y == [z EXCEPT !.blocked = b]
<1>1. y = [reason |-> z.reason, status |-> z.status, blocked |-> b, recent |-> z.recent]
  BY DEF Incident
<1>2. y \in [reason : {z.reason}, status : {z.status}, blocked : {b}, recent : {z.recent}]
  BY <1>1
<1> HIDE DEF y
<1>3. [y EXCEPT !.status = s] = [reason |-> z.reason, status |-> s, blocked |-> b, recent |-> z.recent]
  BY <1>2
<1> QED BY <1>3 DEF y

LEMMA OneField ==
    ASSUME NEW z \in Incident, NEW b
    PROVE  [z EXCEPT !.recent = b]
             = [reason |-> z.reason, status |-> z.status, blocked |-> z.blocked, recent |-> b]
BY DEF Incident

LEMMA SecurityInitInv == SecurityInit => SecurityInv
<1> SUFFICES ASSUME SecurityInit PROVE SecurityInv
  OBVIOUS
<1>1. 0 \in 0..MaxIncidents
  BY SecurityAssumption
<1>2. SecurityTyped
  <2>1. Unrecorded \in Incident /\ NotRecording \in Recorder /\ NoAppeal \in Appeal
    BY <1>1 DEF Unrecorded, Incident, Statuses, NotRecording, Recorder, NoAppeal, Appeal
  <2>2. NotRecording.at = "none" /\ NoAppeal.at = "none"
    BY DEF NotRecording, NoAppeal
  <2> QED BY <1>1, <2>1, <2>2 DEF SecurityInit, SecurityTyped
<1>3. \A i \in IncidentIds : Closable(i)
  BY DEF SecurityInit, Closable, Unrecorded
<1>4. \A r \in Appealing : appealing[r].at = "none"
  BY DEF SecurityInit, NoAppeal
<1>5. \A m \in Members, i \in IncidentIds : submitted[<<m, i>>] = 0
  BY DEF SecurityInit
<1> QED BY <1>2, <1>3, <1>4, <1>5 DEF SecurityInv

\* The recorder, or the passing of the window, writes one incident: it stays blocked, or becomes so.
LEMMA IncidentWritten ==
    ASSUME SecurityInv, UNCHANGED <<submitted, appealing, admins, crossed>>, NEW i \in IncidentIds,
           NEW x \in Incident, incidents' = [incidents EXCEPT ![i] = x],
           \/ x.blocked /\ x.status = "open"
           \/ x.blocked = incidents[i].blocked /\ x.status = incidents[i].status,
           recorder' \in {recorder, NotRecording}
    PROVE  SecurityInv'
<1>1. NotRecording \in Recorder /\ NotRecording.at = "none"
  BY SecurityAssumption DEF NotRecording, Recorder
<1>2. SecurityTyped'
  BY <1>1 DEF SecurityInv, SecurityTyped
<1>3. incidents'[i] = x /\ \A j \in IncidentIds \ {i} : incidents'[j] = incidents[j]
  BY DEF SecurityInv, SecurityTyped
<1> QED BY <1>2, <1>3 DEF SecurityInv, Closable

LEMMA RecorderInv ==
    ASSUME SecurityInv,
           \/ \E reason \in Reasons : BlockContainer(reason)
           \/ RestartContainer \/ FindExisting \/ RecordFails
    PROVE  SecurityInv'
<1>1. UNCHANGED <<incidents, submitted, appealing, admins, crossed>>
  BY DEF BlockContainer, RestartContainer, FindExisting, RecordFails
<1>2. recorder' \in Recorder /\ (recorder'.at = "update" => recorder'.incident \in IncidentIds)
  <2>1. CASE \E reason \in Reasons : BlockContainer(reason)
    BY <2>1, SecurityAssumption DEF BlockContainer, Recorder
  <2>2. CASE RestartContainer
    BY <2>2 DEF RestartContainer, SecurityInv, SecurityTyped
  <2>3. CASE FindExisting
    <3>1. recorder \in Recorder
      BY DEF SecurityInv, SecurityTyped
    <3>2. CASE recorder' = [recorder EXCEPT !.at = "create"]
      BY <3>1, <3>2 DEF Recorder
    <3>3. ASSUME NEW i \in IncidentIds, recorder' = [recorder EXCEPT !.at = "update", !.incident = i]
          PROVE  recorder' \in Recorder /\ recorder'.incident \in IncidentIds
      <4>1. i \in 0..MaxIncidents
        BY SecurityAssumption DEF IncidentIds
      <4> QED BY <3>1, <3>3, <4>1 DEF Recorder
    <3>4. recorder'.at = "update" => \E i \in IncidentIds : recorder' = [recorder EXCEPT !.at = "update", !.incident = i]
      BY <2>3, <3>1 DEF FindExisting, Recorder, Existing
    <3> QED BY <2>3, <3>2, <3>3, <3>4 DEF FindExisting, Existing
  <2>4. CASE RecordFails
    BY <2>4, SecurityAssumption DEF RecordFails, NotRecording, Recorder
  <2> QED BY <2>1, <2>2, <2>3, <2>4
<1>3. SecurityTyped'
  BY <1>1, <1>2 DEF SecurityInv, SecurityTyped
<1> QED BY <1>1, <1>3 DEF SecurityInv, Closable

LEMMA RecordedInv ==
    ASSUME SecurityInv, OpenAgain \/ NewIncident \/ (\E i \in IncidentIds : WindowPasses(i))
    PROVE  SecurityInv'
<1>1. incidents \in [IncidentIds -> Incident] /\ recorder \in Recorder
  BY DEF SecurityInv, SecurityTyped
<1>2. CASE OpenAgain
  <2> DEFINE i == recorder.incident
             x == [reason |-> incidents[i].reason, status |-> "open", blocked |-> TRUE, recent |-> incidents[i].recent]
  <2>1. i \in IncidentIds /\ x \in Incident
    BY <1>1, <1>2 DEF OpenAgain, SecurityInv, SecurityTyped, Incident, Statuses
  <2>2. incidents' = [incidents EXCEPT ![i] = x]
    <3> DEFINE w == [[incidents[i] EXCEPT !.blocked = TRUE] EXCEPT !.status = "open"]
    <3>1. w = x
      BY <1>1, <2>1, TwoFields
    <3>2. incidents' = [incidents EXCEPT ![i] = w]
      BY <1>1, <1>2, <2>1 DEF OpenAgain
    <3> HIDE DEF w, x
    <3> QED BY <3>1, <3>2
  <2> QED BY <1>2, <2>1, <2>2, IncidentWritten DEF OpenAgain
<1>3. CASE NewIncident
  <2> DEFINE x == [reason |-> recorder.reason, status |-> "open", blocked |-> TRUE, recent |-> TRUE]
  <2>1. x \in Incident /\ x.blocked /\ x.status = "open"
    BY <1>1 DEF Recorder, Incident, Statuses
  <2>2. PICK i \in IncidentIds : incidents' = [incidents EXCEPT ![i] = x]
    BY <1>3 DEF NewIncident
  <2> HIDE DEF x
  <2> QED BY <1>3, <2>1, <2>2, IncidentWritten DEF NewIncident
<1>4. ASSUME NEW i \in IncidentIds, WindowPasses(i) PROVE SecurityInv'
  <2> DEFINE x == [reason |-> incidents[i].reason, status |-> incidents[i].status,
                   blocked |-> incidents[i].blocked, recent |-> FALSE]
  <2>1. x \in Incident
    BY <1>1 DEF Incident
  <2>2. incidents' = [incidents EXCEPT ![i] = x]
    <3> DEFINE w == [incidents[i] EXCEPT !.recent = FALSE]
    <3>1. w = x
      <4> incidents[i] \in Incident
        BY <1>1
      <4> QED BY OneField
    <3>2. incidents' = [incidents EXCEPT ![i] = w]
      BY <1>1, <1>4 DEF WindowPasses
    <3> HIDE DEF w, x
    <3> QED BY <3>1, <3>2
  <2> QED BY <1>4, <2>1, <2>2, IncidentWritten DEF WindowPasses
<1> QED BY <1>2, <1>3, <1>4

\* An appeal request that goes on with the same incident, or ends.
LEMMA AppealMoves ==
    ASSUME SecurityInv, NEW r \in Appealing, NEW y \in Appeal,
           appealing' = [appealing EXCEPT ![r] = y],
           y.at # "none" => y.member \in Members /\ y.incident \in IncidentIds,
           y.at # "none" =>
              \/ incidents[y.incident].blocked
              \/ appealing[r].at # "none" /\ y.incident = appealing[r].incident,
           UNCHANGED <<incidents, submitted, recorder, admins, crossed>>
    PROVE  SecurityInv'
<1>1. appealing'[r] = y /\ \A q \in Appealing \ {r} : appealing'[q] = appealing[q]
  BY DEF SecurityInv, SecurityTyped
<1>2. SecurityTyped'
  BY <1>1 DEF SecurityInv, SecurityTyped
<1>3. ASSUME NEW i \in IncidentIds \ crossed, NEW q \in Appealing, appealing'[q].at # "none",
             appealing'[q].incident = i
      PROVE  incidents[i].blocked
  BY <1>1, <1>3 DEF SecurityInv
<1> QED BY <1>2, <1>3 DEF SecurityInv, Closable

LEMMA AppealInv ==
    ASSUME SecurityInv, NEW r \in Appealing,
           \/ \E m \in Members, i \in IncidentIds : ReadIncident(r, m, i)
           \/ FindAppeal(r) \/ AppealFails(r)
    PROVE  SecurityInv'
<1>1. appealing[r] \in Appeal
  BY DEF SecurityInv, SecurityTyped
<1>2. NoAppeal \in Appeal /\ NoAppeal.at = "none"
  BY SecurityAssumption DEF NoAppeal, Appeal
<1>3. ASSUME NEW m \in Members, NEW i \in IncidentIds, ReadIncident(r, m, i) PROVE SecurityInv'
  <2> DEFINE y == [at |-> "find", member |-> m, incident |-> i, open |-> incidents[i].status = "open"]
  <2>1. y \in Appeal /\ y.at = "find" /\ y.member = m /\ y.incident = i
    BY SecurityAssumption DEF IncidentIds, Appeal
  <2>2. appealing' = [appealing EXCEPT ![r] = y] /\ incidents[i].blocked
    BY <1>3 DEF ReadIncident
  <2> HIDE DEF y
  <2> QED BY <1>3, <2>1, <2>2, AppealMoves DEF ReadIncident
<1>4. ASSUME AppealGo(r, "create"), appealing[r].at = "find",
             UNCHANGED <<incidents, submitted, recorder, admins, crossed>>
      PROVE  SecurityInv'
  <2> DEFINE y == [appealing[r] EXCEPT !.at = "create"]
  <2>1. y \in Appeal /\ y.at = "create" /\ y.member = appealing[r].member /\ y.incident = appealing[r].incident
    BY <1>1 DEF Appeal
  <2>2. appealing' = [appealing EXCEPT ![r] = y]
    BY <1>4 DEF AppealGo, SecurityInv, SecurityTyped
  <2> HIDE DEF y
  <2>3. y.member \in Members /\ y.incident \in IncidentIds
    BY <1>4, <2>1 DEF SecurityInv, SecurityTyped
  <2> QED BY <1>4, <2>1, <2>2, <2>3, AppealMoves
<1>5. ASSUME EndAppeal(r), UNCHANGED <<incidents, submitted, recorder, admins, crossed>> PROVE SecurityInv'
  BY <1>2, <1>5, AppealMoves DEF EndAppeal
<1> QED BY <1>3, <1>4, <1>5 DEF FindAppeal, AppealFails

LEMMA CreateAppealInv ==
    ASSUME SecurityInv, NEW r \in Appealing, CreateAppeal(r)
    PROVE  SecurityInv'
<1> DEFINE a == appealing[r]
<1>1. a \in Appeal /\ a.at = "create" /\ a.member \in Members /\ a.incident \in IncidentIds
  BY DEF CreateAppeal, SecurityInv, SecurityTyped
<1>2. UNCHANGED <<incidents, recorder, admins, crossed>>
      /\ submitted' = [submitted EXCEPT ![<<a.member, a.incident>>] = @ + 1]
  BY DEF CreateAppeal
<1>3. /\ appealing' \in [Appealing -> Appeal]
      /\ \A q \in Appealing : appealing'[q].at # "none" =>
            /\ appealing[q].at # "none"
            /\ appealing'[q].member = appealing[q].member /\ appealing'[q].incident = appealing[q].incident
  <2>1. NoAppeal \in Appeal /\ NoAppeal.at = "none"
    BY SecurityAssumption DEF NoAppeal, Appeal
  <2>2. [a EXCEPT !.at = "mark"] \in Appeal /\ [a EXCEPT !.at = "mark"].member = a.member
        /\ [a EXCEPT !.at = "mark"].incident = a.incident
    BY <1>1 DEF Appeal
  <2>3. \/ appealing' = [appealing EXCEPT ![r] = [a EXCEPT !.at = "mark"]]
        \/ appealing' = [appealing EXCEPT ![r] = NoAppeal]
    BY DEF CreateAppeal, AppealGo, EndAppeal, SecurityInv, SecurityTyped
  <2>4. appealing \in [Appealing -> Appeal]
    BY DEF SecurityInv, SecurityTyped
  <2> QED BY <1>1, <2>1, <2>2, <2>3, <2>4
<1>4. submitted' \in [Members \X IncidentIds -> Nat]
  BY <1>1, <1>2 DEF SecurityInv, SecurityTyped
<1>5. SecurityTyped'
  BY <1>2, <1>3, <1>4 DEF SecurityInv, SecurityTyped
<1>6. ASSUME NEW i \in IncidentIds \ crossed, NEW m \in Members, submitted'[<<m, i>>] > 0
      PROVE  incidents[i].blocked
  <2>1. CASE i = a.incident
    BY <1>1, <2>1 DEF SecurityInv
  <2>2. CASE i # a.incident
    <3>1. submitted'[<<m, i>>] = submitted[<<m, i>>]
      BY <1>1, <1>2, <2>2 DEF SecurityInv, SecurityTyped
    <3> QED BY <1>6, <3>1 DEF SecurityInv
  <2> QED BY <2>1, <2>2
<1> QED BY <1>2, <1>3, <1>5, <1>6 DEF SecurityInv, Closable

LEMMA MarkAppealedInv ==
    ASSUME SecurityInv, NEW r \in Appealing, MarkAppealed(r)
    PROVE  SecurityInv'
<1> DEFINE i == appealing[r].incident
           x == [incidents[i] EXCEPT !.status = "appealed"]
<1>1. /\ i \in IncidentIds /\ appealing[r].at # "none" /\ incidents[i] \in Incident
      /\ incidents \in [IncidentIds -> Incident] /\ appealing \in [Appealing -> Appeal]
  BY DEF MarkAppealed, SecurityInv, SecurityTyped
<1>2. x \in Incident /\ x.blocked = incidents[i].blocked /\ x.status = "appealed"
  BY <1>1 DEF Incident, Statuses
<1>3. incidents' = [incidents EXCEPT ![i] = x]
  BY <1>1 DEF MarkAppealed
<1> HIDE DEF x
<1>4. appealing' = [appealing EXCEPT ![r] = NoAppeal] /\ UNCHANGED <<submitted, recorder, admins, crossed>>
  BY DEF MarkAppealed, EndAppeal
<1>5. NoAppeal \in Appeal /\ NoAppeal.at = "none"
  BY SecurityAssumption DEF NoAppeal, Appeal
<1>6. SecurityTyped'
  BY <1>1, <1>2, <1>3, <1>4, <1>5 DEF SecurityInv, SecurityTyped
<1>7. i \notin crossed => incidents[i].blocked
  BY <1>1 DEF SecurityInv
<1>8. \A q \in Appealing : appealing'[q].at # "none" => appealing'[q] = appealing[q]
  BY <1>1, <1>4, <1>5
<1>9. \A j \in IncidentIds : incidents'[j].blocked = incidents[j].blocked
                             /\ (j # i => incidents'[j] = incidents[j])
  BY <1>1, <1>2, <1>3
<1>10. incidents'[i].status = "appealed"
  BY <1>1, <1>2, <1>3
<1>11. \A j \in IncidentIds \ crossed : Closable(j)'
  BY <1>7, <1>9, <1>10 DEF SecurityInv, Closable
<1> QED BY <1>4, <1>6, <1>8, <1>9, <1>11 DEF SecurityInv

LEMMA UnblockInv ==
    ASSUME SecurityInv, NEW a \in Admins, Unblock(a)
    PROVE  SecurityInv'
<1> DEFINE i == admins[a]
           x == [reason |-> incidents[i].reason, status |-> "resolved", blocked |-> FALSE, recent |-> incidents[i].recent]
<1>1. /\ i \in IncidentIds /\ incidents[i] \in Incident
      /\ incidents \in [IncidentIds -> Incident] /\ admins \in [Admins -> 0..MaxIncidents]
      /\ submitted \in [Members \X IncidentIds -> Nat]
  BY SecurityAssumption DEF Unblock, SecurityInv, SecurityTyped, IncidentIds
<1>2. x \in Incident
  BY <1>1 DEF Incident, Statuses
<1>3. incidents' = [incidents EXCEPT ![i] = x]
  <2> DEFINE w == [[incidents[i] EXCEPT !.blocked = FALSE] EXCEPT !.status = "resolved"]
  <2>1. w = x
    BY <1>1, TwoFields
  <2>2. incidents' = [incidents EXCEPT ![i] = w]
    BY <1>1 DEF Unblock
  <2> HIDE DEF w, x
  <2> QED BY <2>1, <2>2
<1>4. /\ submitted' = [p \in DOMAIN submitted |-> IF p \in Members \X {i} THEN 0 ELSE submitted[p]]
      /\ admins' = [admins EXCEPT ![a] = 0] /\ UNCHANGED <<recorder, appealing>>
      /\ crossed \subseteq crossed'
      /\ (\E r \in Appealing : appealing[r].incident = i) => i \in crossed'
  BY DEF Unblock, Decided
<1>5. SecurityTyped'
  <2>1. submitted' \in [Members \X IncidentIds -> Nat]
    BY <1>1, <1>4
  <2>2. admins' \in [Admins -> 0..MaxIncidents]
    BY <1>1, <1>4, SecurityAssumption
  <2> QED BY <1>1, <1>2, <1>3, <1>4, <2>1, <2>2 DEF SecurityInv, SecurityTyped
<1>6. incidents'[i] = x /\ \A j \in IncidentIds \ {i} : incidents'[j] = incidents[j]
  BY <1>1, <1>3
<1>7. ASSUME NEW j \in IncidentIds \ crossed'
      PROVE  /\ Closable(j)'
             /\ \A m \in Members : submitted'[<<m, j>>] > 0 => incidents'[j].blocked
             /\ \A r \in Appealing : appealing'[r].at # "none" /\ appealing'[r].incident = j => incidents'[j].blocked
  <2>1. CASE j = i
    <3>1. \A m \in Members : submitted'[<<m, j>>] = 0
      BY <1>1, <1>4, <2>1
    <3>2. \A r \in Appealing : appealing[r].incident # i
      BY <1>4, <1>7, <2>1
    <3> QED BY <1>4, <1>6, <2>1, <3>1, <3>2 DEF Closable
  <2>2. CASE j # i
    <3>1. \A m \in Members : submitted'[<<m, j>>] = submitted[<<m, j>>]
      BY <1>1, <1>4, <2>2
    <3> QED BY <1>4, <1>6, <1>7, <2>2, <3>1 DEF SecurityInv, Closable
  <2> QED BY <2>1, <2>2
<1> QED BY <1>5, <1>7 DEF SecurityInv

\* An unblock decides the appeals that wait (security/routes.ts 471-528), for any numbers of
\* members, incidents, appeals and unblocks at once, and whenever the recorder opens an incident again.
THEOREM AppealsFindADecision == SecuritySpec => []AppealsAreDecided
<1>1. SecurityInv /\ [SecurityNext]_securityVars => SecurityInv'
  <2> SUFFICES ASSUME SecurityInv, [SecurityNext]_securityVars PROVE SecurityInv'
    OBVIOUS
  <2>1. CASE UNCHANGED securityVars
    BY <2>1 DEF securityVars, SecurityInv, SecurityTyped, Closable
  <2>2. CASE (\E reason \in Reasons : BlockContainer(reason)) \/ RestartContainer \/ FindExisting \/ RecordFails
    BY <2>2, RecorderInv
  <2>3. CASE OpenAgain \/ NewIncident \/ \E i \in IncidentIds : WindowPasses(i)
    BY <2>3, RecordedInv
  <2>4. ASSUME NEW r \in Appealing,
               \/ \E m \in Members, i \in IncidentIds : ReadIncident(r, m, i)
               \/ FindAppeal(r) \/ CreateAppeal(r) \/ MarkAppealed(r) \/ AppealFails(r)
        PROVE  SecurityInv'
    BY <2>4, AppealInv, CreateAppealInv, MarkAppealedInv
  <2>5. ASSUME NEW a \in Admins, Unblock(a) PROVE SecurityInv'
    BY <2>5, UnblockInv
  <2>6. ASSUME NEW a \in Admins, NEW i \in IncidentIds, ReadBlocked(a, i) PROVE SecurityInv'
    <3>1. i \in 0..MaxIncidents
      BY SecurityAssumption DEF IncidentIds
    <3>2. SecurityTyped'
      BY <2>6, <3>1 DEF ReadBlocked, SecurityInv, SecurityTyped
    <3> QED BY <2>6, <3>2 DEF ReadBlocked, SecurityInv, Closable
  <2> QED BY <2>1, <2>2, <2>3, <2>4, <2>5, <2>6 DEF SecurityNext
<1>2. SecurityInv => AppealsAreDecided
  BY DEF SecurityInv, Closable, AppealsAreDecided
<1> QED BY SecurityInitInv, <1>1, <1>2, PTL DEF SecuritySpec

-----------------------------------------------------------------------------
(* DevContainers *)

\* The number of rows, and what is asked of a request that is served.
Busy(q) == asking[q] # NoAsking
Stage(does, at) == [does : does, at : at, id : Nat, wipe : BOOLEAN, alone : BOOLEAN]
Request ==
    {NoAsking} \cup Stage({"create"}, {"remove", "volume", "run", "clone", "row"})
               \cup Stage({"start", "stop"}, {"docker", "update"})
               \cup Stage({"delete"}, {"docker", "wipe"})

DevTyped ==
    /\ devRows \in Seq(DevRow) /\ made \in Nat
    /\ named \in [id : Nat, runs : BOOLEAN]
    /\ volume \in {"none", "empty", "files"}
    /\ asking \in [DevRequests -> Request]
    /\ upset \in BOOLEAN

\* A container that a request has made and given no row yet.
Rowless(q) == asking[q].at \in {"clone", "row"}

\* No two rows are of one container, and none is of a container that is still to get its row.
RowsApart ==
    /\ \A i \in DOMAIN devRows : devRows[i].id <= made
    /\ \A i, j \in DOMAIN devRows : devRows[i].id = devRows[j].id => i = j
    /\ \A q \in DevRequests : Rowless(q) =>
          /\ asking[q].id <= made
          /\ \A i \in DOMAIN devRows : devRows[i].id # asking[q].id
          /\ \A r \in DevRequests : Rowless(r) /\ asking[r].id = asking[q].id => r = q

\* Who is alone has been so since the request began; while nothing is upset, everyone is.
AloneInv ==
    /\ \A q, r \in DevRequests : Busy(q) /\ asking[q].alone /\ Busy(r) => r = q
    /\ ~upset => \A q \in DevRequests : Busy(q) => asking[q].alone

\* What the docker commands of a request that is alone have done, from its newest row.
Stopped(i) == devRows[i].status = "stopped"
AllStopped == \A i \in DOMAIN devRows : Stopped(i)
OlderStopped == \A i \in DOMAIN devRows : i # Len(devRows) => Stopped(i)
Fits ==
    /\ AllStopped => ~named.runs
    /\ ~AllStopped => named = [id |-> devRows[Len(devRows)].id, runs |-> TRUE]
OfNewest(q) == devRows # <<>> /\ asking[q].id = devRows[Len(devRows)].id

StageInv(q) ==
    /\ asking[q].does = "create" => AllStopped
    /\ asking[q].at \in {"remove", "volume", "run"} => ~named.runs
    /\ asking[q].does \in {"start", "stop", "delete"} => OfNewest(q)
    /\ asking[q].at = "docker" => Fits
    /\ asking[q].at = "update" => named.id = asking[q].id /\ named.runs = (asking[q].does = "start")
    /\ asking[q].at = "wipe" => ~named.runs

Follows ==
    /\ \A q \in DevRequests : Rowless(q) /\ asking[q].alone => named = [id |-> asking[q].id, runs |-> TRUE]
    /\ ~upset => OlderStopped /\ \A q \in DevRequests : Busy(q) => StageInv(q)
    /\ ~upset /\ (\A q \in DevRequests : ~Busy(q)) => Fits

DevInv == DevTyped /\ RowsApart /\ AloneInv /\ Follows

WithAlone(x, b) == [x EXCEPT !.alone = b]

LEMMA NoAskingFacts == NoAsking \in Request /\ NoAsking.does = "nothing" /\ NoAsking.at = "none"
BY DEF Request, NoAsking

LEMMA RequestFacts ==
    \A x \in Request : x # NoAsking =>
          /\ x.does # "nothing" /\ x.at # "none"
          /\ x.id \in Nat /\ x.alone \in BOOLEAN
          /\ x.does = "create" <=> x.at \in {"remove", "volume", "run", "clone", "row"}
          /\ x.does \in {"create", "start", "stop", "delete"}
          /\ x.at = "update" => x.does \in {"start", "stop"}
          /\ x.at = "wipe" => x.does = "delete"
BY DEF Request, Stage

LEMMA AloneFacts ==
    ASSUME NEW x \in Request, x # NoAsking, NEW b \in BOOLEAN
    PROVE  LET y == WithAlone(x, b) IN
           /\ y \in Request /\ y # NoAsking /\ y.alone = b
           /\ y.does = x.does /\ y.at = x.at /\ y.id = x.id
BY DEF Request, Stage, NoAsking, WithAlone

LEMMA DevInitInv == DevInit => DevInv
<1> SUFFICES ASSUME DevInit PROVE DevInv
  OBVIOUS
<1>1. DevTyped
  <2>1. <<>> \in Seq(DevRow) /\ NoContainer \in [id : Nat, runs : BOOLEAN]
    BY DEF NoContainer
  <2>2. asking \in [DevRequests -> Request]
    BY NoAskingFacts DEF DevInit
  <2> QED BY <2>1, <2>2 DEF DevInit, DevTyped
<1>2. RowsApart /\ AloneInv
  BY NoAskingFacts DEF DevInit, RowsApart, AloneInv, Rowless, Busy
<1>3. Follows
  BY NoAskingFacts DEF DevInit, Follows, Rowless, Busy, OlderStopped, Fits, AllStopped, NoContainer
<1> QED BY <1>1, <1>2, <1>3 DEF DevInv

\* What a request must find when it begins alone.
Begins(request) ==
    /\ request.does = "create" => AllStopped /\ ~named.runs
    /\ request.does \in {"start", "stop", "delete"} => devRows # <<>> /\ request.id = devRows[Len(devRows)].id
    /\ request.at \in {"docker", "remove"}

LEMMA DevBeginsInv ==
    ASSUME DevInv, NEW q \in DevRequests, NEW request \in Request, request # NoAsking,
           request.at \in {"docker", "remove"}, DevBegins(q, request),
           Fits /\ OlderStopped => Begins(request)
    PROVE  DevInv'
<1> DEFINE others == {other \in DevRequests : asking[other] # NoAsking}
<1>1. /\ asking[q] = NoAsking
      /\ asking' = [other \in DevRequests |->
           IF other = q THEN [request EXCEPT !.alone = (others = {})]
           ELSE IF other \in others THEN [asking[other] EXCEPT !.alone = FALSE]
           ELSE asking[other]]
      /\ upset' = (upset \/ others # {})
      /\ UNCHANGED <<devRows, made, named, volume>>
  BY DEF DevBegins
<1>2. asking \in [DevRequests -> Request]
  BY DEF DevInv, DevTyped
<1>3. /\ asking'[q] \in Request /\ asking'[q] # NoAsking
      /\ asking'[q].alone <=> others = {}
      /\ asking'[q].does = request.does /\ asking'[q].at = request.at /\ asking'[q].id = request.id
  <2>1. CASE others = {}
    <3>1. asking'[q] = WithAlone(request, TRUE)
      BY <1>1, <2>1 DEF WithAlone
    <3>2. asking'[q] \in Request /\ asking'[q] # NoAsking /\ asking'[q].alone = TRUE
          /\ asking'[q].does = request.does /\ asking'[q].at = request.at /\ asking'[q].id = request.id
      BY <3>1, AloneFacts
    <3> QED BY <2>1, <3>2
  <2>2. CASE others # {}
    <3>1. asking'[q] = WithAlone(request, FALSE)
      BY <1>1, <2>2 DEF WithAlone
    <3> QED BY <2>2, <3>1, AloneFacts
  <2> QED BY <2>1, <2>2
<1>4. ASSUME NEW r \in DevRequests, r # q
      PROVE  /\ asking'[r] \in Request /\ (asking'[r] # NoAsking <=> asking[r] # NoAsking)
             /\ asking'[r] # NoAsking => ~asking'[r].alone
             /\ asking'[r].does = asking[r].does /\ asking'[r].at = asking[r].at /\ asking'[r].id = asking[r].id
  <2>1. CASE asking[r] = NoAsking
    BY <1>1, <1>4, <2>1, NoAskingFacts
  <2>2. CASE asking[r] # NoAsking
    <3>1. asking'[r] = WithAlone(asking[r], FALSE) /\ asking[r] \in Request
      BY <1>1, <1>2, <1>4, <2>2 DEF WithAlone
    <3> QED BY <2>2, <3>1, AloneFacts
  <2> QED BY <2>1, <2>2
<1>5. others = {} <=> \A r \in DevRequests : asking[r] = NoAsking
  OBVIOUS
<1>6. DevTyped'
  <2>1. asking' \in [DevRequests -> Request]
    BY <1>1, <1>3, <1>4
  <2> QED BY <1>1, <2>1 DEF DevInv, DevTyped
<1> HIDE DEF others
<1>7. RowsApart'
  BY <1>1, <1>3, <1>4 DEF DevInv, RowsApart, Rowless
<1>8. AloneInv'
  BY <1>1, <1>3, <1>4, <1>5 DEF AloneInv, Busy
<1>9. Follows'
  <2>1. \A r \in DevRequests : ~(Rowless(r)' /\ asking'[r].alone)
    BY <1>1, <1>2, <1>3, <1>4, NoAskingFacts DEF Rowless
  <2>2. ~upset' => OlderStopped' /\ OlderStopped /\ Fits /\ ~upset /\ \A r \in DevRequests : Busy(r)' => r = q
    BY <1>1, <1>4, <1>5 DEF DevInv, Follows, Busy, OlderStopped, Stopped
  <2>3. ASSUME ~upset' PROVE StageInv(q)'
    <3>1. Begins(request) /\ Fits /\ OlderStopped
      BY <1>1, <2>2, <2>3
    <3>2. Fits'
      BY <1>1, <3>1 DEF Fits, AllStopped, Stopped
    <3> QED BY <1>1, <1>3, <3>1, <3>2, RequestFacts DEF Begins, StageInv, OfNewest, AllStopped, Stopped
  <2>4. Busy(q)'
    BY <1>3 DEF Busy
  <2> QED BY <2>1, <2>2, <2>3, <2>4 DEF Follows
<1> QED BY <1>6, <1>7, <1>8, <1>9 DEF DevInv

LEMMA AskingInv ==
    ASSUME DevInv, NEW q \in DevRequests, AskCreate(q) \/ AskStart(q) \/ AskStop(q) \/ AskDelete(q)
    PROVE  DevInv'
<1>1. Newest # NoDevRow <=> devRows # <<>>
  BY NoDevRowAssumption DEF DevInv, DevTyped, Newest
<1>2. devRows # <<>> => Newest = devRows[Len(devRows)] /\ Newest \in DevRow /\ Len(devRows) \in DOMAIN devRows
  BY DEF DevInv, DevTyped, Newest
<1>3. CASE AskCreate(q)
  <2> DEFINE request == [NoAsking EXCEPT !.does = "create", !.at = "remove"]
  <2>1. request \in Request /\ request # NoAsking /\ request.at = "remove" /\ request.does = "create"
    BY DEF Request, Stage, NoAsking
  <2>2. Newest # NoDevRow => Newest.status = "stopped"
    BY <1>3 DEF AskCreate
  <2>3. ASSUME Fits, OlderStopped PROVE AllStopped /\ ~named.runs
    BY <1>1, <1>2, <2>2, <2>3 DEF Fits, OlderStopped, AllStopped, Stopped
  <2>4. Fits /\ OlderStopped => Begins(request)
    BY <2>1, <2>3 DEF Begins
  <2> QED BY <1>3, <2>1, <2>4, DevBeginsInv DEF AskCreate
<1>4. ASSUME NEW does \in {"start", "stop", "delete"}, NEW wipe \in BOOLEAN, AskRow(q, does, wipe)
      PROVE  DevInv'
  <2> DEFINE request == [does |-> does, at |-> "docker", id |-> Newest.id, wipe |-> wipe, alone |-> TRUE]
  <2>1. devRows # <<>> /\ DevBegins(q, request)
    BY <1>1, <1>4 DEF AskRow
  <2>2. request \in Request /\ request # NoAsking /\ request.at = "docker" /\ request.does # "create"
    BY <1>2, <2>1 DEF Request, Stage, NoAsking, DevRow
  <2>3. Begins(request)
    BY <1>2, <2>1, <2>2 DEF Begins
  <2> QED BY <2>1, <2>2, <2>3, DevBeginsInv
<1> QED BY <1>3, <1>4 DEF AskStart, AskStop, AskDelete

At(x, at) == [x EXCEPT !.at = at]

LEMMA AtFacts ==
    ASSUME NEW x \in Request, x # NoAsking, NEW at,
           \/ x.does = "create" /\ at \in {"volume", "run", "clone", "row"}
           \/ x.does \in {"start", "stop"} /\ at = "update"
           \/ x.does = "delete" /\ at = "wipe"
    PROVE  LET y == At(x, at) IN
           /\ y \in Request /\ y # NoAsking /\ y.at = at
           /\ y.alone = x.alone /\ y.does = x.does /\ y.id = x.id
BY DEF Request, Stage, NoAsking, At

\* A request that is served goes on or ends.
LEMMA OwnMove ==
    ASSUME DevInv, NEW q \in DevRequests, Busy(q), NEW x \in Request,
           asking' = [asking EXCEPT ![q] = x],
           x # NoAsking => x.alone = asking[q].alone,
           ~upset' => ~upset \/ (x = NoAsking /\ asking[q].alone)
    PROVE  /\ asking' \in [DevRequests -> Request] /\ AloneInv'
           /\ asking'[q] = x /\ \A r \in DevRequests : r # q => asking'[r] = asking[r]
           /\ ~upset \/ ~upset' \/ asking[q].alone => \A r \in DevRequests : r # q => ~Busy(r)
           /\ asking[q] \in Request /\ asking[q] # NoAsking
           /\ \A r \in DevRequests : r # q => ~(Rowless(r) /\ asking[r].alone)
<1>1. asking \in [DevRequests -> Request] /\ AloneInv
  BY DEF DevInv, DevTyped
<1>2. /\ asking' \in [DevRequests -> Request] /\ asking'[q] = x
      /\ \A r \in DevRequests : r # q => asking'[r] = asking[r]
      /\ asking[q] \in Request /\ asking[q] # NoAsking
  BY <1>1 DEF Busy
<1>3. ~upset \/ ~upset' \/ asking[q].alone => \A r \in DevRequests : r # q => ~Busy(r)
  BY <1>1 DEF AloneInv
<1>4. AloneInv'
  BY <1>1, <1>2, <1>3 DEF AloneInv, Busy
<1>5. \A r \in DevRequests : r # q => ~(Rowless(r) /\ asking[r].alone)
  BY <1>1, NoAskingFacts DEF AloneInv, Busy, Rowless
<1> QED BY <1>2, <1>3, <1>4, <1>5

\* A create goes on, and its container is not made by this step.
LEMMA CreateGoesInv ==
    ASSUME DevInv, NEW q \in DevRequests, NEW at, DevGoes(q, at), asking[q].does = "create",
           \/ asking[q].at \in {"remove", "volume"} /\ at \in {"volume", "run"} /\ named' \in {NoContainer, named}
           \/ asking[q].at = "clone" /\ at = "row" /\ named' = named,
           UNCHANGED <<devRows, made, upset>>, volume' \in {"none", "empty", "files"}
    PROVE  DevInv'
<1>1. Busy(q) /\ asking \in [DevRequests -> Request]
  BY NoAskingFacts DEF Busy, DevInv, DevTyped
<1> DEFINE x == At(asking[q], at)
<1>2. /\ x \in Request /\ x # NoAsking /\ x.at = at
      /\ x.alone = asking[q].alone /\ x.does = asking[q].does /\ x.id = asking[q].id
  BY <1>1, AtFacts DEF Busy
<1>3. asking' = [asking EXCEPT ![q] = x]
  BY <1>1 DEF DevGoes, At
<1> HIDE DEF x
<1>4. /\ asking' \in [DevRequests -> Request] /\ AloneInv'
      /\ asking'[q] = x /\ \A r \in DevRequests : r # q => asking'[r] = asking[r]
      /\ ~upset \/ ~upset' \/ asking[q].alone => \A r \in DevRequests : r # q => ~Busy(r)
      /\ \A r \in DevRequests : r # q => ~(Rowless(r) /\ asking[r].alone)
  BY <1>1, <1>2, <1>3, OwnMove
<1>5. DevTyped'
  <2>1. named' \in [id : Nat, runs : BOOLEAN]
    <3>1. NoContainer \in [id : Nat, runs : BOOLEAN] /\ named \in [id : Nat, runs : BOOLEAN]
      BY DEF DevInv, DevTyped, NoContainer
    <3>2. named' = NoContainer \/ named' = named
      OBVIOUS
    <3> QED BY <3>1, <3>2
  <2> QED BY <1>4, <2>1 DEF DevInv, DevTyped
<1>6. \A r \in DevRequests : (Rowless(r)' <=> Rowless(r)) /\ asking'[r].id = asking[r].id
  BY <1>2, <1>4 DEF Rowless
<1>7. RowsApart'
  BY <1>6 DEF DevInv, RowsApart
<1>8. Follows'
  <2>1. \A r \in DevRequests : (Rowless(r) /\ asking[r].alone)' => named' = [id |-> asking'[r].id, runs |-> TRUE]
    BY <1>2, <1>4, <1>6 DEF DevInv, Follows, Rowless
  <2>2. ASSUME ~upset' PROVE OlderStopped' /\ StageInv(q)' /\ \A r \in DevRequests : Busy(r)' => r = q
    <3>1. OlderStopped /\ StageInv(q)
      BY <1>1, <2>2 DEF DevInv, Follows
    <3>2. \A r \in DevRequests : Busy(r)' => r = q
      BY <1>4, <2>2 DEF Busy
    <3>3. OlderStopped'
      BY <3>1 DEF OlderStopped, Stopped
    <3>4. StageInv(q)'
      BY <1>2, <1>4, <3>1 DEF StageInv, AllStopped, Stopped, NoContainer
    <3> QED BY <3>2, <3>3, <3>4
  <2>3. Busy(q)'
    BY <1>2, <1>4 DEF Busy
  <2> QED BY <2>1, <2>2, <2>3 DEF Follows
<1> QED BY <1>4, <1>5, <1>7, <1>8 DEF DevInv

Made(x, n) == [x EXCEPT !.at = "clone", !.id = n]

LEMMA MadeFacts ==
    ASSUME NEW x \in Stage({"create"}, {"remove", "volume", "run", "clone", "row"}), NEW n \in Nat
    PROVE  LET y == Made(x, n) IN
           /\ y \in Stage({"create"}, {"remove", "volume", "run", "clone", "row"})
           /\ y.at = "clone" /\ y.alone = x.alone /\ y.does = "create" /\ y.id = n
BY DEF Stage, Made

LEMMA RunContainerInv == ASSUME DevInv, NEW q \in DevRequests, RunContainer(q) PROVE DevInv'
<1>1. Busy(q) /\ asking \in [DevRequests -> Request] /\ made \in Nat
  BY NoAskingFacts DEF RunContainer, Busy, DevInv, DevTyped
<1> DEFINE x == Made(asking[q], made + 1)
<1>2. asking[q] \in Stage({"create"}, {"remove", "volume", "run", "clone", "row"})
  BY <1>1 DEF RunContainer, Busy, Request, Stage
<1>3. /\ x \in Request /\ x # NoAsking /\ x.at = "clone"
      /\ x.alone = asking[q].alone /\ x.does = "create" /\ x.id = made + 1
  <2>1. x \in Stage({"create"}, {"remove", "volume", "run", "clone", "row"}) /\ x.at = "clone"
        /\ x.alone = asking[q].alone /\ x.does = "create" /\ x.id = made + 1
    <3>1. made + 1 \in Nat
      BY <1>1
    <3> QED BY <1>2, <3>1, MadeFacts
  <2> HIDE DEF x
  <2> QED BY <2>1, NoAskingFacts DEF Request
<1>4. asking' = [asking EXCEPT ![q] = x]
  BY <1>1 DEF RunContainer, Made
<1>5. named' = [id |-> made + 1, runs |-> TRUE] /\ made' = made + 1 /\ UNCHANGED <<devRows, volume, upset>>
      /\ ~Rowless(q) /\ asking[q].does = "create"
  BY <1>2 DEF RunContainer, Rowless, Stage
<1> HIDE DEF x
<1>6. /\ asking' \in [DevRequests -> Request] /\ AloneInv'
      /\ asking'[q] = x /\ \A r \in DevRequests : r # q => asking'[r] = asking[r]
      /\ ~upset \/ ~upset' \/ asking[q].alone => \A r \in DevRequests : r # q => ~Busy(r)
      /\ \A r \in DevRequests : r # q => ~(Rowless(r) /\ asking[r].alone)
  BY <1>1, <1>3, <1>4, <1>5, OwnMove
<1>7. DevTyped'
  BY <1>1, <1>5, <1>6 DEF DevInv, DevTyped
<1>8. RowsApart'
  <2>1. \A i \in DOMAIN devRows : devRows[i].id \in Nat
    <3>1. devRows \in Seq(DevRow)
      BY DEF DevInv, DevTyped
    <3>2. \A i \in DOMAIN devRows : devRows[i] \in DevRow
      BY <3>1
    <3> QED BY <3>2 DEF DevRow
  <2>2. \A r \in DevRequests : r # q => (Rowless(r)' <=> Rowless(r)) /\ asking'[r] = asking[r]
    BY <1>6 DEF Rowless
  <2>3. \A r \in DevRequests : Rowless(r) => asking[r].id \in Nat
    BY <1>1, NoAskingFacts, RequestFacts DEF Rowless
  <2> QED BY <1>1, <1>3, <1>5, <1>6, <2>1, <2>2, <2>3 DEF DevInv, RowsApart
<1>9. Follows'
  <2>1. \A r \in DevRequests : (Rowless(r) /\ asking[r].alone)' => named' = [id |-> asking'[r].id, runs |-> TRUE]
    BY <1>3, <1>5, <1>6 DEF Rowless
  <2>2. ASSUME ~upset' PROVE OlderStopped' /\ StageInv(q)' /\ \A r \in DevRequests : Busy(r)' => r = q
    <3>1. OlderStopped /\ StageInv(q)
      BY <1>1, <1>5, <2>2 DEF DevInv, Follows
    <3>2. \A r \in DevRequests : Busy(r)' => r = q
      BY <1>6, <2>2 DEF Busy
    <3>3. OlderStopped'
      BY <1>5, <3>1 DEF OlderStopped, Stopped
    <3>4. StageInv(q)'
      BY <1>3, <1>5, <1>6, <3>1 DEF StageInv, AllStopped, Stopped
    <3> QED BY <3>2, <3>3, <3>4
  <2>3. Busy(q)'
    BY <1>3, <1>6 DEF Busy
  <2> QED BY <2>1, <2>2, <2>3 DEF Follows
<1> QED BY <1>6, <1>7, <1>8, <1>9 DEF DevInv

\* docker start or stop, or docker rm: the row is not touched, and the name follows or docker failed.
DockerGoes(q, at) ==
    /\ Busy(q) /\ asking[q].at = "docker" /\ DevGoes(q, at)
    /\ \/ asking[q].does \in {"start", "stop"} /\ at = "update"
       \/ asking[q].does = "delete" /\ at = "wipe"
    /\ UNCHANGED <<devRows, made, volume>>
    /\ named' \in [id : Nat, runs : BOOLEAN] /\ upset' \in BOOLEAN /\ (upset => upset')
    /\ ~upset' =>
          /\ at = "update" => named'.id = asking[q].id /\ named'.runs = (asking[q].does = "start")
          /\ at = "wipe" => ~named'.runs

LEMMA DockerInv == ASSUME DevInv, NEW q \in DevRequests, NEW at, DockerGoes(q, at) PROVE DevInv'
<1>1. asking \in [DevRequests -> Request] /\ Busy(q)
  BY DEF DevInv, DevTyped, DockerGoes
<1> DEFINE x == At(asking[q], at)
<1>2. /\ x \in Request /\ x # NoAsking /\ x.at = at
      /\ x.alone = asking[q].alone /\ x.does = asking[q].does /\ x.id = asking[q].id
  BY <1>1, AtFacts DEF Busy, DockerGoes
<1>3. asking' = [asking EXCEPT ![q] = x]
  BY <1>1 DEF DevGoes, At, DockerGoes
<1> HIDE DEF x
<1>4. /\ asking' \in [DevRequests -> Request] /\ AloneInv'
      /\ asking'[q] = x /\ \A r \in DevRequests : r # q => asking'[r] = asking[r]
      /\ ~upset \/ ~upset' \/ asking[q].alone => \A r \in DevRequests : r # q => ~Busy(r)
      /\ \A r \in DevRequests : r # q => ~(Rowless(r) /\ asking[r].alone)
  BY <1>1, <1>2, <1>3, OwnMove DEF DockerGoes
<1>5. DevTyped'
  BY <1>4 DEF DevInv, DevTyped, DockerGoes
<1>6. \A r \in DevRequests : (Rowless(r)' => Rowless(r) /\ r # q) /\ asking'[r].id = asking[r].id
  BY <1>2, <1>4 DEF Rowless, DockerGoes
<1>7. RowsApart'
  BY <1>6 DEF DevInv, RowsApart, DockerGoes
<1>8. Follows'
  <2>1. \A r \in DevRequests : ~(Rowless(r) /\ asking[r].alone)'
    BY <1>4, <1>6
  <2>2. ASSUME ~upset' PROVE OlderStopped' /\ StageInv(q)' /\ \A r \in DevRequests : Busy(r)' => r = q
    <3>1. OlderStopped /\ StageInv(q) /\ UNCHANGED devRows
      BY <1>1, <2>2 DEF DevInv, Follows, DockerGoes
    <3>2. \A r \in DevRequests : Busy(r)' => r = q
      BY <1>4, <2>2 DEF Busy
    <3>3. OlderStopped'
      BY <3>1 DEF OlderStopped, Stopped
    <3>4. /\ x.does \in {"start", "stop", "delete"} /\ at \in {"update", "wipe"}
          /\ at = "update" => named'.id = asking[q].id /\ named'.runs = (asking[q].does = "start")
          /\ at = "wipe" => ~named'.runs
      BY <1>2, <2>2 DEF DockerGoes
    <3>5. OfNewest(q)'
      BY <1>2, <1>4, <3>1, <3>4 DEF OfNewest, StageInv
    <3>6. StageInv(q)'
      BY <1>2, <1>4, <3>4, <3>5 DEF StageInv
    <3> QED BY <3>2, <3>3, <3>6
  <2>3. Busy(q)'
    BY <1>2, <1>4 DEF Busy
  <2> QED BY <2>1, <2>2, <2>3 DEF Follows
<1> QED BY <1>4, <1>5, <1>7, <1>8 DEF DevInv

LEMMA CommandsInv ==
    ASSUME DevInv, NEW q \in DevRequests, DockerCommand(q) \/ RemoveNamed(q)
    PROVE  DevInv'
<1>1. named \in [id : Nat, runs : BOOLEAN] /\ upset \in BOOLEAN
      /\ NoContainer \in [id : Nat, runs : BOOLEAN] /\ NoContainer.runs = FALSE
  BY DEF DevInv, DevTyped, NoContainer
<1>2. asking[q].at = "docker" => Busy(q)
  BY NoAskingFacts DEF Busy
<1>3. CASE DockerCommand(q)
  <2> DEFINE up == asking[q].does = "start"
  <2>1. asking[q].at = "docker" /\ asking[q].does \in {"start", "stop"}
        /\ DevGoes(q, "update") /\ UNCHANGED <<devRows, made, volume>>
    BY <1>3 DEF DockerCommand
  <2>2. CASE named.id = asking[q].id /\ named' = [named EXCEPT !.runs = up] /\ upset' = upset
    <3>1. up \in BOOLEAN
      OBVIOUS
    <3> HIDE DEF up
    <3>2. named' \in [id : Nat, runs : BOOLEAN] /\ named'.id = asking[q].id /\ named'.runs = up
      BY <1>1, <2>2, <3>1
    <3> QED BY <1>1, <1>2, <2>1, <2>2, <3>2, DockerInv DEF DockerGoes, up
  <2>3. CASE named' = named /\ upset' = TRUE
    BY <1>1, <1>2, <2>1, <2>3, DockerInv DEF DockerGoes
  <2> QED BY <1>3, <2>2, <2>3 DEF DockerCommand
<1>4. CASE RemoveNamed(q)
  <2>1. asking[q].at = "docker" /\ asking[q].does = "delete"
        /\ DevGoes(q, "wipe") /\ UNCHANGED <<devRows, made, volume>>
    BY <1>4 DEF RemoveNamed
  <2>2. CASE named' = NoContainer /\ upset' = upset
    BY <1>1, <1>2, <2>1, <2>2, DockerInv DEF DockerGoes
  <2>3. CASE named' = named /\ upset' = TRUE
    BY <1>1, <1>2, <2>1, <2>3, DockerInv DEF DockerGoes
  <2> QED BY <1>4, <2>2, <2>3 DEF RemoveNamed
<1> QED BY <1>3, <1>4

\* A request ends: the rows are as they were, or as its last step leaves them.
LEMMA EndsInv ==
    ASSUME DevInv, NEW q \in DevRequests, Busy(q), DevEnds(q), UNCHANGED <<made, named>>,
           devRows' \in Seq(DevRow), volume' \in {"none", "empty", "files"}, upset' \in BOOLEAN,
           ~upset' => ~upset \/ asking[q].alone,
           \A i \in DOMAIN devRows' :
               \/ \E j \in DOMAIN devRows : devRows'[i].id = devRows[j].id
               \/ Rowless(q) /\ devRows'[i].id = asking[q].id,
           \A i, j \in DOMAIN devRows' : devRows'[i].id = devRows'[j].id => i = j,
           ~upset' => OlderStopped' /\ Fits'
    PROVE  DevInv'
<1>1. asking' = [asking EXCEPT ![q] = NoAsking] /\ asking \in [DevRequests -> Request]
  BY DEF DevEnds, DevInv, DevTyped
<1>2. /\ asking' \in [DevRequests -> Request] /\ AloneInv'
      /\ asking'[q] = NoAsking /\ \A r \in DevRequests : r # q => asking'[r] = asking[r]
      /\ ~upset \/ ~upset' \/ asking[q].alone => \A r \in DevRequests : r # q => ~Busy(r)
      /\ \A r \in DevRequests : r # q => ~(Rowless(r) /\ asking[r].alone)
  BY <1>1, NoAskingFacts, OwnMove
<1>3. DevTyped'
  BY <1>2 DEF DevInv, DevTyped
<1>4. \A r \in DevRequests : (Rowless(r)' => Rowless(r) /\ r # q /\ asking'[r] = asking[r])
  BY <1>2, NoAskingFacts DEF Rowless
<1>5. RowsApart'
  BY <1>4 DEF DevInv, RowsApart
<1>6. Follows'
  BY <1>2, <1>4 DEF Follows, Busy
<1> QED BY <1>2, <1>3, <1>5, <1>6 DEF DevInv

LEMMA RequestDiesInv == ASSUME DevInv, NEW q \in DevRequests, RequestDies(q) PROVE DevInv'
<1>1. Busy(q) /\ DevEnds(q) /\ upset' = TRUE /\ UNCHANGED <<devRows, made, named, volume>>
  BY DEF RequestDies, Busy
<1>2. DevTyped /\ RowsApart
  BY DEF DevInv
<1> QED BY <1>1, <1>2, EndsInv DEF DevTyped, RowsApart

LEMMA CreateDevRowInv == ASSUME DevInv, NEW q \in DevRequests, CreateDevRow(q) PROVE DevInv'
<1> DEFINE row == [id |-> asking[q].id, status |-> "running"]
<1>1. Busy(q) /\ Rowless(q) /\ DevEnds(q) /\ devRows' = Append(devRows, row) /\ UNCHANGED <<made, named, volume>>
  BY NoAskingFacts DEF CreateDevRow, Busy, Rowless
<1>2. upset' = (upset /\ (~asking[q].alone \/ \E i \in DOMAIN devRows : devRows[i].status = "running"))
  BY DEF CreateDevRow
<1>3. asking[q] \in Request /\ asking[q] # NoAsking /\ asking[q].does = "create" /\ asking[q].id \in Nat
      /\ asking[q].alone \in BOOLEAN /\ devRows \in Seq(DevRow) /\ upset \in BOOLEAN
  BY <1>1, RequestFacts DEF DevInv, DevTyped, Busy, Rowless
<1>4. row \in DevRow /\ row.id = asking[q].id /\ row.status = "running"
  BY <1>3 DEF DevRow
<1> HIDE DEF row
<1>5. /\ devRows' \in Seq(DevRow) /\ Len(devRows') = Len(devRows) + 1 /\ Len(devRows) \in Nat
      /\ DOMAIN devRows = 1..Len(devRows) /\ DOMAIN devRows' = 1..(Len(devRows) + 1)
      /\ devRows'[Len(devRows) + 1] = row
      /\ \A i \in DOMAIN devRows : devRows'[i] = devRows[i] /\ devRows[i] \in DevRow
  BY <1>1, <1>3, <1>4
<1>6. \A i \in DOMAIN devRows' : i \in DOMAIN devRows \/ i = Len(devRows) + 1
  BY <1>5
<1>7. \A i \in DOMAIN devRows : devRows[i].id # asking[q].id
  BY <1>1 DEF DevInv, RowsApart
<1>8. \A i, j \in DOMAIN devRows' : devRows'[i].id = devRows'[j].id => i = j
  BY <1>4, <1>5, <1>6, <1>7 DEF DevInv, RowsApart
<1>9. \A i \in DOMAIN devRows' :
         \/ \E j \in DOMAIN devRows : devRows'[i].id = devRows[j].id
         \/ Rowless(q) /\ devRows'[i].id = asking[q].id
  BY <1>1, <1>4, <1>5, <1>6
<1>10. ASSUME ~upset' PROVE asking[q].alone /\ AllStopped
  <2>1. CASE upset
    BY <1>2, <1>3, <1>5, <1>10, <2>1 DEF AllStopped, Stopped, DevRow
  <2>2. CASE ~upset
    BY <1>1, <1>3, <2>2 DEF DevInv, AloneInv, Follows, StageInv
  <2> QED BY <2>1, <2>2
<1>11. ASSUME ~upset' PROVE OlderStopped' /\ Fits'
  <2>1. OlderStopped'
    BY <1>5, <1>6, <1>10, <1>11 DEF OlderStopped, AllStopped, Stopped
  <2>2. ~AllStopped' /\ devRows'[Len(devRows')] = row
    BY <1>4, <1>5 DEF AllStopped, Stopped
  <2>3. named' = [id |-> row.id, runs |-> TRUE]
    BY <1>1, <1>4, <1>10, <1>11 DEF DevInv, Follows
  <2> QED BY <2>1, <2>2, <2>3 DEF Fits
<1>12. upset' \in BOOLEAN /\ volume' \in {"none", "empty", "files"}
  BY <1>1, <1>2, <1>3 DEF DevInv, DevTyped
<1> QED BY <1>1, <1>5, <1>8, <1>9, <1>10, <1>11, <1>12, EndsInv

LEMMA UpdateDevRowInv == ASSUME DevInv, NEW q \in DevRequests, UpdateDevRow(q) PROVE DevInv'
<1> DEFINE status == IF asking[q].does = "start" THEN "running" ELSE "stopped"
<1>1. Busy(q) /\ asking[q].at = "update" /\ DevEnds(q) /\ UNCHANGED <<made, named, volume, upset>>
  BY NoAskingFacts DEF UpdateDevRow, Busy
<1>2. devRows' = [i \in DOMAIN devRows |->
         IF devRows[i].id = asking[q].id THEN [devRows[i] EXCEPT !.status = status] ELSE devRows[i]]
  BY DEF UpdateDevRow
<1>3. devRows \in Seq(DevRow) /\ asking[q] \in Request /\ asking[q].does \in {"start", "stop"}
      /\ asking[q].alone \in BOOLEAN /\ upset \in BOOLEAN
  BY <1>1, RequestFacts DEF DevInv, DevTyped, Busy
<1>4. Len(devRows) \in Nat /\ DOMAIN devRows = 1..Len(devRows) /\ \A i \in DOMAIN devRows : devRows[i] \in DevRow
  BY <1>3
<1>5. status \in {"running", "stopped"} /\ (status = "running" <=> asking[q].does = "start")
  OBVIOUS
<1> HIDE DEF status
<1>6. ASSUME NEW i \in DOMAIN devRows
      PROVE  /\ devRows'[i] \in DevRow /\ devRows'[i].id = devRows[i].id
             /\ devRows[i].id = asking[q].id => devRows'[i].status = status
             /\ devRows[i].id # asking[q].id => devRows'[i] = devRows[i]
  BY <1>2, <1>4, <1>5 DEF DevRow
<1>7. DOMAIN devRows' = DOMAIN devRows /\ devRows' \in Seq(DevRow) /\ Len(devRows') = Len(devRows)
  <2>1. DOMAIN devRows' = 1..Len(devRows) /\ devRows' = [i \in 1..Len(devRows) |-> devRows'[i]]
    BY <1>2, <1>4
  <2>2. devRows' \in [1..Len(devRows) -> DevRow]
    BY <1>4, <1>6, <2>1
  <2> QED BY <1>4, <2>1, <2>2
<1>8. \A i, j \in DOMAIN devRows' : devRows'[i].id = devRows'[j].id => i = j
  BY <1>6, <1>7 DEF DevInv, RowsApart
<1>9. ASSUME ~upset' PROVE OlderStopped' /\ Fits'
  <2>1. OlderStopped /\ StageInv(q) /\ Busy(q)
    BY <1>1, <1>9 DEF DevInv, Follows
  <2>2. /\ devRows # <<>> /\ asking[q].id = devRows[Len(devRows)].id
        /\ named.id = asking[q].id /\ named.runs = (asking[q].does = "start")
    BY <1>1, <1>3, <2>1 DEF StageInv, OfNewest
  <2>3. Len(devRows) \in DOMAIN devRows
    BY <1>3, <1>4, <2>2
  <2>4. \A i \in DOMAIN devRows : i # Len(devRows) => devRows[i].id # asking[q].id
    BY <2>2, <2>3 DEF DevInv, RowsApart
  <2>5. OlderStopped'
    BY <1>6, <1>7, <2>1, <2>4 DEF OlderStopped, Stopped
  <2>6. devRows'[Len(devRows)].status = status /\ devRows'[Len(devRows)].id = named.id
    BY <1>6, <2>2, <2>3
  <2>7. AllStopped' <=> asking[q].does # "start"
    BY <1>5, <1>7, <2>3, <2>5, <2>6 DEF AllStopped, OlderStopped, Stopped
  <2>8. named = [id |-> named.id, runs |-> named.runs]
    BY DEF DevInv, DevTyped
  <2>9. Fits'
    BY <1>1, <1>7, <2>2, <2>6, <2>7, <2>8 DEF Fits
  <2> QED BY <2>5, <2>9
<1>10. \A i \in DOMAIN devRows' : \E j \in DOMAIN devRows : devRows'[i].id = devRows[j].id
  BY <1>6, <1>7
<1>11. volume' \in {"none", "empty", "files"} /\ upset' \in BOOLEAN
  BY <1>1, <1>3 DEF DevInv, DevTyped
<1>12. UNCHANGED <<made, named>> /\ (~upset' => ~upset)
  BY <1>1
<1> QED BY <1>1, <1>7, <1>8, <1>9, <1>10, <1>11, <1>12, EndsInv

\* A sequence without its i-th element.
LEMMA RowsWithoutFacts ==
    ASSUME devRows \in Seq(DevRow), NEW i \in DOMAIN devRows
    PROVE  /\ RowsWithout(i) \in Seq(DevRow) /\ Len(RowsWithout(i)) = Len(devRows) - 1
           /\ Len(devRows) \in Nat /\ DOMAIN devRows = 1..Len(devRows)
           /\ DOMAIN RowsWithout(i) = 1..(Len(devRows) - 1)
           /\ \A j \in DOMAIN RowsWithout(i) : RowsWithout(i)[j] = devRows[IF j < i THEN j ELSE j + 1]
<1> DEFINE n == Len(devRows) - 1
<1>1. Len(devRows) \in Nat /\ DOMAIN devRows = 1..Len(devRows) /\ n \in Nat
  OBVIOUS
<1>2. \A j \in 1..n : (IF j < i THEN j ELSE j + 1) \in DOMAIN devRows
  BY <1>1
<1>3. \A j \in 1..n : devRows[IF j < i THEN j ELSE j + 1] \in DevRow
  BY <1>2
<1>4. RowsWithout(i) = [j \in 1..n |-> devRows[IF j < i THEN j ELSE j + 1]]
  BY DEF RowsWithout
<1> HIDE DEF n
<1>5. RowsWithout(i) \in [1..n -> DevRow]
  BY <1>3, <1>4
<1> QED BY <1>1, <1>4, <1>5 DEF n

LEMMA DeleteDevRowInv == ASSUME DevInv, NEW q \in DevRequests, DeleteDevRow(q) PROVE DevInv'
<1>1. Busy(q) /\ asking[q].at = "wipe" /\ DevEnds(q) /\ UNCHANGED <<made, named, upset>>
      /\ volume' \in {"none", "empty", "files"}
  BY NoAskingFacts DEF DeleteDevRow, Busy, DevInv, DevTyped
<1>2. devRows \in Seq(DevRow) /\ asking[q] \in Request /\ asking[q].does = "delete"
      /\ asking[q].alone \in BOOLEAN /\ upset' \in BOOLEAN /\ (~upset' => ~upset)
  BY <1>1, RequestFacts DEF DevInv, DevTyped, Busy
<1>3. ASSUME ~upset PROVE OlderStopped /\ OfNewest(q) /\ ~named.runs
  BY <1>1, <1>2, <1>3 DEF DevInv, Follows, StageInv
<1>4. ASSUME NEW i \in DOMAIN devRows, devRows[i].id = asking[q].id, devRows' = RowsWithout(i)
      PROVE  DevInv'
  <2>1. /\ devRows' \in Seq(DevRow) /\ Len(devRows') = Len(devRows) - 1
        /\ Len(devRows) \in Nat /\ DOMAIN devRows = 1..Len(devRows)
        /\ DOMAIN devRows' = 1..(Len(devRows) - 1)
        /\ \A j \in DOMAIN devRows' : devRows'[j] = devRows[IF j < i THEN j ELSE j + 1]
    BY <1>2, <1>4, RowsWithoutFacts
  <2> DEFINE from(j) == IF j < i THEN j ELSE j + 1
  <2>2. \A j \in DOMAIN devRows' : from(j) \in DOMAIN devRows /\ devRows'[j] = devRows[from(j)]
    BY <2>1
  <2>3. \A j, k \in DOMAIN devRows' : from(j) = from(k) => j = k
    BY <2>1
  <2> HIDE DEF from
  <2>4. \A j, k \in DOMAIN devRows' : devRows'[j].id = devRows'[k].id => j = k
    BY <2>2, <2>3 DEF DevInv, RowsApart
  <2>5. ASSUME ~upset' PROVE OlderStopped' /\ Fits'
    <3>1. OlderStopped /\ OfNewest(q) /\ ~named.runs
      BY <1>2, <1>3, <2>5
    <3>2. i = Len(devRows)
      BY <1>4, <2>1, <3>1 DEF OfNewest, DevInv, RowsApart
    <3>3. \A j \in DOMAIN devRows' : devRows'[j] = devRows[j] /\ j \in DOMAIN devRows /\ j # Len(devRows)
      BY <2>1, <3>2
    <3>4. AllStopped'
      BY <3>1, <3>3 DEF AllStopped, OlderStopped, Stopped
    <3> QED BY <1>1, <3>1, <3>4 DEF OlderStopped, AllStopped, Fits
  <2>6. \A j \in DOMAIN devRows' : \E k \in DOMAIN devRows : devRows'[j].id = devRows[k].id
    BY <2>2
  <2>7. UNCHANGED <<made, named>>
    BY <1>1
  <2> QED BY <1>1, <1>2, <2>1, <2>4, <2>5, <2>6, <2>7, EndsInv
<1>5. ASSUME \A i \in DOMAIN devRows : devRows[i].id # asking[q].id, devRows' = devRows
      PROVE  DevInv'
  <2>1. ASSUME ~upset' PROVE FALSE
    <3>1. OfNewest(q)
      BY <1>2, <1>3, <2>1
    <3>2. Len(devRows) \in DOMAIN devRows
      BY <1>2, <3>1 DEF OfNewest
    <3> QED BY <1>5, <3>1, <3>2 DEF OfNewest
  <2>2. \A i, j \in DOMAIN devRows' : devRows'[i].id = devRows'[j].id => i = j
    BY <1>5 DEF DevInv, RowsApart
  <2>3. UNCHANGED <<made, named>>
    BY <1>1
  <2> QED BY <1>1, <1>2, <1>5, <2>1, <2>2, <2>3, EndsInv
<1> QED BY <1>4, <1>5 DEF DeleteDevRow

\* While no request is served and nothing went wrong, the newest row tells the truth of the container,
\* for any number of requests and containers, and for every way requests begin, overlap and die.
THEOREM RowsTellTheTruth == DevSpec => []RowIsContainer
<1>1. DevInv /\ [DevNext]_devVars => DevInv'
  <2> SUFFICES ASSUME DevInv, [DevNext]_devVars PROVE DevInv'
    OBVIOUS
  <2>1. CASE UNCHANGED devVars
    BY <2>1 DEF devVars, DevInv, DevTyped, RowsApart, AloneInv, Follows, Busy, Rowless, OlderStopped,
                Stopped, AllStopped, Fits, OfNewest, StageInv
  <2>2. ASSUME NEW q \in DevRequests, RemoveStale(q) \/ CreateVolume(q) \/ CloneRepo(q) \/ CloneFails(q)
        PROVE  DevInv'
    <3>1. asking[q] \in Request /\ volume \in {"none", "empty", "files"}
      BY DEF DevInv, DevTyped
    <3>2. asking[q].at \in {"remove", "volume", "clone"} => asking[q].does = "create"
      BY <3>1, NoAskingFacts, RequestFacts
    <3>3. volume' \in {"none", "empty", "files"}
      BY <2>2, <3>1 DEF RemoveStale, CreateVolume, CloneRepo, CloneFails
    <3>4. CASE RemoveStale(q)
      BY <3>2, <3>3, <3>4, CreateGoesInv DEF RemoveStale
    <3>5. CASE CreateVolume(q)
      BY <3>2, <3>3, <3>5, CreateGoesInv DEF CreateVolume
    <3>6. CASE CloneRepo(q)
      BY <3>2, <3>3, <3>6, CreateGoesInv DEF CloneRepo
    <3>7. CASE CloneFails(q)
      BY <3>2, <3>3, <3>7, CreateGoesInv DEF CloneFails
    <3> QED BY <2>2, <3>4, <3>5, <3>6, <3>7
  <2>3. ASSUME NEW q \in DevRequests,
               \/ AskCreate(q) \/ RunContainer(q) \/ CreateDevRow(q) \/ AskStart(q) \/ AskStop(q) \/ AskDelete(q)
               \/ DockerCommand(q) \/ UpdateDevRow(q) \/ RemoveNamed(q) \/ DeleteDevRow(q) \/ RequestDies(q)
        PROVE  DevInv'
    BY <2>3, AskingInv, RunContainerInv, CreateDevRowInv, CommandsInv, UpdateDevRowInv, DeleteDevRowInv, RequestDiesInv
  <2> QED BY <2>1, <2>2, <2>3 DEF DevNext
<1>2. DevInv => RowIsContainer
  <2> SUFFICES ASSUME DevInv, ~upset, \A q \in DevRequests : asking[q] = NoAsking PROVE RowIsContainer
    BY DEF RowIsContainer
  <2>1. Fits /\ OlderStopped /\ devRows \in Seq(DevRow)
    BY DEF DevInv, DevTyped, Follows, Busy
  <2>2. devRows = <<>> \/ devRows[Len(devRows)].status = "stopped" => AllStopped
    BY <2>1 DEF OlderStopped, AllStopped, Stopped
  <2>3. ~(devRows = <<>> \/ devRows[Len(devRows)].status = "stopped") => ~AllStopped
    BY <2>1 DEF AllStopped, Stopped
  <2> QED BY <2>1, <2>2, <2>3 DEF RowIsContainer, Fits
<1> QED BY DevInitInv, <1>1, <1>2, PTL DEF DevSpec

-----------------------------------------------------------------------------
(* Editor *)

EditorText == Typed \cup {Special, "", "altered", NoText}
Tab == [text : EditorText, dirty : BOOLEAN]
CallOf(does, files) ==
    [does : does, file : files, text : EditorText, at : {"none", "asked", "served"},
     names : SUBSET Files, open : BOOLEAN]
FileCall ==
    CallOf({"nothing", "list"}, {NoFile}) \cup CallOf({"read", "save", "delete", "create", "newList"}, Files)
Agent ==
    [at : {"none", "proposed", "applying"}, left : Seq(Change), written : SUBSET Files,
     tabs : [Files -> Tab] \cup {<<>>}, active : Files \cup {NoFile}, known : SUBSET Files]

EditorTyped ==
    /\ disk \in [Files -> EditorText] /\ fileList \in SUBSET Files
    /\ tabs \in [Files -> Tab] /\ activeTab \in Files \cup {NoFile}
    /\ saveTimer \in {NoTimer} \cup [file : Files, text : EditorText]
    /\ fileCalls \in [EditorCalls -> FileCall]
    /\ agent \in Agent /\ gestures \in Nat
    /\ why \in [Files -> {"none", "overlap", "emptied", "elsewhere", "lost", "altered", "partial"}]
    /\ Applying => agent.tabs \in [Files -> Tab]
    /\ ~Applying => agent.written = {}

\* A call on the file that was served and whose answer is on its way.
Served(c, f, kinds) == fileCalls[c].file = f /\ fileCalls[c].at = "served" /\ fileCalls[c].does \in kinds

\* An answer holds what the file still holds.
AnswersFit(f) == \A c \in EditorCalls : Served(c, f, {"read", "save"}) => fileCalls[c].text = disk[f]

\* A clean tab shows what the file holds, or an answer is on its way that will tell.  What the agent
\* has written is shown by the copy of the tab it works on.
TabFits(f) ==
    IsOpen(f) /\ ~tabs[f].dirty /\ f \notin agent.written
    => tabs[f].text = disk[f] \/ \E c \in EditorCalls : Served(c, f, {"save", "delete"})
CopyFits(f) == f \in agent.written /\ agent.tabs[f] # NoTab => agent.tabs[f].text = disk[f]

EditorInv == EditorTyped /\ \A f \in Files : why[f] = "none" => AnswersFit(f) /\ TabFits(f) /\ CopyFits(f)

LEMMA NewCallFacts ==
    ASSUME NEW does, NEW f, NEW text \in EditorText,
           \/ does \in {"read", "save", "delete", "create"} /\ f \in Files
           \/ does = "list" /\ f = NoFile
    PROVE  NewCall(does, f, text) \in FileCall /\ NewCall(does, f, text).at = "asked"
BY DEF NewCall, NoFileCall, FileCall, CallOf, EditorText

LEMMA NoCallFacts ==
    NoFileCall \in FileCall /\ NoFileCall.at = "none" /\ NoTab \in Tab /\ NoText \in EditorText
BY DEF NoFileCall, FileCall, CallOf, EditorText, NoTab, Tab

\* Only a list is of no file.
LEMMA CallFacts ==
    \A call \in FileCall :
        /\ call.does \notin {"nothing", "list"} => call.file \in Files
        /\ call.file \in Files => call.does \notin {"nothing", "list"}
        /\ call.text \in EditorText /\ call.names \in SUBSET Files /\ call.at \in {"none", "asked", "served"}
BY EditorAssumption DEF FileCall, CallOf

LEMMA NoAgentFacts == NoAgent \in Agent /\ NoAgent.at = "none" /\ NoAgent.written = {}
<1>1. <<>> \in Seq(Change) /\ {} \in SUBSET Files
  OBVIOUS
<1> QED BY <1>1 DEF NoAgent, Agent

LEMMA EditorInitInv == EditorInit => EditorInv
<1> SUFFICES ASSUME EditorInit PROVE EditorInv
  OBVIOUS
<1>1. agent = NoAgent /\ agent.at = "none" /\ agent.written = {} /\ agent \in Agent
  BY NoAgentFacts DEF EditorInit
<1>2. tabs \in [Files -> Tab] /\ fileCalls \in [EditorCalls -> FileCall] /\ saveTimer \in {NoTimer} \cup [file : Files, text : EditorText]
  BY NoCallFacts DEF EditorInit
<1>3. disk \in [Files -> EditorText]
  BY DEF EditorInit, EditorText
<1>4. EditorTyped
  BY <1>1, <1>2, <1>3 DEF EditorInit, EditorTyped, Applying
<1>5. \A f \in Files : AnswersFit(f) /\ TabFits(f) /\ CopyFits(f)
  BY <1>1, NoCallFacts DEF EditorInit, AnswersFit, TabFits, CopyFits, Served, IsOpen
<1> QED BY <1>4, <1>5 DEF EditorInv

\* A call of the page that begins takes a free slot, and was not served yet.
Begun == \E c \in EditorCalls, call \in FileCall :
             fileCalls[c] = NoFileCall /\ call.at = "asked" /\ fileCalls' = [fileCalls EXCEPT ![c] = call]

LEMMA BegunFacts ==
    ASSUME EditorInv, UNCHANGED fileCalls \/ Begun, NEW c \in EditorCalls, NEW f \in Files, NEW kinds
    PROVE  /\ Served(c, f, kinds)' => Served(c, f, kinds) /\ fileCalls'[c] = fileCalls[c]
           /\ Served(c, f, kinds) => Served(c, f, kinds)'
           /\ fileCalls' \in [EditorCalls -> FileCall]
<1>1. CASE UNCHANGED fileCalls
  BY <1>1 DEF Served, EditorInv, EditorTyped
<1>2. ASSUME NEW d \in EditorCalls, NEW call \in FileCall,
             fileCalls[d] = NoFileCall, call.at = "asked", fileCalls' = [fileCalls EXCEPT ![d] = call]
      PROVE  /\ Served(c, f, kinds)' => Served(c, f, kinds) /\ fileCalls'[c] = fileCalls[c]
             /\ Served(c, f, kinds) => Served(c, f, kinds)'
             /\ fileCalls' \in [EditorCalls -> FileCall]
  BY <1>2, NoCallFacts DEF Served, EditorInv, EditorTyped
<1> QED BY <1>1, <1>2 DEF Begun

\* What the user does on the page touches no file and no answer: a tab it opens, closes or types into
\* is not clean and open.
PageStep ==
    /\ UNCHANGED disk /\ fileList' \in SUBSET Files
    /\ tabs' \in [Files -> Tab] /\ activeTab' \in Files \cup {NoFile}
    /\ saveTimer' \in {NoTimer} \cup [file : Files, text : EditorText]
    /\ UNCHANGED fileCalls \/ Begun
    /\ \/ UNCHANGED agent
       \/ agent' \in Agent /\ agent'.at # "applying" /\ agent'.written = {} /\ ~Applying
    /\ gestures' \in Nat
    /\ \A f \in Files : tabs'[f] = tabs[f] \/ tabs'[f] = NoTab \/ tabs'[f].dirty
    /\ why' \in [Files -> {"none", "overlap", "emptied", "elsewhere", "lost", "altered", "partial"}]
    /\ \A f \in Files : why'[f] = "none" =>
          why[f] = "none" \/ (On(f) = {} /\ ~Applying /\ tabs'[f] = NoTab)

LEMMA PageStepInv == EditorInv /\ PageStep => EditorInv'
<1> SUFFICES ASSUME EditorInv, PageStep PROVE EditorInv'
  OBVIOUS
<1>1. fileCalls' \in [EditorCalls -> FileCall]
  BY DEF EditorInv, EditorTyped, PageStep, Begun
<1>2. /\ agent' \in Agent /\ (Applying' => agent'.tabs \in [Files -> Tab]) /\ (~Applying' => agent'.written = {})
      /\ agent'.written = agent.written /\ (agent'.tabs = agent.tabs \/ agent'.written = {})
  BY DEF EditorInv, EditorTyped, PageStep, Applying
<1>3. EditorTyped'
  BY <1>1, <1>2 DEF EditorInv, EditorTyped, PageStep
<1>4. ASSUME NEW c \in EditorCalls, NEW f \in Files, NEW kinds
      PROVE  /\ Served(c, f, kinds)' => Served(c, f, kinds) /\ fileCalls'[c] = fileCalls[c]
             /\ Served(c, f, kinds) => Served(c, f, kinds)'
  BY BegunFacts DEF PageStep
<1>5. ASSUME NEW f \in Files, why'[f] = "none"
      PROVE  AnswersFit(f)' /\ TabFits(f)' /\ CopyFits(f)'
  <2>1. UNCHANGED disk /\ (tabs'[f] = tabs[f] \/ tabs'[f] = NoTab \/ tabs'[f].dirty)
    BY DEF PageStep
  <2>2. CASE why[f] = "none"
    <3>1. AnswersFit(f) /\ TabFits(f) /\ CopyFits(f)
      BY <2>2 DEF EditorInv
    <3>2. AnswersFit(f)'
      BY <1>4, <2>1, <3>1 DEF AnswersFit
    <3>3. TabFits(f)'
      BY <1>2, <1>4, <2>1, <3>1 DEF TabFits, IsOpen
    <3>4. CopyFits(f)'
      BY <1>2, <2>1, <3>1 DEF CopyFits
    <3> QED BY <3>2, <3>3, <3>4
  <2>3. CASE On(f) = {} /\ ~Applying /\ tabs'[f] = NoTab
    <3>1. AnswersFit(f)'
      <4>1. \A c \in EditorCalls : ~Served(c, f, {"read", "save"})
        BY <2>3 DEF Served, On
      <4> QED BY <1>4, <4>1 DEF AnswersFit
    <3>2. f \notin agent'.written
      BY <1>2, <2>3 DEF EditorInv, EditorTyped
    <3> QED BY <2>3, <3>1, <3>2 DEF TabFits, CopyFits, IsOpen
  <2> QED BY <1>5, <2>2, <2>3 DEF PageStep
<1> QED BY <1>3, <1>5 DEF EditorInv

WhyTyped == why' \in [Files -> {"none", "overlap", "emptied", "elsewhere", "lost", "altered", "partial"}]

LEMMA CallsBegin ==
    ASSUME EditorInv, NEW c \in EditorCalls, NEW call \in FileCall, call.at = "asked", Calls(c, call)
    PROVE  Begun
BY DEF Begun, Calls

LEMMA SavesBegin ==
    ASSUME EditorInv, NEW c \in EditorCalls, NEW f \in Files, NEW text \in EditorText, Saves(c, f, text)
    PROVE  Begun /\ WhyTyped /\ \A g \in Files : why'[g] = "none" => why[g] = "none"
<1>1. Begun
  BY NewCallFacts, CallsBegin DEF Saves
<1>2. WhyTyped /\ \A g \in Files : why'[g] = "none" => why[g] = "none"
  BY DEF Saves, WhyTyped, EditorInv, EditorTyped
<1> QED BY <1>1, <1>2

LEMMA TabsInv ==
    ASSUME EditorInv,
           \/ \E f \in Files : SelectTab(f) \/ CloseTab(f)
           \/ \E text \in Typed : Type(text)
           \/ AskAgent
    PROVE  EditorInv'
<1>1. EditorTyped /\ NoText \in EditorText /\ "" \in EditorText
  BY DEF EditorInv, EditorText
<1>2. ASSUME Gesture PROVE gestures' \in Nat
  <2>1. gestures \in Nat /\ gestures' = gestures + 1
    BY <1>1, <1>2 DEF Gesture, EditorTyped
  <2> QED BY <2>1
<1>3. ASSUME NEW f \in Files, SelectTab(f) PROVE PageStep
  BY <1>1, <1>2, <1>3 DEF SelectTab, PageStep, EditorTyped
<1>4. ASSUME NEW f \in Files, CloseTab(f) PROVE PageStep
  <2>1. activeTab' \in Files \cup {NoFile} /\ tabs' = [tabs EXCEPT ![f] = NoTab]
    BY <1>1, <1>4 DEF CloseTab, Closed, EditorTyped
  <2>2. tabs' \in [Files -> Tab] /\ \A g \in Files : tabs'[g] = tabs[g] \/ tabs'[g] = NoTab
    BY <1>1, <2>1, NoCallFacts DEF EditorTyped
  <2> QED BY <1>1, <1>2, <1>4, <2>1, <2>2 DEF CloseTab, PageStep, EditorTyped
<1>5. ASSUME NEW text \in Typed, Type(text) PROVE PageStep
  <2> DEFINE tab == [text |-> text, dirty |-> TRUE]
             timer == [file |-> activeTab, text |-> text]
  <2>1. activeTab \in Files /\ tabs' = [tabs EXCEPT ![activeTab] = tab] /\ saveTimer' = timer
    BY <1>1, <1>5 DEF Type, EditorTyped
  <2>2. tab \in Tab /\ tab.dirty /\ timer \in [file : Files, text : EditorText]
    BY <2>1 DEF Tab, EditorText
  <2> HIDE DEF tab, timer
  <2>3. tabs' \in [Files -> Tab] /\ \A g \in Files : tabs'[g] = tabs[g] \/ tabs'[g].dirty
    BY <1>1, <2>1, <2>2 DEF EditorTyped
  <2> QED BY <1>1, <1>2, <1>5, <2>1, <2>2, <2>3 DEF Type, PageStep, EditorTyped
<1>6. ASSUME AskAgent PROVE PageStep
  <2>1. PICK changes \in Proposals : agent' = [NoAgent EXCEPT !.at = "proposed", !.left = changes]
    BY <1>6 DEF AskAgent
  <2>2. changes \in Seq(Change)
    BY EditorAssumption
  <2>3. agent' \in Agent /\ agent'.at = "proposed" /\ agent'.written = {}
    BY <2>1, <2>2, NoAgentFacts DEF Agent
  <2>4. ~Applying
    BY <1>6 DEF AskAgent, Applying
  <2> QED BY <1>1, <1>2, <1>6, <2>3, <2>4 DEF AskAgent, PageStep, EditorTyped
<1> QED BY PageStepInv, <1>3, <1>4, <1>5, <1>6

LEMMA CallsInv ==
    ASSUME EditorInv, NEW c \in EditorCalls,
           \/ \E f \in Files : ClickFile(c, f) \/ HandleDeleteFile(c, f) \/ HandleNewFile(c, f)
           \/ TimerFires(c) \/ HandleManualSave(c) \/ RefreshFiles(c)
    PROVE  EditorInv'
<1>1. EditorTyped /\ NoText \in EditorText /\ "" \in EditorText
  BY DEF EditorInv, EditorText
<1>2. ASSUME Gesture PROVE gestures' \in Nat
  <2>1. gestures \in Nat /\ gestures' = gestures + 1
    BY <1>1, <1>2 DEF Gesture, EditorTyped
  <2> QED BY <2>1
<1>3. ASSUME NEW f \in Files, ClickFile(c, f) PROVE PageStep
  <2>1. UNCHANGED <<disk, fileList, tabs, saveTimer, agent>> /\ gestures' \in Nat /\ activeTab' \in Files \cup {NoFile}
    BY <1>1, <1>2, <1>3 DEF ClickFile, EditorTyped
  <2>2. CASE IsOpen(f)
    BY <1>1, <1>3, <2>1, <2>2 DEF ClickFile, PageStep, EditorTyped
  <2>3. CASE ~IsOpen(f)
    <3>1. Begun
      BY <1>1, <1>3, <2>3, NewCallFacts, CallsBegin DEF ClickFile
    <3>2. why' = IF On(f) = {} /\ ~Applying THEN [why EXCEPT ![f] = "none"] ELSE why
      BY <1>3, <2>3 DEF ClickFile
    <3>3. /\ WhyTyped
          /\ \A g \in Files : why'[g] = "none" => why[g] = "none" \/ (g = f /\ On(f) = {} /\ ~Applying)
      BY <1>1, <3>2 DEF WhyTyped, EditorTyped
    <3> QED BY <1>1, <2>1, <2>3, <3>1, <3>3 DEF PageStep, EditorTyped, WhyTyped, IsOpen
  <2> QED BY <2>2, <2>3
<1>4. ASSUME NEW f \in Files, HandleDeleteFile(c, f) PROVE PageStep
  <2>1. Begun
    BY <1>1, <1>4, NewCallFacts, CallsBegin DEF HandleDeleteFile
  <2> QED BY <1>1, <1>2, <1>4, <2>1 DEF HandleDeleteFile, PageStep, EditorTyped
<1>5. ASSUME NEW f \in Files, HandleNewFile(c, f) PROVE PageStep
  <2>1. /\ NewCall("create", f, "") \in FileCall /\ NewCall("create", f, "").at = "asked"
    BY <1>1, NewCallFacts
  <2>2. [NewCall("create", f, "") EXCEPT !.open = IsOpen(f)] \in FileCall
        /\ [NewCall("create", f, "") EXCEPT !.open = IsOpen(f)].at = "asked"
    BY <2>1 DEF FileCall, CallOf, IsOpen
  <2>3. Begun
    BY <1>5, <2>2, CallsBegin DEF HandleNewFile
  <2> QED BY <1>1, <1>2, <1>5, <2>3 DEF HandleNewFile, PageStep, EditorTyped
<1>6. ASSUME TimerFires(c) PROVE PageStep
  <2>1. saveTimer.file \in Files /\ saveTimer.text \in EditorText
    BY <1>1, <1>6 DEF TimerFires, EditorTyped
  <2>2. Begun /\ WhyTyped /\ \A g \in Files : why'[g] = "none" => why[g] = "none"
    BY <1>6, <2>1, SavesBegin DEF TimerFires
  <2> QED BY <1>1, <1>6, <2>2, NoCallFacts DEF TimerFires, PageStep, WhyTyped, EditorTyped
<1>7. ASSUME HandleManualSave(c) PROVE PageStep
  <2>1. activeTab \in Files /\ tabs[activeTab].text \in EditorText
    BY <1>1, <1>7 DEF HandleManualSave, EditorTyped, Tab
  <2>2. Begun /\ WhyTyped /\ \A g \in Files : why'[g] = "none" => why[g] = "none"
    BY <1>7, <2>1, SavesBegin DEF HandleManualSave
  <2> QED BY <1>1, <1>2, <1>7, <2>2 DEF HandleManualSave, PageStep, WhyTyped, EditorTyped
<1>8. ASSUME RefreshFiles(c) PROVE PageStep
  <2>1. Begun
    BY <1>1, <1>8, NewCallFacts, CallsBegin DEF RefreshFiles
  <2> QED BY <1>1, <1>2, <1>8, <2>1 DEF RefreshFiles, PageStep, EditorTyped
<1> QED BY PageStepInv, <1>3, <1>4, <1>5, <1>6, <1>7, <1>8

\* A route answers a call, and may write its file: it leaves the file, or nothing else works on it.
Untouched(call, g) ==
    /\ why[g] = "none" /\ disk'[g] = disk[g]
    /\ call.file = g => call.does # "save" /\ (call.does = "read" => call.text = disk[g])
OnlyCall(c, call, g) ==
    /\ On(g) = {c} /\ ~Applying
    /\ \/ call.does = "save" /\ call.text = disk'[g]
       \/ call.does = "delete"
       \/ call.does = "create" /\ ~IsOpen(g)

LEMMA AnsweredInv ==
    ASSUME EditorInv, NEW c \in EditorCalls, NEW call \in FileCall,
           fileCalls[c].at = "asked", call.at = "served", fileCalls' = [fileCalls EXCEPT ![c] = call],
           call.file = fileCalls[c].file,
           UNCHANGED <<fileList, tabs, activeTab, saveTimer, agent, gestures>>,
           disk' \in [Files -> EditorText], WhyTyped,
           \A g \in Files : why'[g] = "none" => Untouched(call, g) \/ OnlyCall(c, call, g)
    PROVE  EditorInv'
<1>1. EditorTyped' /\ fileCalls'[c] = call /\ \A d \in EditorCalls : d # c => fileCalls'[d] = fileCalls[d]
  BY DEF EditorInv, EditorTyped, WhyTyped, Applying
<1>2. ASSUME NEW d \in EditorCalls, NEW g \in Files, NEW kinds, d # c
      PROVE  (Served(d, g, kinds)' <=> Served(d, g, kinds)) /\ fileCalls'[d].text = fileCalls[d].text
  BY <1>1, <1>2 DEF Served
<1>3. ASSUME NEW g \in Files, NEW kinds PROVE ~Served(c, g, kinds)
  BY DEF Served
<1>4. ASSUME NEW g \in Files, NEW kinds PROVE Served(c, g, kinds)' <=> call.file = g /\ call.does \in kinds
  BY <1>1 DEF Served
<1>5. ASSUME NEW g \in Files, why'[g] = "none"
      PROVE  AnswersFit(g)' /\ TabFits(g)' /\ CopyFits(g)'
  <2>1. CASE Untouched(call, g)
    <3>1. AnswersFit(g) /\ TabFits(g) /\ CopyFits(g)
      BY <2>1 DEF EditorInv, Untouched
    <3>2. AnswersFit(g)'
      BY <1>1, <1>2, <1>4, <2>1, <3>1 DEF AnswersFit, Untouched
    <3>3. TabFits(g)'
      BY <1>2, <1>3, <2>1, <3>1 DEF TabFits, IsOpen, Untouched
    <3>4. CopyFits(g)'
      BY <2>1, <3>1 DEF CopyFits, Untouched
    <3> QED BY <3>2, <3>3, <3>4
  <2>2. CASE OnlyCall(c, call, g)
    <3>1. \A d \in EditorCalls : d # c => ~Served(d, g, {"read", "save"})
      BY <2>2 DEF On, Served, OnlyCall
    <3>2. call.file = g /\ g \notin agent'.written
      BY <2>2 DEF On, EditorInv, EditorTyped, OnlyCall
    <3>3. AnswersFit(g)'
      BY <1>1, <1>2, <1>4, <2>2, <3>1 DEF AnswersFit, OnlyCall
    <3>4. TabFits(g)'
      BY <1>4, <2>2, <3>2 DEF TabFits, IsOpen, OnlyCall
    <3> QED BY <3>2, <3>3, <3>4 DEF CopyFits
  <2> QED BY <1>5, <2>1, <2>2
<1> QED BY <1>1, <1>5 DEF EditorInv

LEMMA ServeInv == ASSUME EditorInv, NEW c \in EditorCalls, Serve(c) PROVE EditorInv'
<1> DEFINE f == fileCalls[c].file
           call == ServedCall(c)
<1>1. EditorTyped /\ fileCalls[c] \in FileCall
      /\ UNCHANGED <<fileList, tabs, activeTab, saveTimer, agent, gestures>>
  BY DEF EditorInv, EditorTyped, Serve
<1>2. /\ call \in FileCall /\ call.at = "served" /\ call.does = fileCalls[c].does
      /\ call.file = f /\ call.text = fileCalls[c].text
  BY <1>1 DEF ServedCall, FileCall, CallOf
<1>3. call.text \in EditorText /\ (call.does \in {"read", "save", "create", "delete"} => f \in Files)
      /\ "altered" \in EditorText /\ NoText \in EditorText
  BY <1>2, CallFacts DEF EditorText
<1> HIDE DEF call
<1>4. CASE ServeRead(c)
  <2> DEFINE answer == [call EXCEPT !.text = disk[f]]
  <2>1. /\ fileCalls[c].at = "asked" /\ call.does = "read" /\ fileCalls' = [fileCalls EXCEPT ![c] = answer]
        /\ UNCHANGED <<disk, why>> /\ f \in Files
    BY <1>2, <1>3, <1>4 DEF ServeRead, call
  <2>2. disk[f] \in EditorText
    BY <1>1, <2>1 DEF EditorTyped
  <2>3. /\ answer \in FileCall /\ answer.at = "served" /\ answer.file = f /\ answer.does = "read"
        /\ answer.text = disk[f]
    BY <1>2, <2>1, <2>2 DEF FileCall, CallOf
  <2> HIDE DEF answer
  <2>4. \A g \in Files : why'[g] = "none" => Untouched(answer, g)
    BY <2>1, <2>3 DEF Untouched
  <2> QED BY <1>1, <2>1, <2>3, <2>4, AnsweredInv DEF EditorTyped, WhyTyped
<1>5. CASE ServeFileSave(c)
  <2>1. /\ fileCalls[c].at = "asked" /\ call.does = "save" /\ fileCalls' = [fileCalls EXCEPT ![c] = call]
        /\ f \in Files /\ disk' = [disk EXCEPT ![f] = call.text]
        /\ why' = [why EXCEPT ![f] = IF Overlaps(c) THEN "overlap" ELSE "none"]
    BY <1>2, <1>3, <1>5 DEF ServeFileSave, call
  <2>2. /\ disk' \in [Files -> EditorText] /\ disk'[f] = call.text
        /\ WhyTyped /\ \A g \in Files : g # f => disk'[g] = disk[g] /\ why'[g] = why[g]
    BY <1>1, <1>3, <2>1 DEF EditorTyped, WhyTyped
  <2>3. why'[f] = "none" => On(f) = {c} /\ ~Applying
    BY <1>1, <2>1 DEF EditorTyped, Overlaps
  <2>4. \A g \in Files : why'[g] = "none" => Untouched(call, g) \/ OnlyCall(c, call, g)
    BY <1>2, <2>1, <2>2, <2>3 DEF Untouched, OnlyCall
  <2> QED BY <1>1, <1>2, <2>1, <2>2, <2>4, AnsweredInv
<1>6. CASE ServeCreate(c)
  <2>1. /\ fileCalls[c].at = "asked" /\ call.does = "create" /\ fileCalls' = [fileCalls EXCEPT ![c] = call]
        /\ f \in Files /\ disk' = [disk EXCEPT ![f] = Created(call.text)]
        /\ why' = [why EXCEPT ![f] =
              IF Overlaps(c) THEN "overlap" ELSE IF IsOpen(f) THEN "emptied" ELSE @]
    BY <1>2, <1>3, <1>6 DEF ServeCreate, call
  <2>2. /\ disk' \in [Files -> EditorText]
        /\ WhyTyped /\ \A g \in Files : g # f => disk'[g] = disk[g] /\ why'[g] = why[g]
    BY <1>1, <1>3, <2>1 DEF EditorTyped, WhyTyped, Created
  <2>3. why'[f] = "none" => On(f) = {c} /\ ~Applying /\ ~IsOpen(f)
    BY <1>1, <2>1 DEF EditorTyped, Overlaps
  <2>4. \A g \in Files : why'[g] = "none" => Untouched(call, g) \/ OnlyCall(c, call, g)
    BY <1>2, <2>1, <2>2, <2>3 DEF Untouched, OnlyCall
  <2> QED BY <1>1, <1>2, <2>1, <2>2, <2>4, AnsweredInv
<1>7. CASE ServeFileDelete(c)
  <2>1. /\ fileCalls[c].at = "asked" /\ call.does = "delete" /\ fileCalls' = [fileCalls EXCEPT ![c] = call]
        /\ f \in Files /\ disk' = [disk EXCEPT ![f] = NoText]
        /\ why' = IF Overlaps(c) THEN [why EXCEPT ![f] = "overlap"] ELSE why
    BY <1>2, <1>3, <1>7 DEF ServeFileDelete, call
  <2>2. /\ disk' \in [Files -> EditorText]
        /\ WhyTyped /\ \A g \in Files : g # f => disk'[g] = disk[g] /\ why'[g] = why[g]
    BY <1>1, <1>3, <2>1 DEF EditorTyped, WhyTyped
  <2>3. why'[f] = "none" => On(f) = {c} /\ ~Applying
    BY <1>1, <2>1 DEF EditorTyped, Overlaps
  <2>4. \A g \in Files : why'[g] = "none" => Untouched(call, g) \/ OnlyCall(c, call, g)
    BY <1>2, <2>1, <2>2, <2>3 DEF Untouched, OnlyCall
  <2> QED BY <1>1, <1>2, <2>1, <2>2, <2>4, AnsweredInv
<1>8. CASE ServeFiles(c)
  <2> DEFINE answer == [call EXCEPT !.names = {g \in Files : disk[g] # NoText}]
  <2>1. /\ fileCalls[c].at = "asked" /\ call.does \in {"list", "newList"} /\ fileCalls' = [fileCalls EXCEPT ![c] = answer]
        /\ UNCHANGED <<disk, why>>
    BY <1>2, <1>8 DEF ServeFiles, call
  <2>2. /\ answer \in FileCall /\ answer.at = "served" /\ answer.file = f /\ answer.does \in {"list", "newList"}
    BY <1>2, <2>1 DEF FileCall, CallOf
  <2> HIDE DEF answer
  <2>3. \A g \in Files : why'[g] = "none" => Untouched(answer, g)
    BY <2>1, <2>2 DEF Untouched
  <2> QED BY <1>1, <2>1, <2>2, <2>3, AnsweredInv DEF EditorTyped, WhyTyped
<1> QED BY <1>4, <1>5, <1>6, <1>7, <1>8 DEF Serve

\* An answer reaches the page, or is lost: the tab stays, closes, or shows what the file holds.
Shown(c, g) ==
    \/ tabs'[g] = tabs[g] /\ ~Served(c, g, {"save", "delete"})
    \/ tabs'[g] = NoTab
    \/ tabs'[g].text = disk[g]

LEMMA ArrivedInv ==
    ASSUME EditorInv, NEW c \in EditorCalls, NEW call \in FileCall, call.at # "served",
           fileCalls' = [fileCalls EXCEPT ![c] = call], UNCHANGED <<disk, agent, gestures, saveTimer>>,
           fileList' \in SUBSET Files, tabs' \in [Files -> Tab], activeTab' \in Files \cup {NoFile}, WhyTyped,
           \A g \in Files : why'[g] = "none" => why[g] = "none" /\ Shown(c, g)
    PROVE  EditorInv'
<1>1. EditorTyped' /\ fileCalls'[c] = call /\ \A d \in EditorCalls : d # c => fileCalls'[d] = fileCalls[d]
  BY DEF EditorInv, EditorTyped, WhyTyped, Applying
<1>2. ASSUME NEW d \in EditorCalls, NEW g \in Files, NEW kinds
      PROVE  /\ Served(d, g, kinds)' => Served(d, g, kinds) /\ fileCalls'[d] = fileCalls[d]
             /\ Served(d, g, kinds) /\ d # c => Served(d, g, kinds)'
  BY <1>1 DEF Served
<1>3. ASSUME NEW g \in Files, why'[g] = "none"
      PROVE  AnswersFit(g)' /\ TabFits(g)' /\ CopyFits(g)'
  <2>1. AnswersFit(g) /\ TabFits(g) /\ CopyFits(g) /\ Shown(c, g)
    BY <1>3 DEF EditorInv
  <2>2. AnswersFit(g)'
    BY <1>2, <2>1 DEF AnswersFit
  <2>3. TabFits(g)'
    BY <1>2, <2>1 DEF TabFits, IsOpen, Shown
  <2>4. CopyFits(g)'
    BY <2>1 DEF CopyFits
  <2> QED BY <2>2, <2>3, <2>4
<1> QED BY <1>1, <1>3 DEF EditorInv

LEMMA ArriveInv == ASSUME EditorInv, NEW c \in EditorCalls, Arrive(c) PROVE EditorInv'
<1> DEFINE f == fileCalls[c].file
<1>1. EditorTyped /\ fileCalls[c] \in FileCall /\ fileCalls \in [EditorCalls -> FileCall]
      /\ UNCHANGED <<disk, agent, gestures, why>> /\ WhyTyped
  BY DEF EditorInv, EditorTyped, Arrive, WhyTyped
<1>2. /\ fileCalls[c].does \notin {"nothing", "list"} => f \in Files
      /\ fileCalls[c].text \in EditorText /\ fileCalls[c].names \in SUBSET Files
      /\ NoFileCall \in FileCall /\ NoFileCall.at = "none" /\ NoTab \in Tab
  BY <1>1, CallFacts, NoCallFacts
<1>3. ASSUME NEW g \in Files, why'[g] = "none" PROVE why[g] = "none" /\ AnswersFit(g)
  BY <1>1, <1>3 DEF EditorInv
<1>4. [text |-> fileCalls[c].text, dirty |-> FALSE] \in Tab
  BY <1>2 DEF Tab
<1>5. CASE ReadArrives(c)
  <2> DEFINE tab == [text |-> fileCalls[c].text, dirty |-> FALSE]
  <2>1. /\ f \in Files /\ fileCalls' = [fileCalls EXCEPT ![c] = NoFileCall] /\ activeTab' \in Files
        /\ UNCHANGED <<fileList, saveTimer>> /\ Served(c, f, {"read", "save"})
        /\ \A kinds : \A g \in Files : "read" \notin kinds => ~Served(c, g, kinds)
    BY <1>2, <1>5 DEF ReadArrives, Returns, Served
  <2>2. tabs' = (IF IsOpen(f) THEN tabs ELSE [tabs EXCEPT ![f] = tab]) /\ tab.text = fileCalls[c].text
    BY <1>5 DEF ReadArrives
  <2>3. tab \in Tab
    BY <1>4
  <2> HIDE DEF tab
  <2>4. tabs' \in [Files -> Tab] /\ \A g \in Files : tabs'[g] = tabs[g] \/ (g = f /\ tabs'[g].text = fileCalls[c].text)
    BY <1>1, <2>1, <2>2, <2>3 DEF EditorTyped
  <2>5. \A g \in Files : why'[g] = "none" => why[g] = "none" /\ Shown(c, g)
    BY <1>3, <2>1, <2>4 DEF Shown, AnswersFit
  <2> QED BY <1>1, <1>2, <2>1, <2>4, <2>5, ArrivedInv DEF EditorTyped
<1>6. CASE SaveArrives(c)
  <2> DEFINE tab == [text |-> fileCalls[c].text, dirty |-> FALSE]
  <2>1. /\ f \in Files /\ fileCalls' = [fileCalls EXCEPT ![c] = NoFileCall]
        /\ UNCHANGED <<fileList, activeTab, saveTimer>> /\ Served(c, f, {"read", "save"})
        /\ \A kinds : \A g \in Files : g # f => ~Served(c, g, kinds)
    BY <1>2, <1>6 DEF SaveArrives, Returns, Served
  <2>2. tabs' = (IF IsOpen(f) THEN [tabs EXCEPT ![f] = tab] ELSE tabs) /\ tab.text = fileCalls[c].text
    BY <1>6 DEF SaveArrives
  <2>3. tab \in Tab
    BY <1>4
  <2> HIDE DEF tab
  <2>4. /\ tabs' \in [Files -> Tab] /\ \A g \in Files : g # f => tabs'[g] = tabs[g]
        /\ tabs'[f] = NoTab \/ tabs'[f].text = fileCalls[c].text
    BY <1>1, <2>1, <2>2, <2>3 DEF EditorTyped, IsOpen
  <2>5. \A g \in Files : why'[g] = "none" => why[g] = "none" /\ Shown(c, g)
    BY <1>3, <2>1, <2>4 DEF Shown, AnswersFit
  <2> QED BY <1>1, <1>2, <2>1, <2>4, <2>5, ArrivedInv DEF EditorTyped
<1>7. CASE CreateArrives(c)
  <2> DEFINE call == [fileCalls[c] EXCEPT !.does = "newList", !.at = "asked"]
  <2>1. fileCalls[c].does = "create" /\ UNCHANGED <<fileList, tabs, activeTab, saveTimer>>
        /\ fileCalls' = [fileCalls EXCEPT ![c] = call]
    BY <1>1, <1>7 DEF CreateArrives
  <2>2. call \in FileCall /\ call.at = "asked"
    BY <1>1, <2>1 DEF FileCall, CallOf
  <2> HIDE DEF call
  <2>3. \A g \in Files : why'[g] = "none" => why[g] = "none" /\ Shown(c, g)
    BY <1>3, <2>1 DEF Shown, Served
  <2> QED BY <1>1, <2>1, <2>2, <2>3, ArrivedInv DEF EditorTyped
<1>8. CASE NewListArrives(c)
  <2>1. /\ fileCalls[c].does = "newList" /\ fileList' \in SUBSET Files /\ activeTab' \in Files \cup {NoFile}
        /\ UNCHANGED <<tabs, saveTimer>> /\ f \in Files
        /\ \/ fileCalls' = [fileCalls EXCEPT ![c] = NoFileCall]
           \/ fileCalls' = [fileCalls EXCEPT ![c] = NewCall("read", f, NoText)]
    BY <1>1, <1>2, <1>8 DEF NewListArrives, OpenNew, Returns, EditorTyped
  <2>2. NewCall("read", f, NoText) \in FileCall /\ NewCall("read", f, NoText).at = "asked"
    BY <2>1, NewCallFacts, NoCallFacts
  <2>3. \A g \in Files : why'[g] = "none" => why[g] = "none" /\ Shown(c, g)
    BY <1>3, <2>1 DEF Shown, Served
  <2> QED BY <1>1, <1>2, <2>1, <2>2, <2>3, ArrivedInv DEF EditorTyped
<1>9. CASE DeleteArrives(c)
  <2>1. /\ fileCalls[c].does = "delete" /\ UNCHANGED <<fileList, saveTimer>> /\ f \in Files
        /\ fileCalls' = [fileCalls EXCEPT ![c] = NewCall("list", NoFile, NoText)]
        /\ tabs' = [tabs EXCEPT ![f] = NoTab] /\ activeTab' \in Files \cup {NoFile}
    BY <1>1, <1>2, <1>9 DEF DeleteArrives, Closed, EditorTyped
  <2>2. NewCall("list", NoFile, NoText) \in FileCall /\ NewCall("list", NoFile, NoText).at = "asked"
    BY NewCallFacts, NoCallFacts
  <2>3. tabs' \in [Files -> Tab] /\ tabs'[f] = NoTab /\ \A g \in Files : g # f => tabs'[g] = tabs[g]
    BY <1>1, <1>2, <2>1 DEF EditorTyped
  <2>4. \A g \in Files : why'[g] = "none" => why[g] = "none" /\ Shown(c, g)
    BY <1>3, <2>1, <2>3 DEF Shown, Served
  <2> QED BY <1>1, <2>1, <2>2, <2>3, <2>4, ArrivedInv DEF EditorTyped
<1>10. CASE ListArrives(c)
  <2>1. /\ fileCalls[c].does = "list" /\ fileList' \in SUBSET Files /\ UNCHANGED <<tabs, activeTab, saveTimer>>
        /\ fileCalls' = [fileCalls EXCEPT ![c] = NoFileCall]
    BY <1>2, <1>10 DEF ListArrives, Returns
  <2>2. \A g \in Files : why'[g] = "none" => why[g] = "none" /\ Shown(c, g)
    BY <1>3, <2>1 DEF Shown, Served
  <2> QED BY <1>1, <1>2, <2>1, <2>2, ArrivedInv DEF EditorTyped
<1> QED BY <1>5, <1>6, <1>7, <1>8, <1>9, <1>10 DEF Arrive

LEMMA FileCallFailsInv == ASSUME EditorInv, NEW c \in EditorCalls, FileCallFails(c) PROVE EditorInv'
<1>1. /\ EditorTyped /\ fileCalls[c] \in FileCall /\ fileCalls' = [fileCalls EXCEPT ![c] = NoFileCall]
      /\ UNCHANGED <<disk, fileList, tabs, activeTab, saveTimer, agent, gestures>>
  BY DEF EditorInv, EditorTyped, FileCallFails, Returns
<1>2. WhyTyped /\ \A g \in Files : why'[g] = "none" => why[g] = "none" /\ ~Served(c, g, {"save", "delete"})
  BY <1>1 DEF EditorTyped, FileCallFails, WhyTyped, Served
<1>3. \A g \in Files : why'[g] = "none" => why[g] = "none" /\ Shown(c, g)
  BY <1>1, <1>2 DEF Shown
<1> QED BY <1>1, <1>2, <1>3, NoCallFacts, ArrivedInv DEF EditorTyped

LEMMA ElseWritesFileInv ==
    ASSUME EditorInv, NEW f \in Files, NEW text \in Typed \cup {NoText}, ElseWritesFile(f, text)
    PROVE  EditorInv'
<1>1. EditorTyped /\ text \in EditorText /\ gestures' \in Nat /\ disk' = [disk EXCEPT ![f] = text]
      /\ UNCHANGED <<fileList, tabs, activeTab, saveTimer, fileCalls, agent>>
  <2>1. EditorTyped /\ text \in EditorText
    BY DEF EditorInv, EditorText
  <2>2. gestures \in Nat /\ gestures' = gestures + 1
    BY <2>1 DEF EditorTyped, ElseWritesFile, Gesture
  <2>3. gestures' \in Nat
    BY <2>2
  <2> QED BY <2>1, <2>3 DEF ElseWritesFile
<1>2. /\ disk' \in [Files -> EditorText] /\ \A g \in Files : g # f => disk'[g] = disk[g]
      /\ WhyTyped /\ \A g \in Files : why'[g] = "none" => why[g] = "none"
      /\ why'[f] = "none" => ~IsOpen(f) /\ On(f) = {} /\ ~Applying
  <2>1. disk' \in [Files -> EditorText] /\ \A g \in Files : g # f => disk'[g] = disk[g]
    BY <1>1 DEF EditorTyped
  <2>2. why' = IF IsOpen(f) \/ On(f) # {} \/ Applying THEN [why EXCEPT ![f] = "elsewhere"] ELSE why
    BY DEF ElseWritesFile
  <2>3. CASE IsOpen(f) \/ On(f) # {} \/ Applying
    BY <1>1, <2>1, <2>2, <2>3 DEF EditorTyped, WhyTyped
  <2>4. CASE ~(IsOpen(f) \/ On(f) # {} \/ Applying)
    BY <1>1, <2>1, <2>2, <2>4 DEF EditorTyped, WhyTyped
  <2> QED BY <2>3, <2>4
<1>3. EditorTyped'
  BY <1>1, <1>2 DEF EditorTyped, WhyTyped, Applying
<1>4. ASSUME NEW g \in Files, why'[g] = "none"
      PROVE  AnswersFit(g)' /\ TabFits(g)' /\ CopyFits(g)'
  <2>1. AnswersFit(g) /\ TabFits(g) /\ CopyFits(g) /\ \A kinds : \A c \in EditorCalls : Served(c, g, kinds)' <=> Served(c, g, kinds)
    BY <1>1, <1>2, <1>4 DEF EditorInv, Served
  <2>2. CASE g # f
    BY <1>1, <1>2, <2>1, <2>2 DEF AnswersFit, TabFits, CopyFits, IsOpen
  <2>3. CASE g = f
    <3>1. \A c \in EditorCalls : ~Served(c, g, {"read", "save"})
      BY <1>2, <1>4, <2>3 DEF On, Served
    <3>2. g \notin agent'.written /\ ~IsOpen(g)'
      BY <1>1, <1>2, <1>4, <2>3 DEF EditorTyped, IsOpen
    <3> QED BY <2>1, <3>1, <3>2 DEF AnswersFit, TabFits, CopyFits
  <2> QED BY <2>2, <2>3
<1> QED BY <1>3, <1>4 DEF EditorInv

\* The panel applies a change, begins with a copy of the tabs, or leaves what it has done.
LEMMA ApplyChangeInv == EditorInv /\ ApplyChange => EditorInv'
<1> SUFFICES ASSUME EditorInv, ApplyChange PROVE EditorInv'
  OBVIOUS
<1> DEFINE change == Head(agent.left)
           f == change.file
           text == IF change.does = "delete" THEN NoText
                   ELSE IF f \in agent.known THEN change.text ELSE Created(change.text)
           tab == IF change.does = "delete" THEN NoTab ELSE [text |-> change.text, dirty |-> FALSE]
           known == IF change.does = "delete" THEN agent.known \ {f} ELSE agent.known \cup {f}
           active == IF change.does # "delete" THEN f ELSE IF agent.active = f THEN NoFile ELSE agent.active
           reason == IF On(f) # {} THEN "overlap"
                     ELSE IF change.does # "delete" /\ f \notin agent.known /\ change.text = Special THEN "altered"
                     ELSE "none"
<1>1. EditorTyped /\ Applying /\ agent.left # <<>> /\ agent \in Agent /\ agent.tabs \in [Files -> Tab]
  BY DEF EditorInv, EditorTyped, ApplyChange
<1>2. change \in Change /\ Tail(agent.left) \in Seq(Change)
  BY <1>1 DEF Agent
<1>3. f \in Files /\ change.text \in EditorText /\ NoText \in EditorText /\ "altered" \in EditorText
  BY <1>2 DEF Change, EditorText
<1>4. /\ UNCHANGED <<fileList, tabs, activeTab, saveTimer, fileCalls, gestures>>
      /\ disk' = [disk EXCEPT ![f] = text] /\ why' = [why EXCEPT ![f] = reason]
      /\ agent' = [at |-> "applying", left |-> Tail(agent.left), written |-> agent.written \cup {f},
                   known |-> known, tabs |-> [agent.tabs EXCEPT ![f] = tab], active |-> active]
  BY DEF ApplyChange
<1>5. /\ text \in EditorText /\ tab \in Tab /\ known \in SUBSET Files /\ active \in Files \cup {NoFile}
      /\ reason \in {"none", "overlap", "altered"}
  BY <1>1, <1>3, NoCallFacts DEF Created, Tab, Agent
<1>6. reason = "none" => On(f) = {} /\ (tab # NoTab => tab.text = text)
  BY DEF Created
<1> HIDE DEF change, text, tab, known, active, reason
<1> HIDE DEF f
<1>7. /\ [agent.tabs EXCEPT ![f] = tab] \in [Files -> Tab] /\ agent.written \cup {f} \in SUBSET Files
  BY <1>1, <1>3, <1>5 DEF Agent
<1>8. /\ agent' \in Agent /\ agent'.at = "applying" /\ agent'.tabs = [agent.tabs EXCEPT ![f] = tab]
      /\ agent'.written = agent.written \cup {f}
  BY <1>2, <1>4, <1>5, <1>7 DEF Agent
<1>9. disk' \in [Files -> EditorText] /\ WhyTyped
  BY <1>1, <1>3, <1>4, <1>5 DEF EditorTyped, WhyTyped
<1>10. EditorTyped'
  BY <1>1, <1>4, <1>7, <1>8, <1>9 DEF EditorTyped, WhyTyped, Applying
<1>11. ASSUME NEW g \in Files, why'[g] = "none"
       PROVE  AnswersFit(g)' /\ TabFits(g)' /\ CopyFits(g)'
  <2>1. CASE g # f
    <3>1. AnswersFit(g) /\ TabFits(g) /\ CopyFits(g)
      BY <1>1, <1>4, <1>11, <2>1 DEF EditorInv, EditorTyped
    <3>2. disk'[g] = disk[g] /\ agent'.tabs[g] = agent.tabs[g] /\ (g \in agent'.written <=> g \in agent.written)
      BY <1>1, <1>4, <1>8, <2>1 DEF EditorTyped
    <3>3. UNCHANGED <<tabs, fileCalls>>
      BY <1>4
    <3> QED BY <3>1, <3>2, <3>3 DEF AnswersFit, TabFits, CopyFits, IsOpen, Served
  <2>2. CASE g = f
    <3>1. reason = "none" /\ disk'[g] = text /\ agent'.tabs[g] = tab /\ g \in agent'.written /\ UNCHANGED fileCalls
      BY <1>1, <1>3, <1>4, <1>8, <1>11, <2>2 DEF EditorTyped
    <3>2. \A c \in EditorCalls : ~Served(c, g, {"read", "save"})
      BY <1>6, <2>2, <3>1 DEF On, Served
    <3>3. AnswersFit(g)'
      BY <3>1, <3>2 DEF AnswersFit, Served
    <3> QED BY <1>6, <3>1, <3>3 DEF TabFits, CopyFits
  <2> QED BY <2>1, <2>2
<1> QED BY <1>10, <1>11 DEF EditorInv

LEMMA HandleApplyInv == EditorInv /\ HandleApply => EditorInv'
<1> SUFFICES ASSUME EditorInv, HandleApply PROVE EditorInv'
  OBVIOUS
<1>1. EditorTyped /\ agent.at = "proposed" /\ agent.written = {} /\ agent \in Agent
      /\ UNCHANGED <<disk, fileList, tabs, activeTab, saveTimer, fileCalls, gestures, why>>
  BY DEF EditorInv, EditorTyped, HandleApply, Applying
<1>2. agent' \in Agent /\ agent'.at = "applying" /\ agent'.tabs = tabs /\ agent'.written = {}
  <2>1. agent' = [[[[agent EXCEPT !.at = "applying"] EXCEPT !.tabs = tabs] EXCEPT !.active = activeTab] EXCEPT !.known = fileList]
    BY DEF HandleApply
  <2> QED BY <1>1, <2>1 DEF Agent, EditorTyped
<1>3. EditorTyped'
  BY <1>1, <1>2 DEF EditorTyped, Applying
<1>4. ASSUME NEW g \in Files, why'[g] = "none"
      PROVE  AnswersFit(g)' /\ TabFits(g)' /\ CopyFits(g)'
  BY <1>1, <1>2, <1>4 DEF EditorInv, AnswersFit, TabFits, CopyFits, IsOpen, Served
<1> QED BY <1>3, <1>4 DEF EditorInv

LEMMA ApplyFailsInv == EditorInv /\ ApplyFails => EditorInv'
<1> SUFFICES ASSUME EditorInv, ApplyFails PROVE EditorInv'
  OBVIOUS
<1>1. EditorTyped /\ agent' = NoAgent /\ why' = [f \in Files |-> IF f \in agent.written THEN "partial" ELSE why[f]]
      /\ UNCHANGED <<disk, fileList, tabs, activeTab, saveTimer, fileCalls, gestures>>
  BY DEF EditorInv, ApplyFails
<1>2. WhyTyped /\ \A g \in Files : why'[g] = "none" => why[g] = "none" /\ g \notin agent.written
  BY <1>1 DEF EditorTyped, WhyTyped
<1>3. EditorTyped'
  BY <1>1, <1>2, NoAgentFacts DEF EditorTyped, WhyTyped, Applying
<1>4. ASSUME NEW g \in Files, why'[g] = "none"
      PROVE  AnswersFit(g)' /\ TabFits(g)' /\ CopyFits(g)'
  BY <1>1, <1>2, <1>4, NoAgentFacts DEF EditorInv, AnswersFit, TabFits, CopyFits, IsOpen, Served
<1> QED BY <1>3, <1>4 DEF EditorInv

LEMMA EndApplyInv == ASSUME EditorInv, NEW c \in EditorCalls, EndApply(c) PROVE EditorInv'
<1>1. EditorTyped /\ Applying /\ agent' = NoAgent /\ tabs' = agent.tabs /\ agent.tabs \in [Files -> Tab]
      /\ activeTab' = agent.active /\ agent \in Agent /\ UNCHANGED <<disk, fileList, saveTimer, gestures>>
  BY DEF EditorInv, EditorTyped, EndApply
<1>2. Begun
  BY NewCallFacts, NoCallFacts, CallsBegin DEF EndApply
<1>3. WhyTyped /\ \A g \in Files : why'[g] = "none" =>
                      why[g] = "none" /\ (g \in agent.written \/ tabs'[g] = tabs[g])
  BY <1>1 DEF EndApply, EditorTyped, WhyTyped
<1>4. EditorTyped'
  <2>1. fileCalls' \in [EditorCalls -> FileCall]
    BY <1>1, <1>2 DEF Begun, EditorTyped
  <2>2. activeTab' \in Files \cup {NoFile}
    BY <1>1 DEF Agent
  <2> QED BY <1>1, <1>3, <2>1, <2>2, NoAgentFacts DEF EditorTyped, WhyTyped, Applying
<1>5. ASSUME NEW d \in EditorCalls, NEW f \in Files, NEW kinds
      PROVE  /\ Served(d, f, kinds)' => Served(d, f, kinds) /\ fileCalls'[d] = fileCalls[d]
             /\ Served(d, f, kinds) => Served(d, f, kinds)'
  BY <1>2, BegunFacts
<1>6. ASSUME NEW g \in Files, why'[g] = "none"
      PROVE  AnswersFit(g)' /\ TabFits(g)' /\ CopyFits(g)'
  <2>1. AnswersFit(g) /\ TabFits(g) /\ CopyFits(g)
    BY <1>3, <1>6 DEF EditorInv
  <2>2. AnswersFit(g)'
    BY <1>1, <1>5, <2>1 DEF AnswersFit
  <2>3. CASE g \in agent.written
    BY <1>1, <2>1, <2>2, <2>3, NoAgentFacts DEF TabFits, CopyFits, IsOpen
  <2>4. CASE g \notin agent.written
    BY <1>1, <1>3, <1>5, <1>6, <2>1, <2>2, <2>4, NoAgentFacts DEF TabFits, CopyFits, IsOpen
  <2> QED BY <2>3, <2>4
<1> QED BY <1>4, <1>6 DEF EditorInv

\* A tab without the dirty mark shows what the file holds, for any number of files and of calls under
\* way, whatever is typed and proposed, and in whatever order calls are served, answered and lost.
THEOREM CleanTabsAreSaved == EditorSpec => []CleanTabIsSaved
<1>1. EditorInv /\ [EditorNext]_editorVars => EditorInv'
  <2> SUFFICES ASSUME EditorInv, [EditorNext]_editorVars PROVE EditorInv'
    OBVIOUS
  <2>1. CASE UNCHANGED editorVars
    BY <2>1 DEF editorVars, EditorInv, EditorTyped, Applying, AnswersFit, TabFits, CopyFits, Served, IsOpen
  <2>2. ASSUME NEW c \in EditorCalls,
               \/ \E f \in Files : ClickFile(c, f) \/ HandleDeleteFile(c, f) \/ HandleNewFile(c, f)
               \/ TimerFires(c) \/ HandleManualSave(c) \/ RefreshFiles(c)
        PROVE  EditorInv'
    BY <2>2, CallsInv
  <2>3. ASSUME NEW c \in EditorCalls, Serve(c) \/ Arrive(c) \/ FileCallFails(c) \/ EndApply(c)
        PROVE  EditorInv'
    BY <2>3, ServeInv, ArriveInv, FileCallFailsInv, EndApplyInv
  <2>4. ASSUME NEW f \in Files, NEW text \in Typed \cup {NoText}, ElseWritesFile(f, text) PROVE EditorInv'
    BY <2>4, ElseWritesFileInv
  <2>5. ASSUME (\E f \in Files : SelectTab(f) \/ CloseTab(f)) \/ (\E text \in Typed : Type(text)) \/ AskAgent
        PROVE  EditorInv'
    BY <2>5, TabsInv
  <2>6. ASSUME HandleApply \/ ApplyChange \/ ApplyFails PROVE EditorInv'
    BY <2>6, HandleApplyInv, ApplyChangeInv, ApplyFailsInv
  <2> QED BY <2>1, <2>2, <2>3, <2>4, <2>5, <2>6 DEF EditorNext
<1>2. EditorInv => CleanTabIsSaved
  <2> SUFFICES ASSUME EditorInv, NEW f \in Files,
                      IsOpen(f), ~tabs[f].dirty, On(f) = {}, ~Applying, why[f] = "none"
               PROVE  tabs[f].text = disk[f]
    BY DEF CleanTabIsSaved
  <2>1. TabFits(f) /\ agent.written = {}
    BY DEF EditorInv, EditorTyped
  <2>2. \A c \in EditorCalls : ~Served(c, f, {"save", "delete"})
    BY DEF On, Served
  <2> QED BY <2>1, <2>2 DEF TabFits
<1> QED BY EditorInitInv, <1>1, <1>2, PTL DEF EditorSpec

=============================================================================
