--------------------------- MODULE PressureProofs ---------------------------
(***************************************************************************)
(* Proofs about the pressure report for any workers, requests, thresholds  *)
(* and durations.                                                          *)
(*                                                                         *)
(* The tracker's counters are tied to the history of observations (Runs)   *)
(* and to the calm ticks (Settling); while no pair was listed without a    *)
(* unified worker, nothing on a pair is ever counted or timed (Absorbed).  *)
(***************************************************************************)
EXTENDS Pressure, FiniteSetTheorems, SequenceTheorems, TLAPS

Request == [phase : {"none", "chosen", "prefill", "decode", "single"}, uses : SUBSET Workers]
Tracker == [current : States, ticks : [States -> 0..Sustain], age : 0..Cooldown]

\* A request uses a pair or one unified worker.
Shape(S) ==
  \/ \E p, d \in Workers : S = {p, d} /\ RoleOf[p] = "prefill" /\ RoleOf[d] = "decode"
  \/ \E u \in Workers : S = {u} /\ RoleOf[u] = "unified"

\* Before it is chosen for, a request uses no worker; a pair answers in two phases.
RequestOK(q) ==
  /\ q \in Request
  /\ q.phase = "none" => q.uses = {}
  /\ q.phase # "none" => Shape(q.uses)
  /\ q.phase = "single" => OfRole(q.uses, "unified") # {}
  /\ q.phase \in {"prefill", "decode"} => OfRole(q.uses, "unified") = {}

\* Values of the proxy's variables.
ProxyTypes ==
  /\ workers \subseteq Workers
  /\ DOMAIN stats \subseteq Workers /\ \A w \in DOMAIN stats : stats[w] \in Nat
  /\ request \in [Requests -> Request] /\ \A r \in Requests : RequestOK(request[r])

\* Values of the tracker and of the history.
TrackerTypes == tracker \in Tracker /\ seen \in Seq(States) /\ calm \in 0..Settled

-----------------------------------------------------------------------------
(* Least and greatest.                                                      *)

\* The smaller of two numbers.
LEMMA MinOfTwo ==
  ASSUME NEW a \in Int, NEW b \in Int
  PROVE  Min({a, b}) = IF a <= b THEN a ELSE b
<1>1. \A x \in {a, b} : (\A y \in {a, b} : x <= y) <=> x = IF a <= b THEN a ELSE b
  OBVIOUS
<1>2. (IF a <= b THEN a ELSE b) \in {a, b}
  OBVIOUS
<1> QED  BY <1>1, <1>2 DEF Min

\* The greatest of three numbers.
LEMMA MaxOfThree ==
  ASSUME NEW a \in Int, NEW b \in Int, NEW c \in Int
  PROVE  Max({a, b, c}) \in {a, b, c} /\ Max({a, b, c}) >= a /\ Max({a, b, c}) >= b /\ Max({a, b, c}) >= c
<1>1. \E x \in {a, b, c} : \A y \in {a, b, c} : x >= y
  <2>1. CASE a >= b /\ a >= c
    BY <2>1
  <2>2. CASE b >= a /\ b >= c
    BY <2>2
  <2>3. CASE c >= a /\ c >= b
    BY <2>3
  <2> QED  BY <2>1, <2>2, <2>3
<1>2. /\ Max({a, b, c}) \in {a, b, c}
      /\ \A y \in {a, b, c} : Max({a, b, c}) >= y
  BY <1>1, Zenon DEF Max
<1> QED  BY <1>2

\* What Settled is for: the cooldown and the calm ticks are over by then.
LEMMA SettledBounds ==
  Settled \in Nat /\ Settled >= 1 /\ Settled >= Cooldown /\ Settled >= Sustain \div 2
<1>1. Sustain \div 2 \in Nat /\ Cooldown \in Nat
  BY PressureAssumption
<1>2. PICK h \in Nat : h = Sustain \div 2
  BY <1>1
<1>3. Max({Cooldown, h, 1}) \in {Cooldown, h, 1} /\ Max({Cooldown, h, 1}) >= Cooldown
      /\ Max({Cooldown, h, 1}) >= h /\ Max({Cooldown, h, 1}) >= 1
  BY <1>1, MaxOfThree
<1>4. Settled = Max({Cooldown, h, 1})
  BY <1>2 DEF Settled
<1> QED  BY <1>1, <1>2, <1>3, <1>4

-----------------------------------------------------------------------------
(* The tracker.                                                             *)

\* One more of the observation, none of the others.
LEMMA Counted ==
  ASSUME TrackerTypes, NEW o \in States
  PROVE  /\ Count(o) \in [States -> 0..Sustain]
         /\ \A s \in States \ {o} : Count(o)[s] = 0
         /\ Count(o)[o] = IF tracker.ticks[o] + 1 <= Sustain THEN tracker.ticks[o] + 1 ELSE Sustain
<1>1. tracker.ticks[o] \in 0..Sustain /\ Sustain \in Nat \ {0}
  BY PressureAssumption DEF TrackerTypes, Tracker
<1>2. Min({tracker.ticks[o] + 1, Sustain}) = IF tracker.ticks[o] + 1 <= Sustain THEN tracker.ticks[o] + 1 ELSE Sustain
  BY <1>1, MinOfTwo
<1>3. Count(o)[o] = Min({tracker.ticks[o] + 1, Sustain}) /\ \A s \in States \ {o} : Count(o)[s] = 0
  BY DEF Count
<1>4. \A s \in States : Count(o)[s] \in 0..Sustain
  BY <1>1, <1>2, <1>3
<1> QED  BY <1>2, <1>3, <1>4 DEF Count

\* What a tick observes is a state.
LEMMA Observed == Observation \in States
BY DEF Observation, States

\* What a tick wants: a side that was observed Sustain times, calm after half as many
\* observations, or what it has.
LEMMA Targeted ==
  ASSUME TrackerTypes, NEW o \in States, NEW t, t = Target(Count(o))
  PROVE  /\ t \in States
         /\ t # tracker.current /\ t # "normal" => t = o /\ Count(o)[o] = Sustain
         /\ t # tracker.current /\ t = "normal" => Count(o)["normal"] >= Sustain \div 2
         /\ o = "normal" => t \in {"normal", tracker.current}
         /\ o = "normal" /\ Count(o)["normal"] >= Sustain \div 2 => t = "normal"
<1>1. /\ Count(o) \in [States -> 0..Sustain]
      /\ \A s \in States \ {o} : Count(o)[s] = 0
  BY Counted
<1>2. Sustain \in Nat \ {0} /\ tracker.current \in States
  BY PressureAssumption DEF TrackerTypes, Tracker
<1>3. t = IF Count(o)["prefill_hot"] >= Sustain THEN "prefill_hot"
          ELSE IF Count(o)["decode_hot"] >= Sustain THEN "decode_hot"
          ELSE IF Count(o)["normal"] >= Sustain \div 2 THEN "normal"
          ELSE tracker.current
  BY DEF Target
<1>4. Sustain \div 2 \in Nat
  BY <1>2
<1> QED  BY <1>1, <1>2, <1>3, <1>4 DEF States

\* A tick in terms of its observation.
TickMoves(o) ==
  /\ tracker'.ticks = Count(o)
  /\ seen' = Remember(o)
  /\ calm' = IF o = "normal" THEN (IF calm + 1 <= Settled THEN calm + 1 ELSE Settled) ELSE 0
  /\ LET aged == IF tracker.age + 1 <= Cooldown THEN tracker.age + 1 ELSE Cooldown
     IN  \/ /\ Target(Count(o)) # tracker.current /\ aged >= Cooldown
            /\ tracker'.current = Target(Count(o)) /\ tracker'.age = 0
         \/ /\ ~(Target(Count(o)) # tracker.current /\ aged >= Cooldown)
            /\ tracker'.current = tracker.current /\ tracker'.age = aged

TickWaits ==
  /\ tracker'.current = tracker.current /\ tracker'.ticks = tracker.ticks
  /\ tracker'.age = IF tracker.age + 1 <= Cooldown THEN tracker.age + 1 ELSE Cooldown
  /\ UNCHANGED <<seen, calm>>

\* A tick looks at the group or waits for workers.
LEMMA TickCases ==
  ASSUME TrackerTypes, Tick
  PROVE  TickWaits \/ (workers # {} /\ TickMoves(Observation))
<1>1. tracker.age \in 0..Cooldown /\ Cooldown \in Nat /\ calm \in 0..Settled /\ Settled \in Nat
  BY PressureAssumption, SettledBounds DEF TrackerTypes, Tracker
<1>2. Min({tracker.age + 1, Cooldown}) = IF tracker.age + 1 <= Cooldown THEN tracker.age + 1 ELSE Cooldown
  BY <1>1, MinOfTwo
<1>3. Min({calm + 1, Settled}) = IF calm + 1 <= Settled THEN calm + 1 ELSE Settled
  BY <1>1, MinOfTwo
<1> DEFINE o == Observation
           aged == Min({tracker.age + 1, Cooldown})
           moves == Target(Count(o)) # tracker.current /\ aged >= Cooldown
<1>4. IF workers = {}
      THEN tracker' = [tracker EXCEPT !.age = aged] /\ UNCHANGED <<seen, calm>>
      ELSE /\ tracker' = [current |-> IF moves THEN Target(Count(o)) ELSE tracker.current,
                          ticks |-> Count(o), age |-> IF moves THEN 0 ELSE aged]
           /\ seen' = Remember(o) /\ Calm(o)
  BY DEF Tick
<1> HIDE DEF o
<1>5. CASE workers = {}
  <2>1. tracker' = [tracker EXCEPT !.age = aged] /\ UNCHANGED <<seen, calm>>
    BY <1>4, <1>5
  <2>2. tracker'.current = tracker.current /\ tracker'.ticks = tracker.ticks /\ tracker'.age = aged
    BY <2>1 DEF TrackerTypes, Tracker
  <2> QED  BY <1>2, <2>1, <2>2 DEF TickWaits
<1>6. CASE workers # {}
  <2>1. /\ tracker'.current = (IF moves THEN Target(Count(o)) ELSE tracker.current)
        /\ tracker'.ticks = Count(o) /\ tracker'.age = IF moves THEN 0 ELSE aged
    BY <1>4, <1>6
  <2>2. calm' = IF o = "normal" THEN (IF calm + 1 <= Settled THEN calm + 1 ELSE Settled) ELSE 0
    BY <1>3, <1>4, <1>6 DEF Calm
  <2>3. TickMoves(o)
    BY <1>2, <1>4, <1>6, <2>1, <2>2 DEF TickMoves
  <2> QED  BY <1>6, <2>3 DEF o
<1> QED  BY <1>5, <1>6

\* What Remember keeps, counted from the newest observation back.
LEMMA Remembered ==
  ASSUME TrackerTypes, NEW o \in States
  PROVE  /\ Remember(o) \in Seq(States)
         /\ Len(seen) < Sustain => Len(Remember(o)) < Sustain
         /\ Len(Remember(o)) = (IF Len(seen) + 1 < Sustain THEN Len(seen) + 1 ELSE Len(seen))
         /\ Len(Remember(o)) >= 1 => Remember(o)[Len(Remember(o))] = o
         /\ \A j \in Nat : j >= 1 /\ j < Len(Remember(o)) => Remember(o)[Len(Remember(o)) - j] = seen[Len(seen) - (j - 1)]
<1>1. Sustain \in Nat \ {0}
  BY PressureAssumption
<1>2. PICK s \in Seq(States), n \in Nat : s = seen /\ n = Len(s)
  BY DEF TrackerTypes
<1>3. PICK l \in Seq(States) : l = Append(s, o)
  <2>1. Append(s, o) \in Seq(States)
    BY AppendProperties
  <2> QED  BY <2>1
<1>4. Len(l) = n + 1 /\ l[n + 1] = o /\ \A i \in 1..n : l[i] = s[i]
  BY <1>2, <1>3
<1>5. Remember(o) = IF n + 1 < Sustain THEN l ELSE Tail(l)
  BY <1>2, <1>3, <1>4 DEF Remember
<1>6. CASE n + 1 < Sustain
  BY <1>1, <1>2, <1>4, <1>5, <1>6
<1>7. CASE ~(n + 1 < Sustain)
  <2>1. PICK t \in Seq(States) : t = Tail(l)
    <3>1. l # <<>>
      BY <1>4
    <3>2. Tail(l) \in Seq(States)
      BY <3>1, HeadTailProperties
    <3> QED  BY <3>2
  <2>2. Len(t) = n /\ \A i \in 1..n : t[i] = l[i + 1]
    BY <1>3, <1>4, <2>1
  <2>3. n >= 1 => t[n] = o
    BY <1>4, <2>2
  <2>4. \A j \in Nat : j >= 1 /\ j < n => t[n - j] = s[n - (j - 1)]
    BY <1>4, <2>2
  <2> QED  BY <1>1, <1>2, <1>5, <1>7, <2>1, <2>2, <2>3, <2>4
<1> QED  BY <1>6, <1>7

\* The counters are the runs that the last observations end with.
Runs ==
  /\ Len(seen) < Sustain
  /\ \A s \in States : \A j \in Nat : j < tracker.ticks[s] /\ j + 1 < Sustain =>
       Len(seen) - j >= 1 /\ seen[Len(seen) - j] = s

\* The longer it has been calm, the longer the counter and, while the report is not
\* normal, the time since it changed.
Settling ==
  /\ tracker.ticks["normal"] >= calm \/ tracker.ticks["normal"] >= Sustain
  /\ tracker.current # "normal" => tracker.age >= calm \/ tracker.age >= Cooldown
  /\ CalmSettles

\* The tracker keeps its types.
LEMMA TrackerTypesStep ==
  ASSUME TrackerTypes, Tick
  PROVE  TrackerTypes'
<1>1. tracker \in Tracker /\ Cooldown \in Nat /\ Settled \in Nat /\ calm \in 0..Settled /\ seen \in Seq(States)
  BY PressureAssumption, SettledBounds DEF TrackerTypes
<1>2. Settled' = Settled
  BY DEF Settled
<1>3. \E c, t, a : tracker' = [current |-> c, ticks |-> t, age |-> a]
  <2>1. CASE workers = {}
    <3>1. PICK a : tracker' = [tracker EXCEPT !.age = a]
      BY <2>1 DEF Tick
    <3>2. tracker' = [current |-> tracker.current, ticks |-> tracker.ticks, age |-> a]
      BY <1>1, <3>1 DEF Tracker
    <3> QED  BY <3>2
  <2>2. CASE workers # {}
    BY <2>2 DEF Tick
  <2> QED  BY <2>1, <2>2
<1>4. CASE TickWaits
  <2>1. tracker'.current \in States /\ tracker'.ticks \in [States -> 0..Sustain] /\ tracker'.age \in 0..Cooldown
    BY <1>1, <1>4 DEF TickWaits, Tracker
  <2> QED  BY <1>1, <1>2, <1>3, <1>4, <2>1 DEF TickWaits, TrackerTypes, Tracker
<1>5. ASSUME NEW o \in States, TickMoves(o) PROVE TrackerTypes'
  <2>1. Count(o) \in [States -> 0..Sustain] /\ Target(Count(o)) \in States
    BY Counted, Targeted
  <2>2. tracker'.current \in States /\ tracker'.ticks \in [States -> 0..Sustain] /\ tracker'.age \in 0..Cooldown
    BY <1>1, <1>5, <2>1 DEF TickMoves, Tracker
  <2>3. seen' \in Seq(States)
    BY <1>5, Remembered DEF TickMoves
  <2>4. calm' \in 0..Settled
    BY <1>1, <1>5 DEF TickMoves
  <2> QED  BY <1>2, <1>3, <2>2, <2>3, <2>4 DEF TrackerTypes, Tracker
<1> QED  BY <1>4, <1>5, TickCases, Observed

\* A tick adds its observation to the run of its kind and ends the others.
LEMMA RunsStep ==
  ASSUME TrackerTypes, Runs, Tick
  PROVE  Runs'
<1>1. CASE TickWaits
  BY <1>1 DEF TickWaits, Runs
<1>2. ASSUME NEW o \in States, TickMoves(o) PROVE Runs'
  <2>1. PICK m \in Seq(States) : m = seen' /\ m = Remember(o)
    BY <1>2, Remembered DEF TickMoves
  <2>2. PICK n \in Nat, k \in Nat : n = Len(seen) /\ k = Len(m)
    BY <2>1 DEF TrackerTypes
  <2>3. /\ n < Sustain => k < Sustain
        /\ k = (IF n + 1 < Sustain THEN n + 1 ELSE n)
        /\ k >= 1 => m[k] = o
        /\ \A j \in Nat : j >= 1 /\ j < k => m[k - j] = seen[n - (j - 1)]
    BY <2>1, <2>2, Remembered
  <2>4. /\ \A s \in States \ {o} : tracker'.ticks[s] = 0
        /\ tracker'.ticks[o] = IF tracker.ticks[o] + 1 <= Sustain THEN tracker.ticks[o] + 1 ELSE Sustain
    BY <1>2, Counted DEF TickMoves
  <2>5. Sustain \in Nat \ {0} /\ tracker.ticks[o] \in 0..Sustain
    BY PressureAssumption DEF TrackerTypes, Tracker
  <2>6. n < Sustain /\ \A j \in Nat : j < tracker.ticks[o] /\ j + 1 < Sustain => n - j >= 1 /\ seen[n - j] = o
    BY <2>2 DEF Runs
  <2>7. ASSUME NEW s \in States, NEW j \in Nat, j < tracker'.ticks[s], j + 1 < Sustain
        PROVE  k - j >= 1 /\ m[k - j] = s
    <3>1. s = o /\ j < tracker.ticks[o] + 1
      BY <2>4, <2>5, <2>7
    <3>2. CASE j = 0
      BY <2>3, <2>6, <2>7, <3>1, <3>2
    <3>3. CASE j # 0
      <4>1. PICK i \in Nat : i = j - 1
        BY <3>3
      <4>2. n - i >= 1 /\ seen[n - i] = o
        BY <2>5, <2>6, <2>7, <3>1, <4>1, SMTT(60)
      <4>3. j >= 1 /\ j < k
        BY <2>3, <2>5, <2>6, <2>7, <3>3, <4>1, <4>2
      <4>4. m[k - j] = seen[n - (j - 1)]
        BY <2>3, <4>3
      <4> QED  BY <3>1, <4>1, <4>2, <4>3, <4>4
    <3> QED  BY <3>2, <3>3
  <2> QED  BY <2>1, <2>2, <2>3, <2>6, <2>7 DEF Runs
<1> QED  BY <1>1, <1>2, TickCases, Observed

\* Calm ticks bring the report back to normal when the cooldown is over.
LEMMA SettlingStep ==
  ASSUME TrackerTypes, Settling, Tick
  PROVE  Settling'
<1>1. /\ Settled \in Nat /\ Settled >= 1 /\ Settled >= Cooldown /\ Settled >= Sustain \div 2
      /\ Sustain \in Nat \ {0} /\ Cooldown \in Nat /\ Settled' = Settled
  BY PressureAssumption, SettledBounds DEF Settled
<1>2. /\ calm \in 0..Settled /\ tracker.age \in 0..Cooldown /\ tracker.ticks["normal"] \in 0..Sustain
      /\ tracker.current \in States
  BY DEF TrackerTypes, Tracker, States
<1>3. CASE TickWaits
  BY <1>1, <1>2, <1>3 DEF TickWaits, Settling, CalmSettles
<1>4. ASSUME NEW o \in States, TickMoves(o) PROVE Settling'
  <2>1. CASE o # "normal"
    <3>1. calm' = 0 /\ tracker'.ticks["normal"] = 0 /\ tracker'.age \in Nat
      BY <1>1, <1>2, <1>4, <2>1, Counted DEF TickMoves, States
    <3> QED  BY <1>1, <3>1 DEF Settling, CalmSettles
  <2>2. CASE o = "normal"
    <3>1. tracker'.ticks["normal"] = IF tracker.ticks["normal"] + 1 <= Sustain THEN tracker.ticks["normal"] + 1 ELSE Sustain
      BY <1>4, <2>2, Counted DEF TickMoves
    <3>2. calm' = IF calm + 1 <= Settled THEN calm + 1 ELSE Settled
      BY <1>4, <2>2 DEF TickMoves
    <3>3. PICK t : t = Target(Count(o))
      OBVIOUS
    <3>4. t \in {"normal", tracker.current} /\ (tracker'.ticks["normal"] >= Sustain \div 2 => t = "normal")
      BY <1>4, <2>2, <3>3, Targeted DEF TickMoves
    <3>5. PICK aged \in Nat : aged = IF tracker.age + 1 <= Cooldown THEN tracker.age + 1 ELSE Cooldown
      BY <1>1, <1>2
    <3>6. \/ t # tracker.current /\ aged >= Cooldown /\ tracker'.current = t /\ tracker'.age = 0
          \/ ~(t # tracker.current /\ aged >= Cooldown) /\ tracker'.current = tracker.current /\ tracker'.age = aged
      BY <1>4, <3>3, <3>5 DEF TickMoves
    <3>7. tracker'.ticks["normal"] >= calm' \/ tracker'.ticks["normal"] >= Sustain
      BY <1>1, <1>2, <3>1, <3>2 DEF Settling
    <3>8. tracker'.current # "normal" => tracker'.age >= calm' \/ tracker'.age >= Cooldown
      BY <1>1, <1>2, <3>2, <3>4, <3>5, <3>6 DEF Settling
    <3>9. calm' >= Settled => tracker'.current = "normal"
      <4>1. SUFFICES ASSUME calm' >= Settled, tracker'.current # "normal" PROVE FALSE
        OBVIOUS
      <4>2. tracker'.ticks["normal"] >= Sustain \div 2
        <5>1. PICK h \in Nat : h = Sustain \div 2 /\ h <= Sustain
          BY <1>1
        <5>2. PICK n \in Nat, c \in Nat : n = tracker'.ticks["normal"] /\ c = calm'
          BY <1>1, <1>2, <3>1, <3>2
        <5>3. c >= Settled /\ (n >= c \/ n >= Sustain) /\ Settled >= h
          BY <1>1, <3>7, <4>1, <5>1, <5>2
        <5> QED  BY <1>1, <5>1, <5>2, <5>3
      <4>3. t = "normal" /\ t # tracker.current /\ aged < Cooldown /\ tracker'.age = aged
        BY <1>1, <3>4, <3>6, <4>1, <4>2
      <4>4. calm' \in Nat /\ calm' >= Cooldown
        BY <1>1, <1>2, <3>2, <4>1
      <4> QED  BY <1>1, <3>8, <4>1, <4>3, <4>4
    <3> QED  BY <1>1, <3>7, <3>8, <3>9 DEF Settling, CalmSettles
  <2> QED  BY <2>1, <2>2
<1> QED  BY <1>3, <1>4, TickCases, Observed

-----------------------------------------------------------------------------
(* The report.                                                              *)

\* The tracker's part of the inductive invariant.
TrackerInv == TrackerTypes /\ Runs /\ Settling

\* It holds when the loop starts.
LEMMA TrackerInit ==
  ASSUME Init
  PROVE  TrackerInv
<1>1. /\ tracker = [current |-> "normal", ticks |-> [s \in States |-> 0], age |-> Cooldown]
      /\ seen = <<>> /\ calm = 0
  BY DEF Init
<1>2. Cooldown \in Nat /\ Sustain \in Nat \ {0} /\ Settled \in Nat /\ Settled >= 1
  BY PressureAssumption, SettledBounds
<1>3. [s \in States |-> 0] \in [States -> 0..Sustain] /\ Cooldown \in 0..Cooldown /\ "normal" \in States
  BY <1>2 DEF States
<1>4. tracker \in Tracker
  BY <1>1, <1>3 DEF Tracker
<1>5. Len(seen) = 0 /\ seen \in Seq(States)
  BY <1>1
<1>6. TrackerTypes
  BY <1>1, <1>2, <1>4, <1>5 DEF TrackerTypes
<1>7. \A s \in States : tracker.ticks[s] = 0
  BY <1>1
<1>8. Runs
  BY <1>2, <1>5, <1>7 DEF Runs
<1>9. Settling
  BY <1>1, <1>2, <1>3, <1>7 DEF Settling, CalmSettles
<1> QED  BY <1>6, <1>8, <1>9 DEF TrackerInv

\* Only a tick touches the tracker and its history.
LEMMA OnlyTicks ==
  ASSUME [Next]_vars
  PROVE  Tick \/ UNCHANGED <<tracker, seen, calm>>
BY DEF Next, vars, pressureVars, Sync, Choose, Begin, PrefillAnswered, DecodeAnswered, End

\* Every step keeps the tracker's part.
LEMMA TrackerStep ==
  ASSUME TrackerInv, [Next]_vars
  PROVE  TrackerInv'
<1>1. CASE Tick
  <2>1. TrackerTypes /\ Runs /\ Settling
    BY DEF TrackerInv
  <2>2. TrackerTypes' /\ Runs' /\ Settling'
    BY <1>1, <2>1, TrackerTypesStep, RunsStep, SettlingStep
  <2> QED  BY <2>2 DEF TrackerInv
<1>2. CASE UNCHANGED <<tracker, seen, calm>>
  BY <1>2 DEF TrackerInv, TrackerTypes, Tracker, Runs, Settling, CalmSettles, Settled
<1> QED  BY <1>1, <1>2, OnlyTicks

\* A change of the report comes with a run of observations of it.
LEMMA ChangeEarned ==
  ASSUME TrackerInv, Tick, tracker'.current # tracker.current
  PROVE  LET now == tracker'.current
             all == Append(seen, Observation)
             need == IF now = "normal" THEN Sustain \div 2 ELSE Sustain
         IN  Len(all) >= need /\ \A i \in (Len(all) - need + 1)..Len(all) : all[i] = now
<1>1. TickMoves(Observation) /\ TrackerTypes
  BY TickCases DEF TrackerInv, TickWaits
<1>2. PICK o \in States : o = Observation
  BY Observed
<1>3. PICK t : t = Target(Count(o))
  OBVIOUS
<1>4. tracker'.current = t /\ t # tracker.current
  BY <1>1, <1>2, <1>3 DEF TickMoves
<1>5. /\ t \in States /\ (t # "normal" => t = o /\ Count(o)[o] = Sustain)
      /\ (t = "normal" => Count(o)["normal"] >= Sustain \div 2)
  BY <1>1, <1>3, <1>4, Targeted
<1>6. PICK need \in Nat : need = (IF t = "normal" THEN Sustain \div 2 ELSE Sustain) /\ need <= Sustain
  BY PressureAssumption
<1>7. PICK n \in Nat : n = Len(seen)
  BY <1>1 DEF TrackerTypes
<1>8. PICK all \in Seq(States) : all = Append(seen, o)
  <2>1. Append(seen, o) \in Seq(States)
    BY <1>1, AppendProperties DEF TrackerTypes
  <2> QED  BY <2>1
<1>9. Len(all) = n + 1 /\ all[n + 1] = o /\ \A i \in 1..n : all[i] = seen[i]
  BY <1>1, <1>7, <1>8 DEF TrackerTypes
<1>10. Sustain \in Nat \ {0} /\ tracker.ticks \in [States -> 0..Sustain]
  BY <1>1, PressureAssumption DEF TrackerTypes, Tracker
<1>11. \A s \in States : \A j \in Nat : j < tracker.ticks[s] /\ j + 1 < Sustain => n - j >= 1 /\ seen[n - j] = s
  BY <1>7 DEF TrackerInv, Runs
<1>12. CASE need = 0
  BY <1>2, <1>4, <1>6, <1>8, <1>9, <1>12
<1>13. CASE need # 0
  <2>1. Count(o)[t] >= need
    BY <1>5, <1>6, <1>10
  <2>2. t = o /\ tracker.ticks[o] + 1 >= need
    <3>1. /\ \A s \in States \ {o} : Count(o)[s] = 0
          /\ Count(o)[o] = IF tracker.ticks[o] + 1 <= Sustain THEN tracker.ticks[o] + 1 ELSE Sustain
      BY <1>1, Counted
    <3>2. t = o
      BY <1>5, <1>13, <2>1, <3>1
    <3> QED  BY <1>6, <1>10, <2>1, <3>1, <3>2
  <2>3. ASSUME NEW j \in Nat, j + 1 < need PROVE n - j >= 1 /\ seen[n - j] = o
    <3>1. j < tracker.ticks[o] /\ j + 1 < Sustain
      BY <1>6, <1>10, <2>2, <2>3
    <3> QED  BY <1>11, <3>1
  <2>4. n + 1 >= need
    <3>1. CASE need = 1
      BY <3>1
    <3>2. CASE need # 1
      <4>1. PICK j \in Nat : j + 2 = need
        BY <1>13, <3>2
      <4> QED  BY <2>3, <4>1
    <3> QED  BY <3>1, <3>2
  <2>5. ASSUME NEW i \in (n + 1 - need + 1)..(n + 1) PROVE all[i] = o
    <3>1. CASE i = n + 1
      BY <1>9, <3>1
    <3>2. CASE i # n + 1
      <4>1. PICK j \in Nat : j = n - i
        BY <2>5, <3>2
      <4>2. n - j >= 1 /\ seen[n - j] = o
        <5>1. j + 1 < need
          BY <2>5, <4>1
        <5> QED  BY <2>3, <5>1
      <4>3. i \in 1..n /\ n - j = i
        BY <2>5, <3>2, <4>1, <4>2
      <4> QED  BY <1>9, <4>2, <4>3
    <3> QED  BY <3>1, <3>2
  <2>6. \A i \in (Len(all) - need + 1)..Len(all) : all[i] = t
    BY <1>9, <2>2, <2>5
  <2>7. Len(all) >= need
    BY <1>9, <2>4
  <2> QED  BY <1>2, <1>4, <1>6, <1>8, <2>6, <2>7, Zenon
<1> QED  BY <1>12, <1>13

\* However long a side was hot and however often the report changed, enough calm ticks
\* in a row make the report normal (pressureLoop with its cooldown).
THEOREM CalmSettlesHolds == Spec => []CalmSettles
<1>1. Init => TrackerInv
  BY TrackerInit
<1>2. TrackerInv /\ [Next]_vars => TrackerInv'
  BY TrackerStep
<1>3. TrackerInv => CalmSettles
  BY DEF TrackerInv, Settling
<1> QED  BY <1>1, <1>2, <1>3, PTL DEF Spec

\* The report changes only after as many observations in a row as pressureLoop asks
\* for, for every number of ticks it is configured with.
THEOREM EarnedHolds == Spec => Earned
<1>1. Init => TrackerInv
  BY TrackerInit
<1>2. TrackerInv /\ [Next]_vars => TrackerInv'
  BY TrackerStep
<1> DEFINE Justified ==
             LET now == tracker'.current
                 all == Append(seen, Observation)
                 need == IF now = "normal" THEN Sustain \div 2 ELSE Sustain
             IN  now # tracker.current =>
                   Len(all) >= need /\ \A i \in (Len(all) - need + 1)..Len(all) : all[i] = now
<1>3. TrackerInv /\ [Next]_vars => [Justified]_vars
  BY ChangeEarned, OnlyTicks
<1>4. Earned <=> [][Justified]_vars
  BY DEF Earned
<1> HIDE DEF Justified
<1> QED  BY <1>1, <1>2, <1>3, <1>4, PTL DEF Spec

-----------------------------------------------------------------------------
(* The requests in flight.                                                  *)

\* The count of a worker, 0 when the proxy has no statistics of it.
CountOn(w) == IF w \in DOMAIN stats THEN stats[w] ELSE 0

\* The units in flight on the workers of a role.
Load(role) == {x \in Workers \X Nat : RoleOf[x[1]] = role /\ x[2] \in 1..CountOn(x[1])}

\* Every worker's count is the number of requests on it.
Exact == \A w \in Workers : CountOn(w) = Cardinality(ActiveOn(w))

\* Both sides have the same number in flight.
Balanced ==
  /\ IsFiniteSet(Load("prefill")) /\ IsFiniteSet(Load("decode"))
  /\ Cardinality(Load("prefill")) = Cardinality(Load("decode"))

\* The proxy's part of the inductive invariant.
ProxyInv == ProxyTypes /\ Exact /\ Balanced

\* The requests on a worker are finitely many, no more than there are.
LEMMA ActiveFinite ==
  ASSUME NEW w
  PROVE  /\ IsFiniteSet(ActiveOn(w)) /\ Cardinality(ActiveOn(w)) \in Nat /\ Cardinality(Requests) \in Nat
         /\ Cardinality(ActiveOn(w)) <= Cardinality(Requests)
         /\ Cardinality(ActiveOn(w)) = 0 => ActiveOn(w) = {}
<1>1. ActiveOn(w) \subseteq Requests /\ IsFiniteSet(Requests)
  BY PressureAssumption DEF ActiveOn
<1>2. IsFiniteSet(ActiveOn(w)) /\ Cardinality(ActiveOn(w)) <= Cardinality(Requests)
  BY <1>1, FS_Subset
<1> QED  BY <1>1, <1>2, FS_CardinalityType, FS_EmptySet

\* The workers a request may be sent to are a pair or a unified worker of the list.
LEMMA ChosenShape ==
  ASSUME ProxyTypes, NEW pressure, NEW S \in FindRequestWorker(pressure)
  PROVE  Shape(S) /\ S \subseteq Workers
<1>1. \A W : FindBest(W) \subseteq W
  BY DEF FindBest
<1> DEFINE prefill == OfRole(workers, "prefill")
           decode  == OfRole(workers, "decode")
           unified == OfRole(workers, "unified")
<1>2. \/ S \in {{p, d} : p \in FindBest(prefill), d \in FindBest(decode)}
      \/ S \in {{u} : u \in FindBest(unified)}
  BY DEF FindRequestWorker
<1>3. /\ \A p \in prefill : p \in Workers /\ RoleOf[p] = "prefill"
      /\ \A d \in decode : d \in Workers /\ RoleOf[d] = "decode"
      /\ \A u \in unified : u \in Workers /\ RoleOf[u] = "unified"
  BY DEF OfRole, ProxyTypes
<1> HIDE DEF prefill, decode, unified
<1> QED  BY <1>1, <1>2, <1>3 DEF Shape

\* A step of a request that counts nothing keeps the counts.
LEMMA UncountedKept ==
  ASSUME Exact, Balanced, UNCHANGED stats, \A w \in Workers : ActiveOn(w)' = ActiveOn(w)
  PROVE  Exact' /\ Balanced'
BY DEF Exact, Balanced, CountOn, Load

\* Choosing counts nothing.
LEMMA ChooseStep ==
  ASSUME ProxyInv, NEW r \in Requests, NEW pressure, ChooseWorkers(r, pressure)
  PROVE  ProxyInv'
<1>1. PICK S \in FindRequestWorker(pressure) : request' = [request EXCEPT ![r] = [phase |-> "chosen", uses |-> S]]
  BY DEF ChooseWorkers
<1>2. Shape(S) /\ S \subseteq Workers
  BY <1>1, ChosenShape DEF ProxyInv
<1>3. /\ request' \in [Requests -> Request] /\ request[r].phase = "none"
      /\ request'[r] = [phase |-> "chosen", uses |-> S]
      /\ \A q \in Requests \ {r} : request'[q] = request[q]
  BY <1>1, <1>2 DEF ProxyInv, ProxyTypes, Request, ChooseWorkers
<1>4. RequestOK(request'[r])
  BY <1>2, <1>3 DEF RequestOK, Request
<1>5. ProxyTypes'
  BY <1>3, <1>4 DEF ProxyInv, ProxyTypes, ChooseWorkers
<1>6. \A w \in Workers : ActiveOn(w)' = ActiveOn(w)
  BY <1>3 DEF ActiveOn
<1> QED  BY <1>5, <1>6, UncountedKept DEF ProxyInv, ChooseWorkers

\* A prefill that answered still counts.
LEMMA PrefillStep ==
  ASSUME ProxyInv, NEW r \in Requests, PrefillDone(r)
  PROVE  ProxyInv'
<1>1. /\ request' \in [Requests -> Request] /\ request[r].phase = "prefill"
      /\ request'[r] = [phase |-> "decode", uses |-> request[r].uses]
      /\ \A q \in Requests \ {r} : request'[q] = request[q]
  BY DEF ProxyInv, ProxyTypes, Request, PrefillDone
<1>2. RequestOK(request[r])
  BY DEF ProxyInv, ProxyTypes
<1>3. RequestOK(request'[r])
  BY <1>1, <1>2 DEF RequestOK, Request
<1>4. ProxyTypes'
  BY <1>1, <1>3 DEF ProxyInv, ProxyTypes, PrefillDone
<1>5. \A w \in Workers : ActiveOn(w)' = ActiveOn(w)
  BY <1>1 DEF ActiveOn
<1> QED  BY <1>4, <1>5, UncountedKept DEF ProxyInv, PrefillDone

\* The load of a role when the count of one of its workers goes up, or of none.
LEMMA LoadUp ==
  ASSUME ProxyTypes, NEW role, IsFiniteSet(Load(role)), NEW c \in Workers, RoleOf[c] = role,
         CountOn(c)' = CountOn(c) + 1,
         \A w \in Workers \ {c} : RoleOf[w] = role => CountOn(w)' = CountOn(w)
  PROVE  IsFiniteSet(Load(role)') /\ Cardinality(Load(role)') = Cardinality(Load(role)) + 1
<1>1. PICK n \in Nat : n = CountOn(c)
  BY DEF ProxyTypes, CountOn
<1>2. PICK x : x = <<c, n + 1>>
  OBVIOUS
<1>3. Load(role)' = Load(role) \cup {x}
  <2>1. \A y \in Load(role)' : y \in Load(role) \/ y = x
    BY <1>1, <1>2 DEF Load
  <2>2. \A y \in Load(role) : y \in Load(role)'
    BY <1>1 DEF Load
  <2>3. x \in Load(role)'
    BY <1>1, <1>2 DEF Load
  <2> QED  BY <2>1, <2>2, <2>3
<1>4. x \notin Load(role)
  BY <1>1, <1>2 DEF Load
<1> QED  BY <1>3, <1>4, FS_AddElement

\* The load of a role when the count of one of its workers goes down.
LEMMA LoadDown ==
  ASSUME ProxyTypes, NEW role, IsFiniteSet(Load(role)), NEW c \in Workers, RoleOf[c] = role,
         CountOn(c) > 0, CountOn(c)' = CountOn(c) - 1,
         \A w \in Workers \ {c} : RoleOf[w] = role => CountOn(w)' = CountOn(w)
  PROVE  IsFiniteSet(Load(role)') /\ Cardinality(Load(role)') = Cardinality(Load(role)) - 1
<1>1. PICK n \in Nat : n = CountOn(c) /\ n > 0
  BY DEF ProxyTypes, CountOn
<1>2. PICK x : x = <<c, n>>
  OBVIOUS
<1>3. Load(role)' = Load(role) \ {x}
  <2>1. \A y \in Load(role)' : y \in Load(role) /\ y # x
    BY <1>1, <1>2 DEF Load
  <2>2. \A y \in Load(role) : y # x => y \in Load(role)'
    BY <1>1, <1>2 DEF Load
  <2> QED  BY <2>1, <2>2
<1>4. x \in Load(role)
  BY <1>1, <1>2 DEF Load
<1> QED  BY <1>3, <1>4, FS_RemoveElement

\* A load whose workers' counts stay is the same.
LEMMA LoadKept ==
  ASSUME NEW role, \A w \in Workers : RoleOf[w] = role => CountOn(w)' = CountOn(w)
  PROVE  Load(role)' = Load(role)
BY DEF Load

\* A request that begins counts once on each of its workers.
LEMMA BeginCounts ==
  ASSUME ProxyInv, NEW r \in Requests, BeginRequest(r), NEW uses, uses = request[r].uses
  PROVE  /\ ProxyTypes' /\ Exact'
         /\ \A w \in uses : CountOn(w)' = CountOn(w) + 1
         /\ \A w \in Workers \ uses : CountOn(w)' = CountOn(w)
<1>1. PICK phase : phase = request'[r].phase
  OBVIOUS
<1>2. /\ uses \subseteq Workers /\ request[r].phase = "chosen"
      /\ phase = (IF OfRole(uses, "unified") = {} THEN "prefill" ELSE "single")
      /\ request'[r] = [phase |-> phase, uses |-> uses] /\ request' \in [Requests -> Request]
      /\ \A q \in Requests \ {r} : request'[q] = request[q]
  BY <1>1 DEF BeginRequest, Request, ProxyInv, ProxyTypes
<1>3. /\ DOMAIN stats' = DOMAIN stats \cup uses
      /\ \A w \in DOMAIN stats' : stats'[w] = (IF w \in DOMAIN stats THEN stats[w] ELSE 0) + (IF w \in uses THEN 1 ELSE 0)
  BY DEF BeginRequest
<1>4. DOMAIN stats' \subseteq Workers /\ \A w \in DOMAIN stats' : stats'[w] \in Nat
  BY <1>2, <1>3 DEF ProxyInv, ProxyTypes
<1>5. RequestOK(request'[r])
  <2>1. RequestOK(request[r])
    BY DEF ProxyInv, ProxyTypes
  <2> QED  BY <1>2, <2>1 DEF RequestOK, Request
<1>6. ProxyTypes'
  BY <1>2, <1>4, <1>5 DEF ProxyInv, ProxyTypes, BeginRequest
<1>7. /\ \A w \in uses : CountOn(w)' = CountOn(w) + 1
      /\ \A w \in Workers \ uses : CountOn(w)' = CountOn(w)
  BY <1>3 DEF CountOn, ProxyInv, ProxyTypes
<1>8. ASSUME NEW w \in Workers PROVE CountOn(w)' = Cardinality(ActiveOn(w)')
  <2>1. r \notin ActiveOn(w) /\ ActiveOn(w)' = IF w \in uses THEN ActiveOn(w) \cup {r} ELSE ActiveOn(w)
    BY <1>2 DEF ActiveOn
  <2>2. CountOn(w) = Cardinality(ActiveOn(w)) /\ IsFiniteSet(ActiveOn(w))
    BY ActiveFinite DEF ProxyInv, Exact
  <2>3. Cardinality(ActiveOn(w) \cup {r}) = Cardinality(ActiveOn(w)) + 1
    BY <2>1, <2>2, FS_AddElement
  <2> QED  BY <1>7, <2>1, <2>2, <2>3
<1> QED  BY <1>6, <1>7, <1>8 DEF Exact

\* A request that begins adds to both sides or to none.
LEMMA BeginStep ==
  ASSUME ProxyInv, NEW r \in Requests, BeginRequest(r)
  PROVE  ProxyInv'
<1>1. PICK uses : uses = request[r].uses
  OBVIOUS
<1>2. /\ ProxyTypes' /\ Exact'
      /\ \A w \in uses : CountOn(w)' = CountOn(w) + 1
      /\ \A w \in Workers \ uses : CountOn(w)' = CountOn(w)
  BY <1>1, BeginCounts
<1>3. Shape(uses) /\ ProxyTypes /\ Balanced
  BY <1>1 DEF ProxyInv, ProxyTypes, RequestOK, BeginRequest
<1>4. CASE \E p, d \in Workers : uses = {p, d} /\ RoleOf[p] = "prefill" /\ RoleOf[d] = "decode"
  <2>1. PICK p \in Workers, d \in Workers : uses = {p, d} /\ RoleOf[p] = "prefill" /\ RoleOf[d] = "decode"
    BY <1>4
  <2>2. /\ CountOn(p)' = CountOn(p) + 1
        /\ \A w \in Workers \ {p} : RoleOf[w] = "prefill" => CountOn(w)' = CountOn(w)
    BY <1>2, <2>1
  <2>3. /\ CountOn(d)' = CountOn(d) + 1
        /\ \A w \in Workers \ {d} : RoleOf[w] = "decode" => CountOn(w)' = CountOn(w)
    BY <1>2, <2>1
  <2>4. IsFiniteSet(Load("prefill")') /\ Cardinality(Load("prefill")') = Cardinality(Load("prefill")) + 1
    BY <1>3, <2>1, <2>2, LoadUp DEF Balanced
  <2>5. IsFiniteSet(Load("decode")') /\ Cardinality(Load("decode")') = Cardinality(Load("decode")) + 1
    BY <1>3, <2>1, <2>3, LoadUp DEF Balanced
  <2> QED  BY <1>2, <1>3, <2>4, <2>5 DEF ProxyInv, Balanced
<1>5. CASE \E u \in Workers : uses = {u} /\ RoleOf[u] = "unified"
  <2>1. Load("prefill")' = Load("prefill") /\ Load("decode")' = Load("decode")
    BY <1>2, <1>5, LoadKept
  <2> QED  BY <1>2, <1>3, <2>1 DEF ProxyInv, Balanced
<1> QED  BY <1>3, <1>4, <1>5 DEF Shape

\* A request that ends is taken once off each of its workers, whose counts are not 0.
LEMMA EndCounts ==
  ASSUME ProxyInv, NEW r \in Requests, EndRequest(r), NEW uses, uses = request[r].uses
  PROVE  /\ ProxyTypes' /\ Exact'
         /\ \A w \in uses : CountOn(w) > 0 /\ CountOn(w)' = CountOn(w) - 1
         /\ \A w \in Workers \ uses : CountOn(w)' = CountOn(w)
<1>1. /\ uses \subseteq Workers /\ request[r].phase \in {"prefill", "decode", "single"}
      /\ request'[r] = NoRequest /\ request' \in [Requests -> Request]
      /\ \A q \in Requests \ {r} : request'[q] = request[q]
  BY DEF EndRequest, Request, ProxyInv, ProxyTypes, NoRequest
<1>2. /\ DOMAIN stats' = DOMAIN stats
      /\ \A w \in DOMAIN stats : stats'[w] = IF w \in uses /\ stats[w] > 0 THEN stats[w] - 1 ELSE stats[w]
  BY DEF EndRequest
<1>3. \A w \in DOMAIN stats' : stats'[w] \in Nat
  BY <1>2 DEF ProxyInv, ProxyTypes
<1>4. RequestOK(request'[r])
  BY <1>1 DEF RequestOK, Request, NoRequest
<1>5. ProxyTypes'
  BY <1>1, <1>2, <1>3, <1>4 DEF ProxyInv, ProxyTypes, EndRequest
<1>6. ASSUME NEW w \in Workers
      PROVE  /\ CountOn(w) = Cardinality(ActiveOn(w)) /\ IsFiniteSet(ActiveOn(w)) /\ CountOn(w) \in Nat
             /\ ActiveOn(w)' = ActiveOn(w) \ {r} /\ (r \in ActiveOn(w) <=> w \in uses)
             /\ (w \in uses => CountOn(w) > 0)
  <2>1. CountOn(w) = Cardinality(ActiveOn(w)) /\ IsFiniteSet(ActiveOn(w)) /\ CountOn(w) \in Nat
        /\ (CountOn(w) = 0 => ActiveOn(w) = {})
    BY ActiveFinite DEF ProxyInv, Exact
  <2>2. ActiveOn(w)' = ActiveOn(w) \ {r} /\ (r \in ActiveOn(w) <=> w \in uses)
    BY <1>1 DEF ActiveOn, NoRequest
  <2> QED  BY <2>1, <2>2
<1>7. /\ \A w \in uses : CountOn(w) > 0 /\ CountOn(w)' = CountOn(w) - 1
      /\ \A w \in Workers \ uses : CountOn(w)' = CountOn(w)
  <2>1. ASSUME NEW w \in uses PROVE CountOn(w) > 0 /\ CountOn(w)' = CountOn(w) - 1
    <3>1. w \in Workers /\ CountOn(w) > 0
      BY <1>1, <1>6
    <3> QED  BY <1>2, <3>1 DEF CountOn
  <2>2. \A w \in Workers \ uses : CountOn(w)' = CountOn(w)
    BY <1>2 DEF CountOn
  <2> QED  BY <2>1, <2>2
<1>8. ASSUME NEW w \in Workers PROVE CountOn(w)' = Cardinality(ActiveOn(w)')
  <2>1. CASE w \in uses
    <3>1. Cardinality(ActiveOn(w) \ {r}) = Cardinality(ActiveOn(w)) - 1
      BY <1>6, <2>1, FS_RemoveElement
    <3> QED  BY <1>6, <1>7, <2>1, <3>1
  <2>2. CASE w \notin uses
    <3>1. ActiveOn(w) \ {r} = ActiveOn(w)
      BY <1>6, <2>2
    <3> QED  BY <1>6, <1>7, <2>2, <3>1
  <2> QED  BY <2>1, <2>2
<1> QED  BY <1>5, <1>7, <1>8 DEF Exact

\* A request that ends is taken off both sides or off none.
LEMMA EndStep ==
  ASSUME ProxyInv, NEW r \in Requests, EndRequest(r)
  PROVE  ProxyInv'
<1>1. PICK uses : uses = request[r].uses
  OBVIOUS
<1>2. /\ ProxyTypes' /\ Exact'
      /\ \A w \in uses : CountOn(w) > 0 /\ CountOn(w)' = CountOn(w) - 1
      /\ \A w \in Workers \ uses : CountOn(w)' = CountOn(w)
  BY <1>1, EndCounts
<1>3. Shape(uses) /\ ProxyTypes /\ Balanced
  BY <1>1 DEF ProxyInv, ProxyTypes, RequestOK, EndRequest
<1>4. CASE \E p, d \in Workers : uses = {p, d} /\ RoleOf[p] = "prefill" /\ RoleOf[d] = "decode"
  <2>1. PICK p \in Workers, d \in Workers : uses = {p, d} /\ RoleOf[p] = "prefill" /\ RoleOf[d] = "decode"
    BY <1>4
  <2>2. /\ CountOn(p) > 0 /\ CountOn(p)' = CountOn(p) - 1
        /\ \A w \in Workers \ {p} : RoleOf[w] = "prefill" => CountOn(w)' = CountOn(w)
    BY <1>2, <2>1
  <2>3. /\ CountOn(d) > 0 /\ CountOn(d)' = CountOn(d) - 1
        /\ \A w \in Workers \ {d} : RoleOf[w] = "decode" => CountOn(w)' = CountOn(w)
    BY <1>2, <2>1
  <2>4. IsFiniteSet(Load("prefill")') /\ Cardinality(Load("prefill")') = Cardinality(Load("prefill")) - 1
    BY <1>3, <2>1, <2>2, LoadDown DEF Balanced
  <2>5. IsFiniteSet(Load("decode")') /\ Cardinality(Load("decode")') = Cardinality(Load("decode")) - 1
    BY <1>3, <2>1, <2>3, LoadDown DEF Balanced
  <2> QED  BY <1>2, <1>3, <2>4, <2>5 DEF ProxyInv, Balanced
<1>5. CASE \E u \in Workers : uses = {u} /\ RoleOf[u] = "unified"
  <2>1. Load("prefill")' = Load("prefill") /\ Load("decode")' = Load("decode")
    BY <1>2, <1>5, LoadKept
  <2> QED  BY <1>2, <1>3, <2>1 DEF ProxyInv, Balanced
<1> QED  BY <1>3, <1>4, <1>5 DEF Shape

\* No worker has a request at first.
LEMMA ProxyStarts ==
  ASSUME Init
  PROVE  ProxyInv
<1>1. workers = {} /\ stats = <<>> /\ request = [r \in Requests |-> NoRequest]
  BY DEF Init, ProxyInit
<1>2. DOMAIN stats = {} /\ \A w : CountOn(w) = 0
  BY <1>1 DEF CountOn
<1>3. RequestOK(NoRequest) /\ NoRequest \in Request
  BY DEF RequestOK, Request, NoRequest
<1>4. ProxyTypes
  BY <1>1, <1>2, <1>3 DEF ProxyTypes
<1>5. \A w \in Workers : ActiveOn(w) = {}
  BY <1>1 DEF ActiveOn, NoRequest
<1>6. Exact
  BY <1>2, <1>5, FS_EmptySet DEF Exact
<1>7. Load("prefill") = {} /\ Load("decode") = {}
  BY <1>2 DEF Load
<1> QED  BY <1>4, <1>6, <1>7, FS_EmptySet DEF ProxyInv, Balanced

\* Every step keeps the proxy's part.
LEMMA ProxyStep ==
  ASSUME ProxyInv, [Next]_vars
  PROVE  ProxyInv'
<1>1. ASSUME NEW W \in Lists, Sync(W) PROVE ProxyInv'
  <2>1. workers' = W /\ UNCHANGED <<stats, request>> /\ W \subseteq Workers
    BY <1>1, PressureAssumption DEF Sync, FetchWorkers
  <2>2. ProxyTypes' /\ \A w \in Workers : ActiveOn(w)' = ActiveOn(w)
    BY <2>1 DEF ProxyInv, ProxyTypes, ActiveOn
  <2> QED  BY <2>1, <2>2, UncountedKept DEF ProxyInv
<1>2. ASSUME NEW r \in Requests, Choose(r) \/ Begin(r) \/ PrefillAnswered(r) \/ End(r) PROVE ProxyInv'
  BY <1>2, ChooseStep, BeginStep, PrefillStep, EndStep DEF Choose, Begin, PrefillAnswered, End
<1>3. CASE UNCHANGED <<workers, stats, request>>
  <2>1. ProxyTypes' /\ \A w \in Workers : ActiveOn(w)' = ActiveOn(w)
    BY <1>3 DEF ProxyInv, ProxyTypes, ActiveOn
  <2> QED  BY <1>3, <2>1, UncountedKept DEF ProxyInv
<1>4. (Tick \/ UNCHANGED vars \/ \E r \in Requests : DecodeAnswered(r)) => UNCHANGED <<workers, stats, request>>
  BY DEF Tick, vars, DecodeAnswered
<1> QED  BY <1>1, <1>2, <1>3, <1>4 DEF Next

\* While the workers in use are listed, what is measured of a side is its load.
LEMMA MeasuredIsLoad ==
  ASSUME ProxyInv, \A w \in DOMAIN stats : stats[w] > 0 => w \in workers, NEW role
  PROVE  InflightOf(role) = Cardinality(Load(role))
<1> DEFINE f == [w \in Measured(role) |-> IF w \in DOMAIN stats THEN stats[w] ELSE 0]
           top == Cardinality(Requests)
           units == {x \in (DOMAIN f) \X (1..top) : x[2] <= f[x[1]]}
<1>1. InflightOf(role) = Cardinality(units)
  BY DEF InflightOf, Added
<1>2. \A w \in Measured(role) : w \in Workers /\ RoleOf[w] = role
  BY DEF Measured, OfRole, ProxyInv, ProxyTypes
<1>3. \A w \in Workers : CountOn(w) \in Nat /\ CountOn(w) <= top /\ top \in Nat
  BY ActiveFinite DEF ProxyInv, Exact
<1>4. \A w \in Workers : RoleOf[w] = role /\ CountOn(w) > 0 => w \in Measured(role)
  BY DEF CountOn, Measured, OfRole
<1>5. DOMAIN f = Measured(role) /\ \A w \in Measured(role) : f[w] = CountOn(w)
  BY DEF CountOn
<1> HIDE DEF f, top
<1>6. \A x \in units : x \in Load(role)
  BY <1>2, <1>3, <1>5 DEF Load
<1>7. ASSUME NEW x \in Load(role) PROVE x \in units
  <2>1. x \in Workers \X Nat /\ RoleOf[x[1]] = role /\ x[2] \in 1..CountOn(x[1])
    BY DEF Load
  <2>2. PICK w \in Workers, k \in Nat : x = <<w, k>>
    BY <2>1
  <2>3. RoleOf[w] = role /\ k \in 1..CountOn(w) /\ CountOn(w) \in Nat /\ CountOn(w) <= top /\ top \in Nat
    BY <1>3, <2>1, <2>2
  <2>4. w \in Measured(role) /\ k \in 1..top
    BY <1>4, <2>3
  <2> QED  BY <1>5, <2>2, <2>3, <2>4
<1>8. units = Load(role)
  BY <1>6, <1>7
<1> QED  BY <1>1, <1>8

\* Whatever requests come and go, the two sides have the same number in flight while the
\* workers in use are listed: beginWorkerRequest and endWorkerRequest count a request on
\* both workers of its pair at once.
THEOREM InflightBalancedHolds == Spec => []InflightBalanced
<1>1. Init => ProxyInv
  BY ProxyStarts
<1>2. ProxyInv /\ [Next]_vars => ProxyInv'
  BY ProxyStep
<1>3. ProxyInv => InflightBalanced
  BY MeasuredIsLoad DEF InflightBalanced, ProxyInv, Balanced
<1> QED  BY <1>1, <1>2, <1>3, PTL DEF Spec

-----------------------------------------------------------------------------
(* A unified worker beside every pair.                                      *)

\* While no pair was listed alone: nothing is sent to a pair, so nothing is measured there.
Absorbed ==
  /\ latency \in [Workers -> Nat] /\ bare \in BOOLEAN
  /\ ~bare => /\ tracker.current = "normal"
              /\ OfRole(workers, "prefill") # {} /\ OfRole(workers, "decode") # {} => OfRole(workers, "unified") # {}
              /\ \A r \in Requests : OfRole(request[r].uses, "prefill") = {}
              /\ \A w \in Workers : RoleOf[w] # "unified" => latency[w] = 0

\* Then a side that is looked at has nothing in flight and no latency.
LEMMA NothingMeasured ==
  ASSUME ProxyInv, Absorbed, ~bare, NEW role \in {"prefill", "decode"}
  PROVE  AvgInflight(role) = 0 /\ AvgLatency(role) = 0
<1>1. \A w \in Measured(role) : w \in Workers /\ RoleOf[w] # "unified"
  BY DEF Measured, OfRole, ProxyInv, ProxyTypes
<1>2. ASSUME NEW w \in Measured(role) PROVE CountOn(w) = 0
  <2>1. ActiveOn(w) = {}
    <3>1. SUFFICES ASSUME NEW r \in ActiveOn(w) PROVE FALSE
      OBVIOUS
    <3>2. r \in Requests /\ request[r].phase # "none" /\ w \in request[r].uses
      BY DEF ActiveOn
    <3>3. Shape(request[r].uses) /\ OfRole(request[r].uses, "prefill") = {}
      BY <3>2 DEF ProxyInv, ProxyTypes, RequestOK, Absorbed
    <3>4. ~ \E p, d \in Workers : request[r].uses = {p, d} /\ RoleOf[p] = "prefill" /\ RoleOf[d] = "decode"
      BY <3>3 DEF OfRole
    <3>5. PICK u \in Workers : request[r].uses = {u} /\ RoleOf[u] = "unified"
      BY <3>3, <3>4 DEF Shape
    <3> QED  BY <1>1, <3>2, <3>5
  <2> QED  BY <1>1, <2>1, FS_EmptySet DEF ProxyInv, Exact
<1>3. InflightOf(role) = 0
  <2> DEFINE f == [w \in Measured(role) |-> IF w \in DOMAIN stats THEN stats[w] ELSE 0]
  <2>1. \A w \in DOMAIN f : f[w] = 0
    BY <1>2 DEF CountOn
  <2>2. InflightOf(role) = Added(f, Cardinality(Requests))
    BY DEF InflightOf
  <2> HIDE DEF f
  <2>3. {x \in (DOMAIN f) \X (1..Cardinality(Requests)) : x[2] <= f[x[1]]} = {}
    BY <2>1
  <2> QED  BY <2>2, <2>3, FS_EmptySet DEF Added
<1>4. AvgInflight(role) = 0
  <2>1. Measured(role) \subseteq Workers
    BY <1>1
  <2>2. IsFiniteSet(Measured(role))
    BY <2>1, PressureAssumption, FS_Subset
  <2>3. PICK n \in Nat : n = Cardinality(Measured(role))
    BY <2>2, FS_CardinalityType
  <2>4. n # 0 => (2 * 0) \div n = 0
    OBVIOUS
  <2> QED  BY <1>3, <2>3, <2>4 DEF AvgInflight, Average, Scale
<1>5. AvgLatency(role) = 0
  <2>1. {w \in Measured(role) : latency[w] > 0} = {}
    BY <1>1 DEF Absorbed
  <2>2. Cardinality({w \in Measured(role) : latency[w] > 0}) = 0
    BY <2>1, FS_EmptySet
  <2> QED  BY <2>2 DEF AvgLatency, Average
<1> QED  BY <1>4, <1>5

\* Then a tick sees no side hot.
LEMMA NothingHot ==
  ASSUME ProxyInv, Absorbed, ~bare
  PROVE  Observation = "normal"
<1>1. ASSUME NEW role \in {"prefill", "decode"} PROVE ~Hot(role)
  <2>1. AvgInflight("prefill") = 0 /\ AvgInflight("decode") = 0 /\ AvgLatency(role) = 0
    BY NothingMeasured
  <2>2. Delta(role) = 0
    BY <2>1 DEF Delta
  <2>3. HotLevel \in Nat \ {0}
    BY PressureAssumption
  <2> QED  BY <2>1, <2>2, <2>3 DEF Hot, Scale
<1> QED  BY <1>1 DEF Observation

\* A recorded answer leaves a latency with every worker.
LEMMA Recorded ==
  ASSUME latency \in [Workers -> Nat], NEW w, recordWorkerPhase(w)
  PROVE  latency' \in [Workers -> Nat]
<1>1. PICK d \in 0..MaxLevel : \E l \in Blend(latency[w], d) : latency' = [latency EXCEPT ![w] = l]
  BY DEF recordWorkerPhase
<1>2. PICK l \in Blend(latency[w], d) : latency' = [latency EXCEPT ![w] = l]
  BY <1>1
<1>3. l \in Nat
  BY <1>2, PressureAssumption DEF Blend
<1> QED  BY <1>2, <1>3

\* Every step keeps the pairs unused and unmeasured.
LEMMA AbsorbedStep ==
  ASSUME TrackerInv, ProxyInv, Absorbed, [Next]_vars
  PROVE  Absorbed'
<1>1. ASSUME NEW W \in Lists, Sync(W) PROVE Absorbed'
  <2>1. /\ workers' = W /\ UNCHANGED <<request, latency, tracker>>
        /\ bare' = (bare \/ (OfRole(W, "prefill") # {} /\ OfRole(W, "decode") # {} /\ OfRole(W, "unified") = {}))
    BY <1>1 DEF Sync, FetchWorkers
  <2> QED  BY <2>1 DEF Absorbed
<1>2. ASSUME NEW r \in Requests, Choose(r) PROVE Absorbed'
  <2>1. /\ UNCHANGED <<workers, latency, tracker, bare>>
        /\ \E S \in FindRequestWorker(tracker.current) : request' = [request EXCEPT ![r] = [phase |-> "chosen", uses |-> S]]
    BY <1>2 DEF Choose, ChooseWorkers, pressureVars
  <2>2. PICK S \in FindRequestWorker(tracker.current) : request' = [request EXCEPT ![r] = [phase |-> "chosen", uses |-> S]]
    BY <2>1
  <2>3. request'[r].uses = S /\ \A q \in Requests \ {r} : request'[q] = request[q]
    BY <2>2 DEF ProxyInv, ProxyTypes
  <2>4. ASSUME ~bare PROVE OfRole(S, "prefill") = {}
    <3>1. /\ tracker.current = "normal"
          /\ OfRole(workers, "prefill") # {} /\ OfRole(workers, "decode") # {} => OfRole(workers, "unified") # {}
      BY <2>4 DEF Absorbed
    <3>2. S \in {{u} : u \in FindBest(OfRole(workers, "unified"))}
      BY <2>2, <3>1 DEF FindRequestWorker
    <3>3. FindBest(OfRole(workers, "unified")) \subseteq OfRole(workers, "unified")
      BY DEF FindBest
    <3>4. \A u \in OfRole(workers, "unified") : RoleOf[u] = "unified"
      BY DEF OfRole
    <3> QED  BY <3>2, <3>3, <3>4 DEF OfRole
  <2> QED  BY <2>1, <2>3, <2>4 DEF Absorbed
<1>3. ASSUME NEW r \in Requests, Begin(r) PROVE Absorbed'
  <2>1. /\ UNCHANGED <<workers, latency, tracker, bare>>
        /\ \A q \in Requests : request'[q].uses = request[q].uses
    BY <1>3 DEF Begin, BeginRequest, pressureVars, ProxyInv, ProxyTypes, Request
  <2> QED  BY <2>1 DEF Absorbed
<1>4. ASSUME NEW r \in Requests, request[r].phase \in {"prefill", "decode"} PROVE bare
  <2>1. Shape(request[r].uses) /\ OfRole(request[r].uses, "unified") = {}
    BY <1>4 DEF ProxyInv, ProxyTypes, RequestOK
  <2>2. PICK p, d \in Workers : request[r].uses = {p, d} /\ RoleOf[p] = "prefill" /\ RoleOf[d] = "decode"
    BY <2>1 DEF Shape, OfRole
  <2>3. OfRole(request[r].uses, "prefill") # {}
    BY <2>2 DEF OfRole
  <2> QED  BY <2>3 DEF Absorbed
<1>5. ASSUME NEW r \in Requests, PrefillAnswered(r) \/ DecodeAnswered(r) PROVE Absorbed'
  <2>1. bare /\ bare' = bare
    BY <1>4, <1>5 DEF PrefillAnswered, PrefillDone, DecodeAnswered
  <2>2. \E w : recordWorkerPhase(w)
    BY <1>5 DEF PrefillAnswered, DecodeAnswered
  <2>3. latency' \in [Workers -> Nat]
    BY <2>2, Recorded DEF Absorbed
  <2> QED  BY <2>1, <2>3 DEF Absorbed
<1>6. ASSUME NEW r \in Requests, End(r) PROVE Absorbed'
  <2>1. /\ UNCHANGED <<workers, latency, tracker, bare>>
        /\ \A q \in Requests : request'[q].uses = request[q].uses \/ request'[q].uses = {}
    BY <1>6 DEF End, EndRequest, NoRequest, ProxyInv, ProxyTypes, Request
  <2>2. \A q \in Requests : OfRole(request[q].uses, "prefill") = {} => OfRole(request'[q].uses, "prefill") = {}
    BY <2>1 DEF OfRole
  <2> QED  BY <2>1, <2>2 DEF Absorbed
<1>7. CASE Tick
  <2>1. UNCHANGED <<workers, request, latency, bare>>
    BY <1>7 DEF Tick
  <2>2. ASSUME ~bare PROVE tracker'.current = "normal"
    <3>1. Observation = "normal" /\ tracker.current = "normal" /\ TrackerTypes
      BY <2>2, NothingHot DEF Absorbed, TrackerInv
    <3>2. CASE TickWaits
      BY <3>1, <3>2 DEF TickWaits
    <3>3. CASE TickMoves("normal")
      <4>1. "normal" \in States
        BY DEF States
      <4>2. Target(Count("normal")) = "normal"
        BY <3>1, <4>1, Targeted
      <4> QED  BY <3>1, <3>3, <4>2 DEF TickMoves
    <3> QED  BY <1>7, <3>1, <3>2, <3>3, TickCases
  <2> QED  BY <2>1, <2>2 DEF Absorbed
<1>8. CASE UNCHANGED vars
  BY <1>8 DEF Absorbed, vars
<1> QED  BY <1>1, <1>2, <1>3, <1>5, <1>6, <1>7, <1>8 DEF Next

\* While every list had a unified worker beside the pairs, FindRequestWorker never picks a
\* pair and the report never leaves normal: load on the unified worker is not seen.
THEOREM AbsorbedByUnifiedHolds == Spec => []AbsorbedByUnified
<1>1. Init => TrackerInv /\ ProxyInv
  BY TrackerInit, ProxyStarts
<1>2. Init => Absorbed
  <2>1. SUFFICES ASSUME Init PROVE Absorbed
    OBVIOUS
  <2>2. /\ latency = [w \in Workers |-> 0] /\ bare = FALSE /\ tracker.current = "normal"
        /\ workers = {} /\ request = [r \in Requests |-> NoRequest]
    <3>1. tracker = [current |-> "normal", ticks |-> [s \in States |-> 0], age |-> Cooldown]
      BY <2>1, Zenon DEF Init
    <3>2. tracker.current = "normal"
      BY <3>1
    <3> QED  BY <2>1, <3>2, Zenon DEF Init, ProxyInit
  <2>3. \A r \in Requests : request[r].uses = {}
    BY <2>2 DEF NoRequest
  <2>4. OfRole(workers, "prefill") = {} /\ \A r \in Requests : OfRole(request[r].uses, "prefill") = {}
    BY <2>2, <2>3 DEF OfRole
  <2> QED  BY <2>2, <2>4 DEF Absorbed
<1>3. TrackerInv /\ ProxyInv /\ Absorbed /\ [Next]_vars => TrackerInv' /\ ProxyInv' /\ Absorbed'
  BY TrackerStep, ProxyStep, AbsorbedStep
<1>4. Absorbed => AbsorbedByUnified
  BY DEF Absorbed, AbsorbedByUnified
<1> QED  BY <1>1, <1>2, <1>3, <1>4, PTL DEF Spec

=============================================================================
