--------------------------- MODULE ExtenderProofs ---------------------------
(***************************************************************************)
(* Proofs about the extender mode for any GPUs, pods and number of calls:  *)
(* the manager's book agrees with what the bind handlers are doing, and    *)
(* the filter and the score agree with the bin packer.                     *)
(*                                                                         *)
(* Memory is counted in units, so that Allocate adds a segment of units to *)
(* a finite set and Release takes the same segment away.                   *)
(***************************************************************************)
EXTENDS Extender, FiniteSetTheorems, SequenceTheorems, WellFoundedInduction, TLAPS

Handler == [phase : {"idle", "filtered", "scan", "allocate", "bind", "answered", "release", "failed"},
            seen : Seq(Int), gpu : {0} \cup GPUs]

\* What a handler has read and chosen, by where it is.
HandlerOK(j) ==
  /\ bind[j].phase \in {"idle", "filtered"} => bind[j].seen = <<>>
  /\ bind[j].phase \in {"idle", "filtered", "scan"} => bind[j].gpu = 0
  /\ bind[j].phase \in {"allocate", "bind", "answered", "release"} => bind[j].gpu \in GPUs

\* A handler between Allocate and the end of its call has its booking, and no other.
Bookings == DOMAIN allocations = {j \in Calls : bind[j].phase \in {"bind", "answered", "release"}}

\* Only a pod that was bound has an answered call, and only one.
Answers ==
  /\ \A j \in Calls : bind[j].phase = "answered" => pod[j[1]] # "pending"
  /\ \A i, j \in Calls : bind[i].phase = "answered" /\ bind[j].phase = "answered" /\ i[1] = j[1] => i = j

\* The inductive invariant.
Inv == /\ TypeOK /\ (\A j \in Calls : HandlerOK(j)) /\ Bookings /\ Answers
       /\ (\A g \in GPUs : IsFiniteSet(BookedUnits(g))) /\ LedgerCovers

-----------------------------------------------------------------------------
(* Counting.                                                                *)

\* The units of one job.
Segment(j) == {j} \X (1..Mem(j))

\* A job of m MB stands for m units.
LEMMA SegmentSize ==
  ASSUME NEW j \in Calls
  PROVE  Mem(j) \in Nat /\ IsFiniteSet(Segment(j)) /\ Cardinality(Segment(j)) = Mem(j)
<1>1. Mem(j) \in Nat
  BY ExtenderAssumption DEF Mem
<1> DEFINE m == Mem(j)
           f == [k \in 1..m |-> <<j, k>>]
<1> HIDE DEF m
<1>2. f \in Bijection(1..m, Segment(j))
  <2>1. f \in [1..m -> Segment(j)]
    BY DEF Segment, m
  <2>2. \A t \in Segment(j) : \E k \in 1..m : f[k] = t
    BY DEF Segment, m
  <2> QED  BY <2>1, <2>2 DEF Bijection, Injection, Surjection, IsInjective
<1>3. ExistsBijection(1..m, Segment(j))
  BY <1>2 DEF ExistsBijection
<1>4. m \in Nat /\ IsFiniteSet(1..m) /\ Cardinality(1..m) = m
  BY <1>1, FS_Interval DEF m
<1> QED  BY <1>1, <1>3, <1>4, FS_Bijection DEF m

\* The units of a GPU are those of the jobs on it.
LEMMA BookedMembers ==
  ASSUME NEW g
  PROVE  \A u : u \in BookedUnits(g) <=> \E j \in DOMAIN allocations : allocations[j] = g /\ u \in Segment(j)
BY DEF BookedUnits, Units, Segment

\* Booking a job that has no booking adds its memory to its GPU and to no other.
LEMMA BookAdds ==
  ASSUME NEW j \in Calls, j \notin DOMAIN allocations, NEW a, NEW g, IsFiniteSet(BookedUnits(g)),
         allocations' = [i \in DOMAIN allocations \cup {j} |-> IF i = j THEN a ELSE allocations[i]]
  PROVE  /\ IsFiniteSet(BookedUnits(g)') /\ Booked(g) \in Nat
         /\ Booked(g)' = Booked(g) + IF g = a THEN Mem(j) ELSE 0
<1>1. DOMAIN allocations' = DOMAIN allocations \cup {j} /\ allocations'[j] = a
      /\ \A i \in DOMAIN allocations : i # j /\ allocations'[i] = allocations[i]
  OBVIOUS
<1>2. \A u : u \in BookedUnits(g)' <=> \E i \in DOMAIN allocations' : allocations'[i] = g /\ u \in Segment(i)
  BY DEF BookedUnits, Units, Segment, Mem
<1>3. Booked(g) \in Nat
  BY FS_CardinalityType DEF Booked
<1>4. CASE g # a
  <2>1. BookedUnits(g)' = BookedUnits(g)
    BY <1>1, <1>2, <1>4, BookedMembers
  <2> QED  BY <1>3, <1>4, <2>1 DEF Booked
<1>5. CASE g = a
  <2>1. BookedUnits(g)' = BookedUnits(g) \cup Segment(j)
    BY <1>1, <1>2, <1>5, BookedMembers
  <2>2. \A u \in BookedUnits(g) : u[1] \in DOMAIN allocations
    BY BookedMembers DEF Segment
  <2>3. BookedUnits(g) \cap Segment(j) = {}
    BY <2>2 DEF Segment
  <2>4. /\ IsFiniteSet(BookedUnits(g) \cup Segment(j))
        /\ Cardinality(BookedUnits(g) \cup Segment(j))
             = Cardinality(BookedUnits(g)) + Cardinality(Segment(j)) - Cardinality(BookedUnits(g) \cap Segment(j))
    BY SegmentSize, FS_Union, Zenon
  <2>5. Cardinality(BookedUnits(g) \cap Segment(j)) = 0
    BY <2>3, FS_EmptySet
  <2> QED  BY <1>3, <1>5, <2>1, <2>4, <2>5, SegmentSize DEF Booked
<1> QED  BY <1>4, <1>5

\* Taking a booking back takes its memory from its GPU and from no other.
LEMMA ReleaseTakes ==
  ASSUME NEW j \in Calls, j \in DOMAIN allocations, NEW g, IsFiniteSet(BookedUnits(g)),
         allocations' = Restrict(allocations, DOMAIN allocations \ {j})
  PROVE  /\ IsFiniteSet(BookedUnits(g)') /\ Booked(g) \in Nat
         /\ Booked(g)' = Booked(g) - IF g = allocations[j] THEN Mem(j) ELSE 0
<1>1. DOMAIN allocations' = DOMAIN allocations \ {j} /\ \A i \in DOMAIN allocations' : allocations'[i] = allocations[i]
  BY DEF Restrict
<1>2. \A u : u \in BookedUnits(g)' <=> \E i \in DOMAIN allocations' : allocations'[i] = g /\ u \in Segment(i)
  BY DEF BookedUnits, Units, Segment, Mem
<1>3. Booked(g) \in Nat
  BY FS_CardinalityType DEF Booked
<1>4. CASE g # allocations[j]
  <2>1. \A i : i \in DOMAIN allocations' /\ allocations'[i] = g <=> i \in DOMAIN allocations /\ allocations[i] = g
    BY <1>1, <1>4
  <2>2. \A u : u \in BookedUnits(g)' <=> u \in BookedUnits(g)
    BY <1>2, <2>1, BookedMembers, Zenon
  <2>3. BookedUnits(g)' = BookedUnits(g)
    BY <2>2
  <2> QED  BY <1>3, <1>4, <2>3 DEF Booked
<1>5. CASE g = allocations[j]
  <2>1. \A i : \A u \in Segment(i) : u[1] = i
    BY DEF Segment
  <2>2. BookedUnits(g)' = BookedUnits(g) \ Segment(j) /\ Segment(j) \subseteq BookedUnits(g)
    <3>1. \A u : u \in BookedUnits(g) <=> \E i \in DOMAIN allocations : allocations[i] = g /\ u \in Segment(i)
      BY BookedMembers
    <3>2. Segment(j) \subseteq BookedUnits(g)
      BY <1>5, <3>1
    <3>3. \A u : u \in BookedUnits(g)' <=> u \in BookedUnits(g) /\ u \notin Segment(j)
      BY <1>1, <1>2, <2>1, <3>1
    <3> QED  BY <3>2, <3>3
  <2>3. BookedUnits(g) \cap Segment(j) = Segment(j)
    BY <2>2
  <2>4. /\ IsFiniteSet(BookedUnits(g) \ Segment(j))
        /\ Cardinality(BookedUnits(g) \ Segment(j))
             = Cardinality(BookedUnits(g)) - Cardinality(BookedUnits(g) \cap Segment(j))
    BY FS_Difference
  <2> QED  BY <1>3, <1>5, <2>2, <2>3, <2>4, SegmentSize DEF Booked
<1> QED  BY <1>4, <1>5

-----------------------------------------------------------------------------
(* The steps.                                                               *)

\* The GPUs are numbered from one.
LEMMA Numbered ==
  /\ Len(Total) \in Nat \ {0} /\ GPUs = 1..Len(Total) /\ \A g \in GPUs : Total[g] \in Nat
<1>1. Len(Total) \in Nat /\ DOMAIN Total = 1..Len(Total)
  BY ExtenderAssumption, LenProperties
<1>2. Len(Total) # 0
  BY ExtenderAssumption, EmptySeq
<1> QED  BY <1>1, <1>2, ExtenderAssumption DEF GPUs

\* A step of one handler replaces its record.
LEMMA HandlerReplaced ==
  ASSUME TypeOK, NEW j \in Calls, NEW h \in Handler, bind' = [bind EXCEPT ![j] = h]
  PROVE  bind' \in [Calls -> Handler] /\ bind'[j] = h /\ \A i \in Calls \ {j} : bind'[i] = bind[i]
BY DEF TypeOK, Handler

\* What is said of the book stays true when the book, and the choice of whoever was
\* given a GPU, stay as they are.
LEMMA BookKept ==
  ASSUME Inv, UNCHANGED <<discoverer, used, allocations>>,
         \A j \in Calls : bind[j].gpu \in GPUs => bind'[j].gpu = bind[j].gpu
  PROVE  (\A g \in GPUs : IsFiniteSet(BookedUnits(g)'))  /\ LedgerCovers'
<1>1. \A g \in GPUs : BookedUnits(g)' = BookedUnits(g)
  BY DEF BookedUnits, Units, Mem
<1>2. \A j \in Calls : Mem(j)' = Mem(j)
  BY DEF Mem
<1> QED  BY <1>1, <1>2 DEF Inv, LedgerCovers, Booked

\* A handler that has no booking goes on without one.
LEMMA BeforeBooking ==
  ASSUME Inv, NEW j \in Calls, NEW h \in Handler, bind' = [bind EXCEPT ![j] = h],
         UNCHANGED <<discoverer, used, refreshing, allocations, pod>>,
         bind[j].phase \in {"idle", "filtered", "scan", "allocate"},
         h.phase \in {"filtered", "scan", "allocate", "failed"},
         h.phase = "filtered" => h.seen = <<>>,
         h.phase \in {"filtered", "scan"} => h.gpu = 0,
         h.phase = "scan" => Len(h.seen) < Len(Total),
         h.phase = "allocate" => h.gpu \in GPUs,
         bind[j].gpu \in GPUs => h.gpu = bind[j].gpu
  PROVE  Inv'
<1> USE DEF Inv
<1>1. bind' \in [Calls -> Handler] /\ bind'[j] = h /\ \A i \in Calls \ {j} : bind'[i] = bind[i]
  BY HandlerReplaced
<1>2. TypeOK'
  <2>1. \A i \in Calls : bind'[i].phase = "scan" => Len(bind'[i].seen) < Len(Total)
    BY <1>1 DEF TypeOK
  <2> QED  BY <1>1, <2>1 DEF TypeOK, Handler
<1>3. \A i \in Calls : HandlerOK(i)'
  BY <1>1 DEF HandlerOK
<1>4. Bookings'
  BY <1>1 DEF Bookings
<1>5. Answers'
  BY <1>1 DEF Answers
<1>6. \A i \in Calls : bind[i].gpu \in GPUs => bind'[i].gpu = bind[i].gpu
  BY <1>1
<1> QED  BY <1>2, <1>3, <1>4, <1>5, <1>6, BookKept

\* kube-scheduler's question, and the handler until it has chosen a GPU.
LEMMA HandlerSteps ==
  ASSUME Inv, NEW j \in Calls, Filter(j) \/ GetPod(j) \/ ScanGPU(j)
  PROVE  Inv'
<1> USE DEF Inv
<1>1. bind \in [Calls -> Handler] /\ bind[j] \in Handler /\ HandlerOK(j)
  BY DEF TypeOK, Handler
<1>2. CASE Filter(j) \/ GetPod(j)
  <2>1. PICK ph \in {"filtered", "scan", "failed"} :
          /\ bind' = [bind EXCEPT ![j].phase = ph]
          /\ bind[j].phase \in {"idle", "filtered"}
    BY <1>2 DEF Filter, GetPod
  <2> DEFINE h == [bind[j] EXCEPT !.phase = ph]
  <2>2. h \in Handler /\ h.phase = ph /\ h.seen = <<>> /\ h.gpu = 0 /\ bind[j].gpu = 0
    BY <1>1, <2>1 DEF Handler, HandlerOK
  <2>3. bind' = [bind EXCEPT ![j] = h]
    BY <1>1, <2>1
  <2>4. UNCHANGED <<discoverer, used, refreshing, allocations, pod>>
    BY <1>2 DEF Filter, GetPod
  <2>5. Len(h.seen) < Len(Total)
    BY <2>2, Numbered
  <2>6. 0 \notin GPUs
    BY Numbered
  <2> HIDE DEF h
  <2> QED  BY <2>1, <2>2, <2>3, <2>4, <2>5, <2>6, BeforeBooking, ZenonT(60)
<1>3. CASE ScanGPU(j)
  <2> DEFINE seen == Append(bind[j].seen, used[Len(bind[j].seen) + 1])
             choice == BinPackSchedule(View(seen), Mem(j), FALSE)
  <2>1. bind[j].phase = "scan" /\ bind[j].gpu = 0 /\ Len(bind[j].seen) < Len(Total) /\ bind[j].seen \in Seq(Int)
    BY <1>1, <1>3 DEF ScanGPU, HandlerOK, TypeOK, Handler
  <2>2. Len(bind[j].seen) \in Nat /\ used[Len(bind[j].seen) + 1] \in Int
    <3>1. Len(bind[j].seen) \in Nat
      BY <2>1, LenProperties
    <3>2. Len(bind[j].seen) + 1 \in GPUs
      BY <2>1, <3>1, Numbered
    <3> QED  BY <3>1, <3>2 DEF TypeOK
  <2>3. seen \in Seq(Int) /\ Len(seen) = Len(bind[j].seen) + 1
    BY <2>1, <2>2, AppendProperties, SMTT(60)
  <2>4. choice \subseteq DOMAIN seen
    BY ZenonT(60) DEF BinPackSchedule, LeastBy, Eligible, View
  <2>5. UNCHANGED <<discoverer, used, refreshing, allocations, pod>>
    BY <1>3 DEF ScanGPU
  <2>6. \/ Len(seen) < Len(Total) /\ bind' = [bind EXCEPT ![j].seen = seen]
        \/ bind' = [bind EXCEPT ![j] = [phase |-> "failed", seen |-> <<>>, gpu |-> 0]]
        \/ /\ ~(Len(seen) < Len(Total))
           /\ \E g \in choice : bind' = [bind EXCEPT ![j] = [phase |-> "allocate", seen |-> <<>>, gpu |-> g]]
    BY <1>3 DEF ScanGPU
  <2> HIDE DEF seen, choice
  <2>7. CASE Len(seen) < Len(Total) /\ bind' = [bind EXCEPT ![j].seen = seen]
    <3> DEFINE h == [bind[j] EXCEPT !.seen = seen]
    <3>1. h \in Handler /\ h.phase = "scan" /\ h.seen = seen /\ h.gpu = 0
      BY <1>1, <2>1, <2>3 DEF Handler
    <3>2. bind' = [bind EXCEPT ![j] = h]
      BY <1>1, <2>7
    <3> HIDE DEF h
    <3> QED  BY <2>1, <2>5, <2>7, <3>1, <3>2, BeforeBooking
  <2>8. CASE bind' = [bind EXCEPT ![j] = [phase |-> "failed", seen |-> <<>>, gpu |-> 0]]
    <3> DEFINE h == [phase |-> "failed", seen |-> <<>>, gpu |-> 0]
    <3>1. h \in Handler /\ h.phase = "failed" /\ h.gpu = 0
      BY DEF Handler
    <3>2. bind' = [bind EXCEPT ![j] = h]
      BY <2>8
    <3> HIDE DEF h
    <3> QED  BY <2>1, <2>5, <3>1, <3>2, BeforeBooking
  <2>9. ASSUME ~(Len(seen) < Len(Total)), NEW g \in choice,
               bind' = [bind EXCEPT ![j] = [phase |-> "allocate", seen |-> <<>>, gpu |-> g]]
        PROVE  Inv'
    <3> DEFINE h == [phase |-> "allocate", seen |-> <<>>, gpu |-> g]
    <3>0. g \in GPUs
      <4>1. DOMAIN seen = 1..Len(seen) /\ Len(seen) = Len(Total)
        BY <2>1, <2>2, <2>3, <2>9, Numbered, LenProperties
      <4> QED  BY <2>4, <4>1, Numbered
    <3>1. h \in Handler /\ h.phase = "allocate" /\ h.gpu = g
      BY <3>0 DEF Handler
    <3>2. bind' = [bind EXCEPT ![j] = h]
      BY <2>9
    <3>3. 0 \notin GPUs
      BY Numbered
    <3> HIDE DEF h
    <3> QED  BY <2>1, <2>5, <3>0, <3>1, <3>2, <3>3, BeforeBooking
  <2> QED  BY <2>6, <2>7, <2>8, <2>9
<1> QED  BY <1>2, <1>3

\* A handler that moves on after its choice keeps what it chose.
LEMMA PhaseMoves ==
  ASSUME Inv, NEW j \in Calls, NEW ph \in {"bind", "answered", "release", "failed"},
         bind' = [bind EXCEPT ![j].phase = ph],
         bind[j].phase \in {"allocate", "bind", "release"}
  PROVE  /\ bind' \in [Calls -> Handler]
         /\ bind'[j].phase = ph /\ bind'[j].gpu = bind[j].gpu /\ bind[j].gpu \in GPUs
         /\ \A i \in Calls \ {j} : bind'[i] = bind[i]
         /\ \A i \in Calls : bind'[i].phase = "scan" => Len(bind'[i].seen) < Len(Total)
         /\ \A i \in Calls : HandlerOK(i)'
         /\ \A i \in Calls : bind'[i].gpu = bind[i].gpu
<1>1. bind \in [Calls -> Handler] /\ bind[j] \in Handler /\ HandlerOK(j)
  BY DEF Inv, TypeOK, Handler
<1> DEFINE h == [bind[j] EXCEPT !.phase = ph]
<1>2. h \in Handler /\ h.phase = ph /\ h.gpu = bind[j].gpu
  BY <1>1 DEF Handler
<1>3. bind' = [bind EXCEPT ![j] = h]
  BY <1>1
<1> HIDE DEF h
<1>4. bind' \in [Calls -> Handler] /\ bind'[j] = h /\ \A i \in Calls \ {j} : bind'[i] = bind[i]
  BY <1>2, <1>3, HandlerReplaced DEF Inv
<1>5. bind[j].gpu \in GPUs
  BY <1>1 DEF HandlerOK
<1>6. \A i \in Calls : bind'[i].phase = "scan" => Len(bind'[i].seen) < Len(Total)
  BY <1>2, <1>4 DEF Inv, TypeOK
<1>7. \A i \in Calls : HandlerOK(i)'
  BY <1>2, <1>4, <1>5 DEF Inv, HandlerOK
<1>8. \A i \in Calls : bind'[i].gpu = bind[i].gpu
  BY <1>2, <1>4
<1> QED  BY <1>2, <1>4, <1>5, <1>6, <1>7, <1>8

\* Manager.Allocate books exactly the memory it adds, or a whole GPU for a job without any.
LEMMA AllocateStep ==
  ASSUME Inv, NEW j \in Calls, Allocate(j)
  PROVE  Inv'
<1> USE DEF Inv
<1>1. PICK a : a = bind[j].gpu
  OBVIOUS
<1>2. bind \in [Calls -> Handler] /\ bind[j] \in Handler /\ a \in GPUs /\ bind[j].phase = "allocate"
  BY <1>1 DEF TypeOK, Handler, HandlerOK, Allocate
<1>3. CASE AvailableMB(a) < Mem(j)
  <2> DEFINE h == [bind[j] EXCEPT !.phase = "failed"]
  <2>1. h \in Handler /\ h.phase = "failed" /\ h.gpu = bind[j].gpu
    BY <1>2 DEF Handler
  <2>2. bind' = [bind EXCEPT ![j] = h] /\ UNCHANGED <<discoverer, used, refreshing, allocations, pod>>
    BY <1>1, <1>2, <1>3 DEF Allocate
  <2> HIDE DEF h
  <2> QED  BY <1>2, <2>1, <2>2, BeforeBooking
<1>4. CASE ~(AvailableMB(a) < Mem(j))
  <2>1. /\ used' = [used EXCEPT ![a] = IF Mem(j) = 0 THEN Total[a] ELSE @ + Mem(j)]
        /\ allocations' = [i \in DOMAIN allocations \cup {j} |-> IF i = j THEN a ELSE allocations[i]]
        /\ bind' = [bind EXCEPT ![j].phase = "bind"]
        /\ UNCHANGED <<discoverer, refreshing, pod>>
    BY <1>1, <1>4 DEF Allocate
  <2>2. /\ bind' \in [Calls -> Handler]
        /\ bind'[j].phase = "bind" /\ bind'[j].gpu = a
        /\ \A i \in Calls \ {j} : bind'[i] = bind[i]
        /\ \A i \in Calls : bind'[i].phase = "scan" => Len(bind'[i].seen) < Len(Total)
        /\ \A i \in Calls : HandlerOK(i)'
        /\ \A i \in Calls : bind'[i].gpu = bind[i].gpu
    BY <1>1, <1>2, <2>1, PhaseMoves
  <2>3. Mem(j) \in Nat /\ Total[a] \in Nat /\ used[a] \in Int /\ used[a] + Mem(j) <= Total[a]
    BY <1>2, <1>4, SegmentSize, Numbered DEF TypeOK, AvailableMB
  <2>4. /\ used' \in [GPUs -> Int] /\ \A g \in GPUs \ {a} : used'[g] = used[g]
        /\ used'[a] = IF Mem(j) = 0 THEN Total[a] ELSE used[a] + Mem(j)
    BY <1>2, <2>1, <2>3 DEF TypeOK
  <2>5. j \notin DOMAIN allocations
    BY <1>2 DEF Bookings
  <2>6. DOMAIN allocations' = DOMAIN allocations \cup {j}
        /\ \A i \in DOMAIN allocations' : allocations'[i] \in GPUs
    BY <1>2, <2>1 DEF TypeOK
  <2>7. TypeOK'
    BY <2>1, <2>2, <2>4, <2>6 DEF TypeOK, Handler
  <2>8. Bookings'
    BY <2>2, <2>6 DEF Bookings
  <2>9. Answers'
    BY <2>1, <2>2 DEF Answers
  <2>10. ASSUME NEW g \in GPUs
         PROVE  /\ IsFiniteSet(BookedUnits(g)') /\ used'[g] <= Total[g]
                /\ discoverer' = "mock" =>
                     /\ Booked(g)' <= used'[g]
                     /\ used'[g] > Booked(g)' => \E i \in Calls : Mem(i) = 0 /\ bind'[i].gpu = g
    <3>1. /\ IsFiniteSet(BookedUnits(g)') /\ Booked(g) \in Nat
          /\ Booked(g)' = Booked(g) + IF g = a THEN Mem(j) ELSE 0
      BY <2>1, <2>5, BookAdds
    <3>2. /\ used[g] <= Total[g] /\ used[g] \in Int /\ Total[g] \in Nat
          /\ discoverer' = "mock" =>
               /\ Booked(g) <= used[g]
               /\ used[g] > Booked(g) => \E i \in Calls : Mem(i) = 0 /\ bind[i].gpu = g
      BY <2>1, Numbered DEF LedgerCovers, TypeOK
    <3>3. CASE g # a
      BY <2>2, <2>4, <3>1, <3>2, <3>3
    <3>4. CASE g = a /\ Mem(j) = 0
      BY <2>2, <2>3, <2>4, <3>1, <3>2, <3>4
    <3>5. CASE g = a /\ Mem(j) # 0
      BY <2>2, <2>3, <2>4, <3>1, <3>2, <3>5
    <3> QED  BY <3>3, <3>4, <3>5
  <2>11. LedgerCovers'
    BY <2>10 DEF LedgerCovers, Mem
  <2> QED  BY <2>2, <2>7, <2>8, <2>9, <2>10, <2>11
<1> QED  BY <1>3, <1>4

\* The API server binds a pending pod once, so one call of a pod at most is answered.
LEMMA BindPodStep ==
  ASSUME Inv, NEW j \in Calls, BindPod(j)
  PROVE  Inv'
<1> USE DEF Inv
<1>1. PICK ph \in {"answered", "release"} :
        /\ bind' = [bind EXCEPT ![j].phase = ph]
        /\ \/ pod[j[1]] = "pending" /\ pod' = [pod EXCEPT ![j[1]] = "bound"]
           \/ ph = "release" /\ pod' = pod
  BY DEF BindPod
<1>2. bind[j].phase = "bind" /\ UNCHANGED <<discoverer, used, refreshing, allocations>>
  BY DEF BindPod
<1>3. /\ bind' \in [Calls -> Handler]
      /\ bind'[j].phase = ph
      /\ \A i \in Calls \ {j} : bind'[i] = bind[i]
      /\ \A i \in Calls : bind'[i].phase = "scan" => Len(bind'[i].seen) < Len(Total)
      /\ \A i \in Calls : HandlerOK(i)'
      /\ \A i \in Calls : bind'[i].gpu = bind[i].gpu
  BY <1>1, <1>2, PhaseMoves
<1>4. \A i \in Calls : i[1] \in Pods
  BY ExtenderAssumption
<1>5. pod' \in [Pods -> {"pending", "bound", "gone"}] /\ \A p \in Pods : pod[p] # "pending" => pod'[p] # "pending"
  BY <1>1, <1>4 DEF TypeOK
<1>6. TypeOK'
  BY <1>2, <1>3, <1>5 DEF TypeOK, Handler
<1>7. Bookings'
  BY <1>1, <1>2, <1>3 DEF Bookings
<1>8. Answers'
  <2>1. ph = "answered" => pod[j[1]] = "pending" /\ pod'[j[1]] = "bound"
    BY <1>1, <1>4 DEF TypeOK
  <2>2. ASSUME NEW i \in Calls, bind'[i].phase = "answered"
        PROVE  pod'[i[1]] # "pending"
    BY <1>3, <1>4, <1>5, <2>1, <2>2 DEF Answers
  <2>3. \A i \in Calls \ {j} : bind'[i].phase = "answered" /\ ph = "answered" => i[1] # j[1]
    BY <1>3, <2>1 DEF Answers
  <2>4. ASSUME NEW i \in Calls, NEW k \in Calls, bind'[i].phase = "answered", bind'[k].phase = "answered", i[1] = k[1]
        PROVE  i = k
    BY <1>3, <2>3, <2>4 DEF Answers
  <2> QED  BY <2>2, <2>4 DEF Answers
<1> QED  BY <1>2, <1>3, <1>6, <1>7, <1>8, BookKept

\* Manager.Release gives back what this call took: the booking is still there.
LEMMA ReleaseStep ==
  ASSUME Inv, NEW j \in Calls, Release(j)
  PROVE  Inv'
<1> USE DEF Inv
<1>1. j \in DOMAIN allocations /\ bind[j].phase = "release"
  BY DEF Release, Bookings
<1>2. PICK a : a = allocations[j]
  OBVIOUS
<1>3. /\ used' = [used EXCEPT ![a] = @ - Mem(j)]
      /\ allocations' = Restrict(allocations, DOMAIN allocations \ {j})
      /\ bind' = [bind EXCEPT ![j].phase = "failed"]
      /\ UNCHANGED <<discoverer, refreshing, pod>>
  BY <1>2 DEF Release
<1>4. /\ bind' \in [Calls -> Handler]
      /\ bind'[j].phase = "failed"
      /\ \A i \in Calls \ {j} : bind'[i] = bind[i]
      /\ \A i \in Calls : bind'[i].phase = "scan" => Len(bind'[i].seen) < Len(Total)
      /\ \A i \in Calls : HandlerOK(i)'
      /\ \A i \in Calls : bind'[i].gpu = bind[i].gpu
  BY <1>1, <1>3, PhaseMoves
<1>5. a \in GPUs /\ Mem(j) \in Nat /\ used[a] \in Int
  BY <1>1, <1>2, SegmentSize DEF TypeOK
<1>6. used' \in [GPUs -> Int] /\ (\A g \in GPUs \ {a} : used'[g] = used[g]) /\ used'[a] = used[a] - Mem(j)
  BY <1>3, <1>5 DEF TypeOK
<1>7. DOMAIN allocations' = DOMAIN allocations \ {j} /\ \A i \in DOMAIN allocations' : allocations'[i] = allocations[i]
  BY <1>3 DEF Restrict
<1>8. TypeOK'
  BY <1>3, <1>4, <1>6, <1>7 DEF TypeOK, Handler
<1>9. Bookings'
  BY <1>4, <1>7 DEF Bookings
<1>10. Answers'
  BY <1>3, <1>4 DEF Answers
<1>11. ASSUME NEW g \in GPUs
       PROVE  /\ IsFiniteSet(BookedUnits(g)') /\ used'[g] <= Total[g]
              /\ discoverer' = "mock" =>
                   /\ Booked(g)' <= used'[g]
                   /\ used'[g] > Booked(g)' => \E i \in Calls : Mem(i) = 0 /\ bind'[i].gpu = g
  <2>1. /\ IsFiniteSet(BookedUnits(g)') /\ Booked(g) \in Nat
        /\ Booked(g)' = Booked(g) - IF g = a THEN Mem(j) ELSE 0
    BY <1>1, <1>2, <1>3, ReleaseTakes
  <2>2. /\ used[g] <= Total[g] /\ used[g] \in Int /\ Total[g] \in Nat
        /\ discoverer' = "mock" =>
             /\ Booked(g) <= used[g]
             /\ used[g] > Booked(g) => \E i \in Calls : Mem(i) = 0 /\ bind[i].gpu = g
    BY <1>3, Numbered DEF LedgerCovers, TypeOK
  <2>3. CASE g # a
    BY <1>4, <1>6, <2>1, <2>2, <2>3
  <2>4. CASE g = a
    BY <1>4, <1>5, <1>6, <2>1, <2>2, <2>4
  <2> QED  BY <2>3, <2>4
<1>12. LedgerCovers'
  BY <1>11 DEF LedgerCovers, Mem
<1> QED  BY <1>4, <1>8, <1>9, <1>10, <1>11, <1>12

\* A refresh touches the used memory with the NVML discoverer only, and leaves it within the GPU.
LEMMA RefreshStep ==
  ASSUME Inv, RefreshAll \/ RefreshGPU
  PROVE  Inv'
<1> USE DEF Inv
<1>1. UNCHANGED <<discoverer, allocations, bind, pod>>
  BY DEF RefreshAll, RefreshGPU
<1>2. refreshing' \in {0} \cup GPUs
  <2>1. CASE RefreshAll
    BY <2>1, Numbered DEF RefreshAll
  <2>2. CASE RefreshGPU
    <3>1. refreshing \in 1..Len(Total) /\ Len(Total) \in Nat
      BY <2>2, Numbered DEF RefreshGPU, TypeOK
    <3>2. (refreshing + 1) % (Len(Total) + 1) \in 0..Len(Total)
      <4> DEFINE n == Len(Total)
      <4>1. n \in Nat /\ refreshing + 1 \in Int
        BY <3>1
      <4> HIDE DEF n
      <4>2. (refreshing + 1) % (n + 1) \in 0..n
        BY <4>1
      <4> QED  BY <4>2 DEF n
    <3>3. refreshing' = 0 \/ refreshing' = (refreshing + 1) % (Len(Total) + 1)
      BY <2>2 DEF RefreshGPU
    <3>4. 0..Len(Total) = {0} \cup GPUs
      BY Numbered
    <3> QED  BY <3>2, <3>3, <3>4
  <2> QED  BY <2>1, <2>2
<1>3. /\ used' \in [GPUs -> Int]
      /\ discoverer = "mock" => used' = used
      /\ \A g \in GPUs : used'[g] <= Total[g]
  <2>1. CASE UNCHANGED used
    BY <2>1 DEF TypeOK, LedgerCovers
  <2>2. ASSUME discoverer = "nvml", NEW m \in 0..Total[refreshing], used' = [used EXCEPT ![refreshing] = m],
               refreshing # 0
        PROVE  /\ used' \in [GPUs -> Int]
               /\ \A g \in GPUs : used'[g] <= Total[g]
    <3>1. refreshing \in GPUs /\ m \in Int /\ m <= Total[refreshing]
      BY <2>2, Numbered DEF TypeOK
    <3> QED  BY <2>2, <3>1 DEF TypeOK, LedgerCovers
  <2> QED  BY <2>1, <2>2 DEF RefreshAll, RefreshGPU
<1>4. TypeOK'
  BY <1>1, <1>2, <1>3 DEF TypeOK
<1>5. (\A i \in Calls : HandlerOK(i)') /\ Bookings' /\ Answers'
  BY <1>1 DEF HandlerOK, Bookings, Answers
<1>6. \A g \in GPUs : BookedUnits(g)' = BookedUnits(g)
  BY <1>1 DEF BookedUnits, Units, Mem
<1>7. LedgerCovers'
  BY <1>1, <1>3, <1>6 DEF LedgerCovers, Booked, Mem
<1> QED  BY <1>4, <1>5, <1>6, <1>7

\* Every step keeps the invariant.
LEMMA InvStep == Inv /\ [Next]_vars => Inv'
<1> SUFFICES ASSUME Inv, [Next]_vars PROVE Inv'
  OBVIOUS
<1>1. ASSUME NEW p \in Pods, PodGone(p) PROVE Inv'
  <2>1. pod' = [pod EXCEPT ![p] = "gone"] /\ UNCHANGED <<discoverer, used, refreshing, allocations, bind>>
    BY <1>1 DEF PodGone
  <2>2. TypeOK'
    BY <2>1 DEF Inv, TypeOK
  <2>3. Answers'
    BY <2>1, ExtenderAssumption DEF Inv, TypeOK, Answers
  <2>4. (\A i \in Calls : HandlerOK(i)') /\ Bookings'
    BY <2>1 DEF Inv, HandlerOK, Bookings
  <2> QED  BY <2>1, <2>2, <2>3, <2>4, BookKept DEF Inv
<1>2. CASE UNCHANGED vars
  <2>1. TypeOK' /\ (\A i \in Calls : HandlerOK(i)') /\ Bookings' /\ Answers'
    BY <1>2 DEF Inv, vars, TypeOK, HandlerOK, Bookings, Answers
  <2> QED  BY <1>2, <2>1, BookKept DEF Inv, vars
<1> QED  BY <1>1, <1>2, HandlerSteps, AllocateStep, BindPodStep, ReleaseStep, RefreshStep DEF Next

\* No call has begun, nothing is booked, and no GPU is used beyond its size.
LEMMA InvInit == Init => Inv
<1> SUFFICES ASSUME Init PROVE Inv
  OBVIOUS
<1>1. \A g \in GPUs : used[g] <= Total[g] /\ used[g] \in Int /\ (discoverer = "mock" => used[g] = 0)
  BY Numbered DEF Init
<1>2. \A j \in Calls : bind[j] = NoCall
  BY DEF Init
<1>3. TypeOK
  <2>1. NoCall \in Handler /\ NoCall.phase = "idle"
    BY DEF NoCall, Handler
  <2>2. used \in [GPUs -> Int]
    BY <1>1 DEF Init
  <2>3. bind \in [Calls -> Handler]
    BY <2>1 DEF Init
  <2>4. DOMAIN allocations = {}
    BY DEF Init
  <2> QED  BY <1>2, <2>1, <2>2, <2>3, <2>4 DEF Init, TypeOK, Handler
<1>4. (\A j \in Calls : HandlerOK(j)) /\ Bookings /\ Answers
  BY <1>2 DEF Init, NoCall, HandlerOK, Bookings, Answers
<1>5. \A g \in GPUs : BookedUnits(g) = {}
  <2>1. DOMAIN allocations = {}
    BY DEF Init
  <2> QED  BY <2>1, BookedMembers
<1>6. \A g \in GPUs : IsFiniteSet(BookedUnits(g)) /\ Booked(g) = 0
  BY <1>5, FS_EmptySet DEF Booked
<1>7. LedgerCovers
  BY <1>1, <1>6 DEF LedgerCovers
<1> QED  BY <1>3, <1>4, <1>6, <1>7 DEF Inv

\* The invariant holds throughout.
LEMMA Invariance == Spec => []Inv
BY InvInit, InvStep, PTL DEF Spec

-----------------------------------------------------------------------------
(* The theorems.                                                            *)

\* The handlers, the manager and the API server hold values of their types: the refresh
\* never runs past the last GPU and no handler reads past it (RefreshAll, findCandidates).
THEOREM TypeCorrect == Spec => []TypeOK
<1>1. Inv => TypeOK
  BY DEF Inv
<1> QED  BY <1>1, Invariance, PTL

\* Whatever the handlers, the unlocked reads and the refreshes do between each other's
\* steps, the used memory never passes the GPU's size and, with the mock discoverer,
\* covers the jobs on the GPU and nothing else (Manager.Allocate, Release, RefreshAll).
THEOREM LedgerCoversHolds == Spec => []LedgerCovers
<1>1. Inv => LedgerCovers
  BY DEF Inv
<1> QED  BY <1>1, Invariance, PTL

\* A job is booked from Allocate until its bind fails, and of the calls for a pod at most
\* one is answered with success (BindHandler).
THEOREM BookedWhileBoundHolds == Spec => []BookedWhileBound
<1>1. ASSUME Inv PROVE BookedWhileBound
  <2>1. ASSUME NEW p \in Pods
        PROVE  Cardinality({j \in Calls : j[1] = p /\ bind[j].phase = "answered"}) <= 1
    <3> DEFINE A == {j \in Calls : j[1] = p /\ bind[j].phase = "answered"}
    <3>1. \A i, j \in A : i = j
      BY <1>1 DEF Inv, Answers
    <3> HIDE DEF A
    <3>2. A = {} => Cardinality(A) <= 1
      BY FS_EmptySet
    <3>3. ASSUME NEW i \in A PROVE Cardinality(A) <= 1
      <4>1. A = {i}
        BY <3>1, <3>3
      <4> QED  BY <4>1, FS_Singleton
    <3> QED  BY <3>2, <3>3 DEF A
  <2> QED  BY <1>1, <2>1 DEF Inv, Bookings, BookedWhileBound
<1> QED  BY <1>1, Invariance, PTL

\* A set of numbers that is not empty has a least one.
LEMMA LeastNumber ==
  ASSUME NEW K \in SUBSET Nat, K # {}
  PROVE  \E k \in K : \A m \in K : k <= m
<1> DEFINE R == OpToRel(<, Nat)
<1>1. \A m, k \in Nat : m < k => <<m, k>> \in R
  BY DEF OpToRel
<1>2. IsWellFoundedOn(R, Nat)
  BY NatLessThanWellFounded
<1> HIDE DEF R
<1>3. PICK k \in K : \A m \in K : ~(<<m, k>> \in R)
  BY <1>2, WFMin, Zenon
<1>4. \A m \in K : ~(m < k)
  BY <1>1, <1>3, Zenon
<1> QED  BY <1>4

\* What the filter counts as room is what the bin packer may choose from, and of the
\* GPUs of least waste the first is among those the bin packer may take.
LEMMA Advice ==
  ASSUME TypeOK, NEW mem \in Nat \ {0}
  PROVE  LET fit    == {g \in GPUs : AvailableMB(g) >= mem}
             tight  == {g \in fit : \A h \in fit : AvailableMB(g) <= AvailableMB(h)}
         IN  /\ BinPackSchedule(View(used), mem, FALSE) = tight
             /\ fit # {} => tight # {} /\ Min(tight) \in tight
<1> DEFINE fit   == {g \in GPUs : AvailableMB(g) >= mem}
           tight == {g \in fit : \A h \in fit : AvailableMB(g) <= AvailableMB(h)}
<1>1. \A g \in GPUs : used[g] \in Int /\ Total[g] \in Nat /\ AvailableMB(g) \in Int /\ g \in Nat
  BY Numbered DEF TypeOK, AvailableMB
<1>2. /\ DOMAIN View(used) = GPUs
      /\ \A g \in GPUs : /\ AvailableMemoryMB(View(used), g) = AvailableMB(g)
                         /\ View(used)[g].total = Total[g] /\ View(used)[g].healthy
                         /\ View(used)[g].pods = 0 /\ View(used)[g].util = 0
  BY DEF View, TypeOK, AvailableMemoryMB, AvailableMB
<1> DEFINE V == View(used)
<1> HIDE DEF V
<1>3. Eligible(V, mem, FALSE) = fit
  <2>1. \A g \in GPUs : g \in Eligible(V, mem, FALSE) <=> g \in fit
    BY <1>1, <1>2 DEF Eligible, V
  <2> QED  BY <1>2, <2>1 DEF Eligible, V
<1>4. BinPackSchedule(V, mem, FALSE) = tight
  <2>1. BinPackSchedule(V, mem, FALSE)
          = {g \in {x \in fit : \A y \in fit : AvailableMemoryMB(V, x) - mem <= AvailableMemoryMB(V, y) - mem} :
               \A h \in {x \in fit : \A y \in fit : AvailableMemoryMB(V, x) - mem <= AvailableMemoryMB(V, y) - mem} :
                  0 - V[g].util <= 0 - V[h].util}
    BY <1>3 DEF BinPackSchedule, LeastBy
  <2>2. {x \in fit : \A y \in fit : AvailableMemoryMB(V, x) - mem <= AvailableMemoryMB(V, y) - mem} = tight
    BY <1>1, <1>2 DEF V
  <2>3. \A g, h \in fit : 0 - V[g].util <= 0 - V[h].util
    BY <1>2 DEF V
  <2> QED  BY <2>1, <2>2, <2>3
<1>5. ASSUME fit # {} PROVE tight # {} /\ Min(tight) \in tight
  <2> DEFINE K == {AvailableMB(g) : g \in fit}
  <2>1. K \subseteq Nat /\ K # {}
    BY <1>1, <1>5
  <2> HIDE DEF K
  <2>2. PICK k \in K : \A m \in K : k <= m
    BY <2>1, LeastNumber
  <2>3. PICK g \in fit : AvailableMB(g) = k
    BY DEF K
  <2>4. g \in tight
    BY <2>2, <2>3 DEF K
  <2>5. tight \subseteq Nat
    BY <1>1
  <2> HIDE DEF tight
  <2>6. PICK b \in tight : \A m \in tight : b <= m
    BY <2>4, <2>5, LeastNumber
  <2>7. Min(tight) \in tight
    BY <2>6, Zenon DEF Min
  <2> QED  BY <2>4, <2>7
<1> QED  BY <1>4, <1>5 DEF V

\* In every state, the filter lets a pod pass exactly when the bin packer would find it a
\* GPU, and the score is that of a GPU the bin packer may take: kube-scheduler is never
\* sent where a bind started at that moment must fail (FilterHandler, PrioritizeHandler).
THEOREM AdviceMatchesBindHolds == Spec => []AdviceMatchesBind
<1>1. ASSUME TypeOK PROVE AdviceMatchesBind
  <2>1. SUFFICES ASSUME NEW mem \in 1..Max(Range(Total))
                 PROVE  LET choice == BinPackSchedule(View(used), mem, FALSE)
                        IN  /\ HasCapacity(mem) <=> choice # {}
                            /\ Score(mem) \in IF choice = {} THEN {0}
                                              ELSE {100 - ((AvailableMB(g) - mem) * 100) \div Total[g] : g \in choice}
    BY DEF AdviceMatchesBind
  <2> DEFINE fit    == {g \in GPUs : AvailableMB(g) >= mem}
             tight  == {g \in fit : \A h \in fit : AvailableMB(g) <= AvailableMB(h)}
             choice == BinPackSchedule(View(used), mem, FALSE)
             worth(g) == 100 - ((AvailableMB(g) - mem) * 100) \div Total[g]
  <2>2. mem \in Nat \ {0}
    OBVIOUS
  <2>3. choice = tight /\ (fit # {} => tight # {} /\ Min(tight) \in tight)
    BY <1>1, <2>2, Advice
  <2>4. HasCapacity(mem) <=> fit # {}
    BY DEF HasCapacity
  <2>5. Score(mem) = IF fit = {} THEN 0 ELSE worth(Min(tight))
    BY DEF Score
  <2>6. tight \subseteq fit
    OBVIOUS
  <2> HIDE DEF fit, tight, choice, worth
  <2>7. Score(mem) \in IF choice = {} THEN {0} ELSE {worth(g) : g \in choice}
    BY <2>3, <2>5, <2>6
  <2>8. HasCapacity(mem) <=> choice # {}
    BY <2>3, <2>4, <2>6
  <2> QED  BY <2>7, <2>8 DEF choice, worth
<1> QED  BY <1>1, TypeCorrect, PTL

-----------------------------------------------------------------------------
(* The manager implements the ledger.                                       *)

\* g is the largest of the first n GPUs.
Largest(g, n) == g \in 1..n /\ \A h \in 1..n : Total[h] <= Total[g]

\* There is a largest GPU.
LEMMA LargestGPU == Max(Range(Total)) \in Nat /\ \A g \in GPUs : Total[g] <= Max(Range(Total))
<1> DEFINE K == {n \in 1..Len(Total) : ~ \E g : Largest(g, n)}
<1>1. ASSUME NEW k \in K, \A m \in K : k <= m PROVE FALSE
  <2>1. k \in 1..Len(Total) /\ ~ \E g : Largest(g, k)
    OBVIOUS
  <2>2. \A h \in 1..k : h \in GPUs /\ Total[h] \in Nat
    BY <2>1, Numbered
  <2>3. k # 1
    <3>1. k = 1 => Largest(1, k)
      BY <2>1, <2>2 DEF Largest
    <3> QED  BY <2>1, <3>1
  <2>4. k - 1 \in 1..Len(Total)
    BY <2>1, <2>3, Numbered
  <2>5. k - 1 \notin K
    <3>1. ~(k <= k - 1)
      BY <2>1
    <3> HIDE DEF K
    <3> QED  BY <1>1, <3>1
  <2>6. PICK g : Largest(g, k - 1)
    BY <2>4, <2>5
  <2>7. g \in 1..(k - 1) /\ \A h \in 1..(k - 1) : Total[h] <= Total[g]
    BY <2>6 DEF Largest
  <2>8. g \in 1..k /\ \A h \in 1..k : h = k \/ h \in 1..(k - 1)
    BY <2>1, <2>7
  <2>9. CASE Total[k] <= Total[g]
    <3>1. Largest(g, k)
      BY <2>7, <2>8, <2>9 DEF Largest
    <3> QED  BY <2>1, <3>1
  <2>10. CASE ~(Total[k] <= Total[g])
    <3>1. k \in 1..k /\ Total[k] \in Nat /\ Total[g] \in Nat
      BY <2>1, <2>2, <2>8
    <3>2. \A h \in 1..k : Total[h] <= Total[k]
      BY <2>2, <2>7, <2>8, <2>10, <3>1
    <3>3. Largest(k, k)
      BY <3>1, <3>2 DEF Largest
    <3> QED  BY <2>1, <3>3
  <2> QED  BY <2>9, <2>10
<1>2. \E g : Largest(g, Len(Total))
  <2>1. K \in SUBSET Nat /\ Len(Total) \in 1..Len(Total)
    BY Numbered
  <2>2. K = {}
    <3> HIDE DEF K
    <3> QED  BY <1>1, <2>1, LeastNumber
  <2> QED  BY <2>1, <2>2
<1>3. PICK g \in GPUs : \A h \in GPUs : Total[h] <= Total[g]
  BY <1>2, Numbered DEF Largest
<1> DEFINE R == Range(Total)
<1>4. Total[g] \in R /\ (\A x \in R : x \in Nat /\ x <= Total[g]) /\ \A h \in GPUs : Total[h] \in R
  BY <1>3, Numbered DEF Range, GPUs
<1> HIDE DEF R
<1>5. \E x \in R : \A y \in R : x >= y
  BY <1>4
<1>6. Max(R) \in R /\ \A y \in R : Max(R) >= y
  BY <1>5 DEF Max
<1>7. Max(R) \in Nat /\ \A h \in GPUs : Total[h] <= Max(R)
  BY <1>4, <1>6, Numbered
<1> QED  BY <1>7 DEF R

\* The ledger counts as the manager does.
LEMMA SameCardinality == \A S : L!Cardinality(S) = Cardinality(S)
BY DEF L!Cardinality, Cardinality

\* What the ledger has booked on a GPU is what the jobs on it were given.
LEMMA LedgerCounts ==
  ASSUME Inv, NEW g \in GPUs
  PROVE  Cardinality(L!BookedUnits(g)) \in Nat /\ Booked(g) \in Nat /\ Cardinality(L!BookedUnits(g)) <= Booked(g)
<1> DEFINE S == L!BookedUnits(g)
           f == [u \in S |-> <<u[1][1], u[2]>>]
<1>1. ASSUME NEW u \in S
      PROVE  /\ u = <<<<u[1][1], 1>>, u[2]>> /\ u[1][1] \in DOMAIN allocations
             /\ allocations[u[1][1]] = g /\ u[2] \in 1..Mem(u[1][1])
  <2> DEFINE j == u[1][1]  k == u[2]
  <2>1. /\ u = <<<<j, 1>>, k>> /\ j \in Calls /\ k \in 1..Max(Range(Total))
        /\ 1 <= Len(Book[j]) /\ Book[j][1].dev = g /\ k <= Book[j][1].mem
    BY DEF L!BookedUnits, L!Units, L!Slots, L!Books
  <2>2. j \in DOMAIN allocations
    BY <2>1 DEF Book
  <2>3. Book[j] = <<[dev |-> allocations[j], mem |-> Mem(j), isMIG |-> FALSE]>>
    BY <2>1, <2>2 DEF Book
  <2>4. Book[j][1] = [dev |-> allocations[j], mem |-> Mem(j), isMIG |-> FALSE]
    BY <2>3
  <2>5. Mem(j) \in Nat
    BY <2>1, SegmentSize
  <2> QED  BY <2>1, <2>2, <2>4, <2>5, LargestGPU
<1> HIDE DEF S
<1>2. f \in [S -> BookedUnits(g)]
  <2>1. \A u \in S : <<u[1][1], u[2]>> \in Segment(u[1][1])
    BY <1>1 DEF Segment
  <2> QED  BY <1>1, <2>1, BookedMembers
<1>3. \A u, v \in S : f[u] = f[v] => u = v
  BY <1>1
<1>4. f \in Injection(S, BookedUnits(g))
  BY <1>2, <1>3 DEF Injection, IsInjective
<1>5. IsFiniteSet(BookedUnits(g))
  BY DEF Inv
<1>6. IsFiniteSet(S) /\ Cardinality(S) <= Cardinality(BookedUnits(g))
  BY <1>4, <1>5, FS_Injection
<1> QED  BY <1>5, <1>6, FS_CardinalityType DEF S, Booked

\* An allocation that finds room is a grant of the ledger.
LEMMA AllocateGrants ==
  ASSUME Inv, NEW j \in Calls, Allocate(j), discoverer = "mock", Book' # Book
  PROVE  L!Next
<1>1. PICK g : g = bind[j].gpu
  OBVIOUS
<1>2. g \in GPUs /\ j \notin DOMAIN allocations
  BY <1>1 DEF Inv, HandlerOK, Bookings, Allocate
<1>3. /\ ~(AvailableMB(g) < Mem(j))
      /\ allocations' = [i \in DOMAIN allocations \cup {j} |-> IF i = j THEN g ELSE allocations[i]]
  <2>1. UNCHANGED allocations => Book' = Book
    BY DEF Book, Mem
  <2> QED  BY <1>1, <2>1 DEF Allocate
<1>4. Mem(j) \in Nat /\ Total[g] \in Nat /\ used[g] \in Int /\ Booked(g) <= used[g]
  BY <1>2, SegmentSize, Numbered DEF Inv, TypeOK, LedgerCovers
<1>5. Cardinality(L!BookedUnits(g)) \in Nat /\ Cardinality(L!BookedUnits(g)) <= Booked(g) /\ Booked(g) \in Nat
  BY <1>2, LedgerCounts
<1>6. Cardinality(L!BookedUnits(g)) + Mem(j) <= Total[g] /\ Mem(j) \in 0..Max(Range(Total))
  <2>1. used[g] + Mem(j) <= Total[g]
    BY <1>3, <1>4 DEF AvailableMB
  <2>2. Total[g] <= Max(Range(Total)) /\ Max(Range(Total)) \in Nat
    BY <1>2, LargestGPU
  <2> QED  BY <1>4, <1>5, <2>1, <2>2
<1> DEFINE e == [dev |-> g, mem |-> Mem(j), isMIG |-> FALSE]
<1>7. e \in L!Entry /\ e.dev = g /\ e.mem = Mem(j) /\ e.isMIG = FALSE
  BY <1>2, <1>6 DEF L!Entry
<1>8. Book' = [Book EXCEPT ![j] = Append(@, e)]
  <2>1. Book[j] = <<>> /\ Append(<<>>, e) = <<e>>
    BY <1>2 DEF Book
  <2>2. DOMAIN allocations' = DOMAIN allocations \cup {j} /\ allocations'[j] = g
        /\ \A i \in DOMAIN allocations : i # j /\ allocations'[i] = allocations[i]
    BY <1>2, <1>3
  <2>3. Book' = [i \in Calls |-> IF i = j THEN <<e>> ELSE Book[i]]
    BY <2>2 DEF Book, Mem
  <2>4. [Book EXCEPT ![j] = Append(@, e)] = [i \in Calls |-> IF i = j THEN Append(Book[j], e) ELSE Book[i]]
    BY DEF Book
  <2> QED  BY <2>1, <2>3, <2>4
<1>9. Len(Book[j]) < 1
  BY <1>2 DEF Book
<1> HIDE DEF e
<1>10. L!Grant(j, e)
  BY <1>2, <1>6, <1>7, <1>8, <1>9, SameCardinality DEF L!Grant
<1> QED  BY <1>7, <1>10 DEF L!Next

\* A release is the return of one job's memory.
LEMMA ReleaseReturns ==
  ASSUME NEW j \in Calls, Release(j)
  PROVE  L!Next
<1>1. DOMAIN allocations' = DOMAIN allocations \ {j} /\ \A i \in DOMAIN allocations' : allocations'[i] = allocations[i]
  BY DEF Release, Restrict
<1>2. Book' = [i \in Calls |-> IF i = j THEN <<>> ELSE Book[i]]
  BY <1>1 DEF Book, Mem
<1>3. L!Return(j)
  BY <1>2 DEF L!Return, Book
<1> QED  BY <1>3 DEF L!Next

\* With the mock discoverer the manager implements the ledger that the registry implements:
\* whatever the bin packer read before, each booking fits when it is made, and each release
\* takes back one job's (Manager.Allocate, Release, RefreshAll).
THEOREM ManagerImplementsLedger == Spec => ImplementsLedger
<1>1. Init => (discoverer = "mock" => L!Init)
  <2>1. Init => Book = [j \in Calls |-> <<>>]
    BY DEF Init, Book
  <2> QED  BY <2>1 DEF L!Init
<1>2. Inv /\ [Next]_vars => [discoverer = "mock" => L!Next]_Book
  <2> SUFFICES ASSUME Inv, [Next]_vars, discoverer = "mock", Book' # Book PROVE L!Next
    OBVIOUS
  <2>1. allocations' # allocations
    BY DEF Book, Mem
  <2>2. ASSUME NEW j \in Calls, Allocate(j) PROVE L!Next
    BY <2>2, AllocateGrants
  <2>3. ASSUME NEW j \in Calls, Release(j) PROVE L!Next
    BY <2>3, ReleaseReturns
  <2>4. \E j \in Calls : Allocate(j) \/ Release(j)
    <3>1. ASSUME NEW j \in Calls, Filter(j) \/ GetPod(j) \/ ScanGPU(j) \/ BindPod(j) PROVE FALSE
      BY <2>1, <3>1 DEF Filter, GetPod, ScanGPU, BindPod
    <3>2. ~RefreshAll /\ ~RefreshGPU /\ ~UNCHANGED vars /\ \A p \in Pods : ~PodGone(p)
      BY <2>1 DEF RefreshAll, RefreshGPU, PodGone, vars
    <3> QED  BY <3>1, <3>2 DEF Next
  <2> QED  BY <2>2, <2>3, <2>4
<1> QED  BY <1>1, <1>2, Invariance, PTL DEF Spec, ImplementsLedger

=============================================================================
