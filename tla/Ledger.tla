------------------------------- MODULE Ledger -------------------------------
(***************************************************************************)
(* What whoever hands out GPUs promises to the scheduler: a book of which  *)
(* pod holds how much of which GPU, written by atomic grants and returns.  *)
(* A grant never takes a GPU over its memory and, but for the pods that    *)
(* join others wherever there is room, never adds an entry to a GPU that   *)
(* has one and is not shared through MPS.                                  *)
(*                                                                         *)
(* The book is all the state there is: reserved memory and pod counts are  *)
(* derived from it.  Registry.tla keeps them in counters of their own and  *)
(* implements this specification, and so does the manager of Extender.tla, *)
(* which has one entry for each job and shares every GPU.                  *)
(***************************************************************************)
EXTENDS Integers, Sequences, FiniteSets

CONSTANTS
  Pods,        \* pod keys "namespace/name"
  GPUs,        \* full GPUs
  MIGs,        \* MIG instances
  Total,       \* GPU -> its memory
  MPSGPUs,     \* the GPUs that run an MPS daemon and may be shared
  Joining,     \* the pods for which nobody asks whether a GPU is empty or has MPS
  MaxMem,      \* bound: the largest memory request
  MaxEntries   \* bound: the most entries one pod key can have

VARIABLE alloc   \* pod key -> the sequence of its allocation entries

Entry == [dev : GPUs \cup MIGs, mem : 0..MaxMem, isMIG : BOOLEAN]

\* The entries, and the units of memory, that are booked on GPU g.  Counting the
\* units is summing the memory.
Slots == Pods \X (1..MaxEntries)
Units == Slots \X (1..MaxMem)

Books(s, g) == /\ s[2] <= Len(alloc[s[1]])
               /\ ~alloc[s[1]][s[2]].isMIG
               /\ alloc[s[1]][s[2]].dev = g

BookedSlots(g) == {s \in Slots : Books(s, g)}
BookedUnits(g) == {u \in Units : Books(u[1], g) /\ u[2] <= alloc[u[1][1]][u[1][2]].mem}

Init == alloc = [p \in Pods |-> <<>>]

\* Enter e in the book of p; a full GPU must have room, and be free unless it has MPS or
\* p joins.
Grant(p, e) ==
  /\ Len(alloc[p]) < MaxEntries
  /\ ~e.isMIG => /\ e.dev \in GPUs
                 /\ Cardinality(BookedUnits(e.dev)) + e.mem <= Total[e.dev]
                 /\ e.dev \in MPSGPUs \/ BookedSlots(e.dev) = {} \/ p \in Joining
  /\ alloc' = [alloc EXCEPT ![p] = Append(@, e)]

\* Strike out everything p holds.
Return(p) == alloc' = [alloc EXCEPT ![p] = <<>>]

Next == \E p \in Pods : Return(p) \/ \E e \in Entry : Grant(p, e)

Spec == Init /\ [][Next]_alloc
=============================================================================
