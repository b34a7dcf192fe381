--------------------------- MODULE WebhookProofs ---------------------------
(***************************************************************************)
(* Proofs about the admission webhook: whatever pods users submit, however *)
(* often they are admitted, missed and resumed, the patches apply, the     *)
(* user's part stays, and a pod changed once has its access and is valid.  *)
(***************************************************************************)
EXTENDS Webhook, SequenceTheorems, FiniteSetTheorems, TLAPS

-----------------------------------------------------------------------------
(* What the patches of one array make of it.                                *)

Array == Seq(Names)

\* The names the webhook uses are names.
LEMMA OwnNames ==
  /\ "gpu-info" \in Names /\ "nvidia-mps" \in Names
  /\ ContainerEnv \in Array /\ Len(ContainerEnv) = 3
  /\ \A i \in 1..3 : ContainerEnv[i] \in Names
  /\ ContainerEnv[1] # ContainerEnv[2] /\ ContainerEnv[1] # ContainerEnv[3] /\ ContainerEnv[2] # ContainerEnv[3]
  /\ Range(ContainerEnv) = {ContainerEnv[1], ContainerEnv[2], ContainerEnv[3]}
<1>1. ContainerEnv = <<ContainerEnv[1], ContainerEnv[2], ContainerEnv[3]>> /\ Len(ContainerEnv) = 3
  BY DEF ContainerEnv
<1>2. Range(ContainerEnv) = {ContainerEnv[1], ContainerEnv[2], ContainerEnv[3]}
  BY DEF ContainerEnv, Range
<1>3. Range(ContainerEnv) \subseteq Names /\ {"gpu-info", "nvidia-mps"} \subseteq Names
  BY WebhookAssumption
<1>4. \A i \in 1..3 : ContainerEnv[i] \in Names
  BY <1>2, <1>3
<1>5. ContainerEnv \in Array
  BY <1>2, <1>3 DEF Array, ContainerEnv
<1>6. ContainerEnv[1] # ContainerEnv[2] /\ ContainerEnv[1] # ContainerEnv[3] /\ ContainerEnv[2] # ContainerEnv[3]
  BY DEF ContainerEnv
<1> QED  BY <1>1, <1>2, <1>3, <1>4, <1>5, <1>6

\* t begins with s.
Extends(s, t) == t \in Array /\ Len(s) <= Len(t) /\ \A k \in 1..Len(s) : t[k] = s[k]

\* Appending a name keeps the beginning, the names that are there, and their places.
LEMMA Appending ==
  ASSUME NEW t \in Array, NEW n \in Names
  PROVE  LET u == Append(t, n)
         IN  /\ u \in Array /\ u # <<>> /\ Len(u) = Len(t) + 1 /\ u[Len(u)] = n
             /\ \A s \in Array : Extends(s, t) => Extends(s, u)
             /\ Range(u) = Range(t) \cup {n}
             /\ \A m : Places(u, m) = IF m = n THEN Places(t, m) \cup {Len(t) + 1} ELSE Places(t, m)
<1> DEFINE u == Append(t, n)
<1>1. /\ u \in Array /\ u # <<>> /\ Len(u) = Len(t) + 1 /\ Len(t) \in Nat /\ u[Len(t) + 1] = n
      /\ \A k \in 1..Len(t) : u[k] = t[k]
  BY AppendProperties DEF Array
<1>2. DOMAIN u = 1..(Len(t) + 1) /\ DOMAIN t = 1..Len(t)
  BY <1>1 DEF Array
<1> HIDE DEF u
<1>3. \A s \in Array : Extends(s, t) => Extends(s, u)
  <2> SUFFICES ASSUME NEW s \in Array, Extends(s, t) PROVE Extends(s, u)
    OBVIOUS
  <2>1. Len(s) \in Nat /\ Len(s) <= Len(t) /\ \A k \in 1..Len(s) : t[k] = s[k]
    BY DEF Extends, Array
  <2> QED  BY <1>1, <2>1 DEF Extends
<1>4. Range(u) = Range(t) \cup {n}
  <2>1. \A x \in Range(u) : x \in Range(t) \cup {n}
    BY <1>1, <1>2 DEF Range
  <2>2. \A x \in Range(t) \cup {n} : x \in Range(u)
    BY <1>1, <1>2 DEF Range
  <2> QED  BY <2>1, <2>2
<1>5. \A m : Places(u, m) = IF m = n THEN Places(t, m) \cup {Len(t) + 1} ELSE Places(t, m)
  BY <1>1, <1>2 DEF Places
<1> QED  BY <1>1, <1>3, <1>4, <1>5 DEF u

\* An array begins with itself.
LEMMA ExtendsItself ==
  ASSUME NEW a \in Array
  PROVE  Extends(a, a)
BY DEF Extends, Array

\* AddName: the array is there afterwards, has the name at its end and what it had before.
LEMMA NameAdded ==
  ASSUME NEW a \in Array, NEW n \in Names
  PROVE  AddName(a, n) = [names |-> Append(a, n), ok |-> TRUE]
<1>1. CASE a = <<>>
  <2>1. Append(a, n) = <<n>>
    BY <1>1
  <2> QED  BY <1>1, <2>1 DEF AddName, NewArray, Untouched
<1>2. CASE a # <<>>
  BY <1>2 DEF AddName, AppendTo, Untouched
<1> QED  BY <1>1, <1>2

\* u is t with n at its end, unless n is in a.
Adds(a, t, u, n) ==
  /\ u # <<>> /\ Extends(a, u)
  /\ n \in Range(a) => u = t
  /\ n \notin Range(a) =>
       /\ n \in Range(u)
       /\ \A m : Places(u, m) = IF m = n THEN Places(t, m) \cup {Len(t) + 1} ELSE Places(t, m)

\* AddMissing: one variable more, unless the user has set it.
LEMMA MissingAdded ==
  ASSUME NEW a \in Array, NEW t \in Array, t # <<>>, Extends(a, t), NEW n \in Names
  PROVE  \E u \in Array :
           AddMissing(a, [names |-> t, ok |-> TRUE], n) = [names |-> u, ok |-> TRUE] /\ Adds(a, t, u, n)
<1>1. CASE n \in Range(a)
  <2>1. AddMissing(a, [names |-> t, ok |-> TRUE], n) = [names |-> t, ok |-> TRUE]
    BY <1>1 DEF AddMissing
  <2> QED  BY <1>1, <2>1 DEF Adds
<1>2. CASE n \notin Range(a)
  <2>1. AddMissing(a, [names |-> t, ok |-> TRUE], n) = [names |-> Append(t, n), ok |-> TRUE]
    BY <1>2 DEF AddMissing, AppendTo
  <2>2. /\ Append(t, n) \in Array /\ Append(t, n) # <<>> /\ Extends(a, Append(t, n))
        /\ Range(Append(t, n)) = Range(t) \cup {n}
        /\ \A m : Places(Append(t, n), m) = IF m = n THEN Places(t, m) \cup {Len(t) + 1} ELSE Places(t, m)
    BY Appending
  <2> QED  BY <1>2, <2>1, <2>2 DEF Adds
<1> QED  BY <1>1, <1>2

\* A name that is not in an array has no place in it.
LEMMA NoPlace ==
  ASSUME NEW a, NEW n
  PROVE  n \in Range(a) <=> Places(a, n) # {}
BY DEF Range, Places

\* The variable has one place more in t than in a, unless the user has set it.
SetOnce(a, t, n) ==
  IF Places(a, n) = {} THEN \E k : Places(t, n) = {k} ELSE Places(t, n) = Places(a, n)

\* The variables of a container: each is there, and only those that were missing are new.
LEMMA EnvAdded ==
  ASSUME NEW a \in Array
  PROVE  \E u \in Array :
           /\ ContainerEnvPatches(a) = [names |-> u, ok |-> TRUE]
           /\ Extends(a, u)
           /\ \A n \in Range(ContainerEnv) : SetOnce(a, u, n)
<1> DEFINE x == ContainerEnv[1]  y == ContainerEnv[2]  z == ContainerEnv[3]
<1>0. /\ x \in Names /\ y \in Names /\ z \in Names /\ x # y /\ x # z /\ y # z
      /\ Range(ContainerEnv) = {x, y, z} /\ ContainerEnv \in Array /\ Len(ContainerEnv) = 3
  BY OwnNames
<1>1. CASE a = <<>>
  <2>1. ContainerEnvPatches(a) = [names |-> ContainerEnv, ok |-> TRUE]
    BY <1>1 DEF ContainerEnvPatches, NewArray, Untouched
  <2>2. Extends(a, ContainerEnv)
    BY <1>0, <1>1 DEF Extends
  <2>3. Places(ContainerEnv, x) = {1} /\ Places(ContainerEnv, y) = {2} /\ Places(ContainerEnv, z) = {3}
    <3>1. DOMAIN ContainerEnv = {1, 2, 3}
      BY DEF ContainerEnv
    <3> QED  BY <1>0, <3>1 DEF Places
  <2>4. \A n : Places(a, n) = {}
    BY <1>1 DEF Places
  <2> QED  BY <1>0, <2>1, <2>2, <2>3, <2>4 DEF SetOnce
<1>2. CASE a # <<>>
  <2> DEFINE R(t) == [names |-> t, ok |-> TRUE]
  <2>1. PICK t \in Array : AddMissing(a, R(a), x) = R(t) /\ Adds(a, a, t, x)
    BY <1>0, <1>2, ExtendsItself, MissingAdded
  <2>2. PICK v \in Array : AddMissing(a, R(t), y) = R(v) /\ Adds(a, t, v, y)
    <3>1. t # <<>> /\ Extends(a, t)
      BY <2>1 DEF Adds
    <3> QED  BY <1>0, <3>1, MissingAdded
  <2>3. PICK u \in Array : AddMissing(a, R(v), z) = R(u) /\ Adds(a, v, u, z)
    <3>1. v # <<>> /\ Extends(a, v)
      BY <2>2 DEF Adds
    <3> QED  BY <1>0, <3>1, MissingAdded
  <2>4. ContainerEnvPatches(a) = R(u)
    <3>1. Untouched(a) = R(a)
      BY DEF Untouched
    <3>2. ContainerEnvPatches(a) = AddMissing(a, AddMissing(a, AddMissing(a, R(a), x), y), z)
      BY <1>2, <3>1 DEF ContainerEnvPatches
    <3> QED  BY <2>1, <2>2, <2>3, <3>2
  <2>5. /\ \A m : m # x => Places(t, m) = Places(a, m)
        /\ \A m : m # y => Places(v, m) = Places(t, m)
        /\ \A m : m # z => Places(u, m) = Places(v, m)
    BY <2>1, <2>2, <2>3 DEF Adds
  <2>6. SetOnce(a, u, x)
    <3>1. Places(u, x) = Places(t, x)
      BY <1>0, <2>5
    <3>2. IF Places(a, x) = {} THEN Places(t, x) = {Len(a) + 1} ELSE Places(t, x) = Places(a, x)
      BY <2>1, NoPlace DEF Adds
    <3> QED  BY <3>1, <3>2 DEF SetOnce
  <2>7. SetOnce(a, u, y)
    <3>1. Places(u, y) = Places(v, y) /\ Places(t, y) = Places(a, y)
      BY <1>0, <2>5
    <3>2. IF Places(a, y) = {} THEN Places(v, y) = {Len(t) + 1} ELSE Places(v, y) = Places(a, y)
      BY <2>2, <3>1, NoPlace DEF Adds
    <3> QED  BY <3>1, <3>2 DEF SetOnce
  <2>8. SetOnce(a, u, z)
    <3>1. Places(v, z) = Places(a, z)
      BY <1>0, <2>5
    <3>2. IF Places(a, z) = {} THEN Places(u, z) = {Len(v) + 1} ELSE Places(u, z) = Places(a, z)
      BY <2>3, <3>1, NoPlace DEF Adds
    <3> QED  BY <3>2 DEF SetOnce
  <2>9. Extends(a, u)
    BY <2>3 DEF Adds
  <2> QED  BY <1>0, <2>4, <2>6, <2>7, <2>8, <2>9
<1> QED  BY <1>1, <1>2

\* The device list of an init container.
LEMMA InitEnvAdded ==
  ASSUME NEW a \in Array
  PROVE  \E u \in Array : /\ InitEnvPatches(a) = [names |-> u, ok |-> TRUE]
                          /\ Extends(a, u) /\ "NVIDIA_VISIBLE_DEVICES" \in Range(u)
<1> DEFINE x == ContainerEnv[1]
<1>0. x \in Names /\ x = "NVIDIA_VISIBLE_DEVICES"
  BY OwnNames DEF ContainerEnv
<1>1. CASE a = <<>>
  <2>1. InitEnvPatches(a) = [names |-> <<x>>, ok |-> TRUE]
    BY <1>1 DEF InitEnvPatches, NewArray, Untouched
  <2>2. <<x>> \in Array /\ Extends(a, <<x>>) /\ x \in Range(<<x>>)
    BY <1>0, <1>1 DEF Array, Extends, Range
  <2> QED  BY <1>0, <2>1, <2>2
<1>2. CASE a # <<>>
  <2>1. InitEnvPatches(a) = AddMissing(a, [names |-> a, ok |-> TRUE], x)
    BY <1>2 DEF InitEnvPatches, Untouched
  <2>2. PICK u \in Array : AddMissing(a, [names |-> a, ok |-> TRUE], x) = [names |-> u, ok |-> TRUE] /\ Adds(a, a, u, x)
    BY <1>0, <1>2, ExtendsItself, MissingAdded
  <2> QED  BY <1>0, <2>1, <2>2 DEF Adds
<1> QED  BY <1>1, <1>2

\* A new name keeps the names of an array distinct.
LEMMA AppendDistinct ==
  ASSUME NEW t \in Array, NEW n \in Names, IsInjective(t), n \notin Range(t)
  PROVE  IsInjective(Append(t, n))
<1> DEFINE u == Append(t, n)
<1>1. /\ u \in Array /\ Len(u) = Len(t) + 1 /\ Len(t) \in Nat /\ u[Len(t) + 1] = n
      /\ \A k \in 1..Len(t) : u[k] = t[k]
  BY AppendProperties DEF Array
<1>2. DOMAIN u = 1..(Len(t) + 1) /\ DOMAIN t = 1..Len(t)
  BY <1>1 DEF Array
<1>3. \A k \in 1..Len(t) : u[k] # n
  BY <1>1, <1>2 DEF Range
<1> HIDE DEF u
<1>4. IsInjective(u)
  BY <1>1, <1>2, <1>3 DEF IsInjective
<1> QED  BY <1>4 DEF u

\* The webhook's own volumes, and mounts, come after the user's, each once if the user
\* has none of their names.
Joins(a, u, N) ==
  /\ Extends(a, u) /\ Range(u) = Range(a) \cup N
  /\ IsInjective(a) /\ N \cap Range(a) = {} => IsInjective(u)

\* The names of the webhook's own volumes and mounts.
Own == {"gpu-info", "nvidia-mps"}

\* The mount of an init container.
LEMMA InfoJoins ==
  ASSUME NEW a \in Array
  PROVE  \E u \in Array : AddName(a, "gpu-info") = [names |-> u, ok |-> TRUE] /\ Joins(a, u, {"gpu-info"})
<1>1. "gpu-info" \in Names
  BY OwnNames
<1>2. Append(a, "gpu-info") \in Array /\ Joins(a, Append(a, "gpu-info"), {"gpu-info"})
  BY <1>1, Appending, AppendDistinct, ExtendsItself DEF Joins
<1> QED  BY <1>1, <1>2, NameAdded

\* The volumes of a pod, and the mounts of a container: the second patch finds the array
\* that the first has made, if the user had none.
LEMMA BothJoin ==
  ASSUME NEW a \in Array
  PROVE  \E u \in Array : AppendTo(AddName(a, "gpu-info"), "nvidia-mps") = [names |-> u, ok |-> TRUE] /\ Joins(a, u, Own)
<1> DEFINE t == Append(a, "gpu-info")  u == Append(t, "nvidia-mps")
<1>1. "gpu-info" \in Names /\ "nvidia-mps" \in Names
  BY OwnNames
<1>2. t \in Array /\ t # <<>> /\ Joins(a, t, {"gpu-info"})
  BY <1>1, Appending, AppendDistinct, ExtendsItself DEF Joins
<1>3. AddName(a, "gpu-info") = [names |-> t, ok |-> TRUE]
  BY <1>1, NameAdded
<1> HIDE DEF t
<1>4. u \in Array /\ Extends(a, u) /\ Range(u) = Range(t) \cup {"nvidia-mps"}
  BY <1>1, <1>2, Appending DEF Joins
<1>5. ASSUME IsInjective(a), Own \cap Range(a) = {} PROVE IsInjective(u)
  <2>1. "gpu-info" \notin Range(a) /\ "nvidia-mps" \notin Range(a) /\ "gpu-info" # "nvidia-mps"
    BY <1>5 DEF Own
  <2>2. IsInjective(t) /\ "nvidia-mps" \notin Range(t)
    BY <1>2, <1>5, <2>1 DEF Joins
  <2> QED  BY <1>1, <1>2, <2>2, AppendDistinct
<1>6. AppendTo(AddName(a, "gpu-info"), "nvidia-mps") = [names |-> u, ok |-> TRUE]
  <2>1. AppendTo([names |-> t, ok |-> TRUE], "nvidia-mps") = [names |-> u, ok |-> TRUE]
    BY <1>2 DEF AppendTo
  <2> QED  BY <1>3, <2>1
<1> QED  BY <1>2, <1>4, <1>5, <1>6 DEF Joins, Own

-----------------------------------------------------------------------------
(* What buildSharedGPUPatches makes of a specification.                     *)

Specs == [Arrays -> Array]

\* The arrays, by where they are.
LEMMA ArrayForms ==
  /\ Volumes \in Arrays /\ Volumes[1] = "spec" /\ Volumes[3] = "volumes"
  /\ \A i \in 1..Containers : \A f \in {"env", "volumeMounts", "limits", "requests"} :
       <<"containers", i, f>> \in Arrays /\ <<"containers", i, f>> # Volumes
  /\ \A i \in 1..InitContainers : \A f \in {"env", "volumeMounts", "limits", "requests"} :
       <<"initContainers", i, f>> \in Arrays /\ <<"initContainers", i, f>> # Volumes
  /\ \A at \in Arrays :
       \/ at = Volumes
       \/ \E i \in 1..Containers : \E f \in {"env", "volumeMounts", "limits", "requests"} : at = <<"containers", i, f>>
       \/ \E i \in 1..InitContainers : \E f \in {"env", "volumeMounts", "limits", "requests"} : at = <<"initContainers", i, f>>
BY DEF Arrays, Volumes, ContainerArrays

\* What becomes of array at, with the names a, of a pod: u.
Becomes(at, a, u) ==
  /\ at[3] \in {"env", "volumeMounts", "volumes"} => Extends(a, u)
  /\ at = Volumes => Joins(a, u, Own)
  /\ at[1] = "containers" /\ at[3] = "env" => \A n \in Range(ContainerEnv) : SetOnce(a, u, n)
  /\ at[1] = "initContainers" /\ at[3] = "env" => "NVIDIA_VISIBLE_DEVICES" \in Range(u)
  /\ at[1] = "containers" /\ at[3] = "volumeMounts" => Joins(a, u, Own)
  /\ at[1] = "initContainers" /\ at[3] = "volumeMounts" => Joins(a, u, {"gpu-info"})
  /\ at[1] = "containers" /\ at[3] \in {"limits", "requests"} => u = <<>>
  /\ at[1] = "initContainers" /\ at[3] \in {"limits", "requests"} => u = a

\* Every patch applies.
LEMMA Built ==
  ASSUME NEW s \in Specs, NEW at \in Arrays
  PROVE  \E u \in Array : buildSharedGPUPatches(s)[at] = [names |-> u, ok |-> TRUE] /\ Becomes(at, s[at], u)
<1> DEFINE a == s[at]  b == buildSharedGPUPatches(s)[at]
<1>0. a \in Array
  BY DEF Specs
<1>1. CASE at = Volumes
  <2>1. at[1] = "spec" /\ at[3] = "volumes"
    BY <1>1, ArrayForms
  <2>2. b = AppendTo(AddName(a, "gpu-info"), "nvidia-mps")
    BY <1>1, <2>1 DEF buildSharedGPUPatches
  <2>3. PICK u \in Array : b = [names |-> u, ok |-> TRUE] /\ Joins(a, u, Own)
    BY <1>0, <2>2, BothJoin
  <2> QED  BY <2>1, <2>3 DEF Becomes, Joins
<1>2. CASE at[1] = "containers" /\ at[3] = "env" /\ at # Volumes
  <2>1. b = ContainerEnvPatches(a)
    BY <1>2 DEF buildSharedGPUPatches
  <2>2. PICK u \in Array : /\ b = [names |-> u, ok |-> TRUE]
                           /\ Extends(a, u) /\ \A n \in Range(ContainerEnv) : SetOnce(a, u, n)
    BY <1>0, <2>1, EnvAdded
  <2> QED  BY <1>2, <2>2 DEF Becomes
<1>3. CASE at[1] = "initContainers" /\ at[3] = "env" /\ at # Volumes
  <2>1. b = InitEnvPatches(a)
    BY <1>3 DEF buildSharedGPUPatches
  <2>2. PICK u \in Array : /\ b = [names |-> u, ok |-> TRUE]
                           /\ Extends(a, u) /\ "NVIDIA_VISIBLE_DEVICES" \in Range(u)
    BY <1>0, <2>1, InitEnvAdded
  <2> QED  BY <1>3, <2>2 DEF Becomes
<1>4. CASE at[1] = "containers" /\ at[3] = "volumeMounts" /\ at # Volumes
  <2>1. b = AppendTo(AddName(a, "gpu-info"), "nvidia-mps")
    BY <1>4 DEF buildSharedGPUPatches, MountPatches
  <2>2. PICK u \in Array : b = [names |-> u, ok |-> TRUE] /\ Joins(a, u, Own)
    BY <1>0, <2>1, BothJoin
  <2> QED  BY <1>4, <2>2 DEF Becomes, Joins
<1>5. CASE at[1] = "initContainers" /\ at[3] = "volumeMounts" /\ at # Volumes
  <2>1. b = AddName(a, "gpu-info")
    BY <1>5 DEF buildSharedGPUPatches, MountPatches
  <2>2. PICK u \in Array : b = [names |-> u, ok |-> TRUE] /\ Joins(a, u, {"gpu-info"})
    BY <1>0, <2>1, InfoJoins
  <2> QED  BY <1>5, <2>2 DEF Becomes, Joins
<1>6. CASE at[1] = "containers" /\ at[3] \in {"limits", "requests"} /\ at # Volumes
  <2>1. b = RemoveGPU(a)
    BY <1>6 DEF buildSharedGPUPatches
  <2>2. b = [names |-> <<>>, ok |-> TRUE]
    BY <2>1 DEF RemoveGPU, RemoveEntry, Untouched
  <2>3. <<>> \in Array
    BY DEF Array
  <2> QED  BY <1>6, <2>2, <2>3 DEF Becomes
<1>7. CASE at[1] = "initContainers" /\ at[3] \in {"limits", "requests"} /\ at # Volumes
  <2>1. b = [names |-> a, ok |-> TRUE]
    BY <1>7 DEF buildSharedGPUPatches, Untouched
  <2> QED  BY <1>0, <1>7, <2>1 DEF Becomes
<1>8. \/ at = Volumes
      \/ at[1] \in {"containers", "initContainers"} /\ at[3] \in {"env", "volumeMounts", "limits", "requests"}
  BY ArrayForms
<1> QED  BY <1>1, <1>2, <1>3, <1>4, <1>5, <1>6, <1>7, <1>8

\* The specification that the webhook's patches make of s.
Patched(s) == [at \in Arrays |-> buildSharedGPUPatches(s)[at].names]

\* Every array of it, and that every patch of it applies.
LEMMA PatchedArrays ==
  ASSUME NEW s \in Specs
  PROVE  /\ Patched(s) \in Specs
         /\ \A at \in Arrays : buildSharedGPUPatches(s)[at].ok /\ Becomes(at, s[at], Patched(s)[at])
<1>1. ASSUME NEW at \in Arrays
      PROVE  buildSharedGPUPatches(s)[at].ok /\ Patched(s)[at] \in Array /\ Becomes(at, s[at], Patched(s)[at])
  <2>1. PICK u \in Array : buildSharedGPUPatches(s)[at] = [names |-> u, ok |-> TRUE] /\ Becomes(at, s[at], u)
    BY Built
  <2>2. Patched(s)[at] = u
    BY <2>1 DEF Patched
  <2> QED  BY <2>1, <2>2
<1>2. Patched(s) \in Specs
  BY <1>1 DEF Specs, Patched
<1> QED  BY <1>1, <1>2

\* A valid pod whose user has left the webhook its names is valid when it is changed.
LEMMA PatchedValid ==
  ASSUME NEW s \in Specs, Valid(s), Own \cap Range(s[Volumes]) = {}
  PROVE  Valid(Patched(s))
<1> DEFINE t == Patched(s)
<1>1. t \in Specs /\ \A at \in Arrays : Becomes(at, s[at], t[at])
  BY PatchedArrays
<1>2. DOMAIN s = Arrays /\ DOMAIN t = Arrays
  BY <1>1 DEF Specs
<1> HIDE DEF t
<1>3. Range(t[Volumes]) = Range(s[Volumes]) \cup Own /\ IsInjective(t[Volumes])
  <2>1. IsInjective(s[Volumes]) /\ Joins(s[Volumes], t[Volumes], Own)
    BY <1>1, <1>2, ArrayForms DEF Valid, Becomes
  <2> QED  BY <2>1 DEF Joins
<1> SUFFICES ASSUME NEW at \in Arrays
             PROVE  /\ at[3] \in {"volumes", "volumeMounts"} => IsInjective(t[at])
                    /\ at[3] = "volumeMounts" => Range(t[at]) \subseteq Range(t[Volumes])
                    /\ at[3] = "limits" => t[at] = t[<<at[1], at[2], "requests">>]
  BY <1>2 DEF Valid, t
<1>4. CASE at = Volumes
  BY <1>3, <1>4, ArrayForms
<1>5. CASE at # Volumes
  <2>1. /\ at[1] \in {"containers", "initContainers"} /\ at[3] \in {"env", "volumeMounts", "limits", "requests"}
        /\ <<at[1], at[2], "requests">> \in Arrays
    <3>1. CASE \E i \in 1..Containers : \E f \in {"env", "volumeMounts", "limits", "requests"} : at = <<"containers", i, f>>
      <4>1. PICK i \in 1..Containers, f \in {"env", "volumeMounts", "limits", "requests"} : at = <<"containers", i, f>>
        BY <3>1
      <4>2. at[1] = "containers" /\ at[2] = i /\ at[3] = f
        BY <4>1
      <4>3. <<"containers", i, "requests">> \in Arrays
        BY ArrayForms
      <4> QED  BY <4>2, <4>3
    <3>2. CASE \E i \in 1..InitContainers : \E f \in {"env", "volumeMounts", "limits", "requests"} : at = <<"initContainers", i, f>>
      <4>1. PICK i \in 1..InitContainers, f \in {"env", "volumeMounts", "limits", "requests"} : at = <<"initContainers", i, f>>
        BY <3>2
      <4>2. at[1] = "initContainers" /\ at[2] = i /\ at[3] = f
        BY <4>1
      <4>3. <<"initContainers", i, "requests">> \in Arrays
        BY ArrayForms
      <4> QED  BY <4>2, <4>3
    <3> QED  BY <1>5, <3>1, <3>2, ArrayForms
  <2>2. CASE at[3] = "volumeMounts"
    <3>1. IsInjective(s[at]) /\ Range(s[at]) \subseteq Range(s[Volumes])
      BY <1>2, <2>2 DEF Valid
    <3>2. PICK N \in SUBSET Own : Joins(s[at], t[at], N)
      <4>1. Joins(s[at], t[at], Own) \/ Joins(s[at], t[at], {"gpu-info"})
        BY <1>1, <2>1, <2>2 DEF Becomes
      <4>2. Own \in SUBSET Own /\ {"gpu-info"} \in SUBSET Own
        BY DEF Own
      <4> QED  BY <4>1, <4>2
    <3>3. N \cap Range(s[at]) = {} /\ Range(t[at]) = Range(s[at]) \cup N
      BY <3>1, <3>2 DEF Joins
    <3> QED  BY <1>3, <2>2, <3>1, <3>2, <3>3 DEF Joins
  <2>3. CASE at[3] = "limits"
    <3> DEFINE q == <<at[1], at[2], "requests">>
    <3>1. s[at] = s[q] /\ q[1] = at[1] /\ q[3] = "requests" /\ q \in Arrays
      BY <1>2, <2>1, <2>3 DEF Valid
    <3> HIDE DEF q
    <3>2. t[at] = t[q]
      BY <1>1, <2>1, <2>3, <3>1 DEF Becomes
    <3> QED  BY <2>3, <3>2 DEF q
  <2> QED  BY <2>1, <2>2, <2>3
<1> QED  BY <1>4, <1>5

-----------------------------------------------------------------------------
(* A job through its admissions and resumes.                                *)

\* HasAccess, with the places of a variable as the patches leave them.
Access ==
  /\ Own \subseteq Range(spec[Volumes])
  /\ \A i \in 1..Containers :
       /\ \A n \in Range(ContainerEnv) : SetOnce(original[<<"containers", i, "env">>], spec[<<"containers", i, "env">>], n)
       /\ Own \subseteq Range(spec[<<"containers", i, "volumeMounts">>])
       /\ spec[<<"containers", i, "limits">>] = <<>> /\ spec[<<"containers", i, "requests">>] = <<>>
  /\ \A i \in 1..InitContainers :
       /\ "NVIDIA_VISIBLE_DEVICES" \in Range(spec[<<"initContainers", i, "env">>])
       /\ "gpu-info" \in Range(spec[<<"initContainers", i, "volumeMounts">>])

\* What holds of every pod of a job.  A pod that was admitted once or never is valid, or
\* its user had taken the webhook's names; and one that was changed stays accessible when
\* it is changed again.
Inv ==
  /\ original \in Submitted /\ spec \in Specs
  /\ shared \in BOOLEAN /\ mutations \in Nat
  /\ status \in {"created", "running", "invalid", "over"}
  /\ \A at \in Arrays : at[3] \in {"env", "volumeMounts", "volumes"} => Extends(original[at], spec[at])
  /\ mutations = 0 => spec = original
  /\ ~shared => mutations = 0
  /\ mutations > 0 => Access
  /\ status # "invalid" => Valid(spec)
  /\ status = "invalid" => mutations >= IF NamesTaken THEN 1 ELSE 2

\* Submitted specifications are specifications, and valid.
LEMMA SubmittedSpecs == \A s \in Submitted : s \in Specs /\ Valid(s)
BY WebhookAssumption DEF Specs, Array

\* A beginning of a beginning is a beginning.
LEMMA ExtendsFurther ==
  ASSUME NEW a \in Array, NEW t \in Array, NEW u \in Array, Extends(a, t), Extends(t, u)
  PROVE  Extends(a, u)
BY DEF Extends, Array

\* A variable that is set once, or where the user has set it, in an array that was changed
\* stays so when the array is changed again.
LEMMA SetOnceAgain ==
  ASSUME NEW a, NEW t, NEW u, NEW n, SetOnce(a, t, n), SetOnce(t, u, n)
  PROVE  SetOnce(a, u, n)
<1>1. CASE Places(a, n) = {}
  <2>1. PICK k : Places(t, n) = {k}
    BY <1>1 DEF SetOnce
  <2>2. Places(t, n) # {}
    BY <2>1
  <2>3. Places(u, n) = {k}
    BY <2>1, <2>2 DEF SetOnce
  <2> QED  BY <1>1, <2>3 DEF SetOnce
<1>2. CASE Places(a, n) # {}
  <2>1. Places(t, n) = Places(a, n)
    BY <1>2 DEF SetOnce
  <2>2. Places(u, n) = Places(t, n)
    BY <1>2, <2>1 DEF SetOnce
  <2> QED  BY <1>2, <2>1, <2>2 DEF SetOnce
<1> QED  BY <1>1, <1>2

\* Access is what HasAccess says.
LEMMA AccessIsAccess == Access => HasAccess
<1> SUFFICES ASSUME Access PROVE HasAccess
  OBVIOUS
<1>1. ASSUME NEW i \in 1..Containers, NEW n \in Range(ContainerEnv)
      PROVE  LET now == Places(spec[<<"containers", i, "env">>], n)
                 users == Places(original[<<"containers", i, "env">>], n)
             IN  IF users = {} THEN Cardinality(now) = 1 ELSE now = users
  <2> DEFINE now == Places(spec[<<"containers", i, "env">>], n)
             users == Places(original[<<"containers", i, "env">>], n)
  <2>1. IF users = {} THEN \E k : now = {k} ELSE now = users
    BY DEF Access, SetOnce
  <2> HIDE DEF now, users
  <2>2. (\E k : now = {k}) => Cardinality(now) = 1
    BY FS_Singleton
  <2> QED  BY <2>1, <2>2 DEF now, users
<1> QED  BY <1>1 DEF Access, HasAccess, Own

\* A job begins with a valid pod that is the user's.
LEMMA InitInv == Init => Inv
<1> SUFFICES ASSUME Init PROVE Inv
  OBVIOUS
<1>1. original \in Specs /\ Valid(original)
  BY SubmittedSpecs DEF Init
<1>2. \A at \in Arrays : Extends(original[at], original[at])
  BY <1>1, ExtendsItself DEF Specs
<1> QED  BY <1>1, <1>2 DEF Init, Inv

\* Mutate on a pod that is not shared leaves its specification alone.
LEMMA UnsharedStays ==
  ASSUME NEW s \in Specs
  PROVE  LET r == [at \in Arrays |-> Untouched(s[at])]
         IN  [at \in Arrays |-> r[at].names] = s /\ \A at \in Arrays : r[at].ok
BY DEF Untouched, Specs

\* The patches give the first pod that they change its access, and leave the next theirs.
LEMMA PatchedAccess ==
  ASSUME Inv, spec' = Patched(spec), UNCHANGED original
  PROVE  Access'
<1>1. spec \in Specs /\ Patched(spec) \in Specs /\ \A at \in Arrays : Becomes(at, spec[at], Patched(spec)[at])
  BY PatchedArrays DEF Inv
<1>2. Own \subseteq Range(spec'[Volumes])
  <2>1. Joins(spec[Volumes], spec'[Volumes], Own)
    BY <1>1, ArrayForms DEF Becomes
  <2> QED  BY <2>1 DEF Joins
<1>3. ASSUME NEW i \in 1..Containers
      PROVE  /\ \A n \in Range(ContainerEnv) : SetOnce(original[<<"containers", i, "env">>], spec'[<<"containers", i, "env">>], n)
             /\ Own \subseteq Range(spec'[<<"containers", i, "volumeMounts">>])
             /\ spec'[<<"containers", i, "limits">>] = <<>> /\ spec'[<<"containers", i, "requests">>] = <<>>
  <2> DEFINE C(f) == <<"containers", i, f>>
  <2>1. \A f \in {"env", "volumeMounts", "limits", "requests"} :
          C(f) \in Arrays /\ C(f) # Volumes /\ C(f)[1] = "containers" /\ C(f)[3] = f
    BY ArrayForms
  <2> HIDE DEF C
  <2>2. \A f \in {"env", "volumeMounts", "limits", "requests"} : Becomes(C(f), spec[C(f)], spec'[C(f)])
    BY <1>1, <2>1
  <2>3. Own \subseteq Range(spec'[C("volumeMounts")])
    <3>1. Joins(spec[C("volumeMounts")], spec'[C("volumeMounts")], Own)
      BY <2>1, <2>2 DEF Becomes
    <3> QED  BY <3>1 DEF Joins
  <2>4. spec'[C("limits")] = <<>> /\ spec'[C("requests")] = <<>>
    BY <2>1, <2>2 DEF Becomes
  <2>5. ASSUME NEW n \in Range(ContainerEnv) PROVE SetOnce(original[C("env")], spec'[C("env")], n)
    <3>1. SetOnce(spec[C("env")], spec'[C("env")], n)
      BY <2>1, <2>2 DEF Becomes
    <3>2. CASE mutations = 0
      BY <3>1, <3>2 DEF Inv
    <3>3. CASE mutations # 0
      <4>1. Access
        BY <3>3 DEF Inv
      <4>2. SetOnce(original[C("env")], spec[C("env")], n)
        BY <4>1 DEF Access, C
      <4> QED  BY <3>1, <4>2, SetOnceAgain
    <3> QED  BY <3>2, <3>3
  <2> QED  BY <2>3, <2>4, <2>5 DEF C
<1>4. ASSUME NEW i \in 1..InitContainers
      PROVE  /\ "NVIDIA_VISIBLE_DEVICES" \in Range(spec'[<<"initContainers", i, "env">>])
             /\ "gpu-info" \in Range(spec'[<<"initContainers", i, "volumeMounts">>])
  <2> DEFINE C(f) == <<"initContainers", i, f>>
  <2>1. \A f \in {"env", "volumeMounts"} :
          C(f) \in Arrays /\ C(f) # Volumes /\ C(f)[1] = "initContainers" /\ C(f)[3] = f
    BY ArrayForms
  <2> HIDE DEF C
  <2>2. \A f \in {"env", "volumeMounts"} : Becomes(C(f), spec[C(f)], spec'[C(f)])
    BY <1>1, <2>1
  <2>3. "NVIDIA_VISIBLE_DEVICES" \in Range(spec'[C("env")])
    BY <2>1, <2>2 DEF Becomes
  <2>4. Joins(spec[C("volumeMounts")], spec'[C("volumeMounts")], {"gpu-info"})
    BY <2>1, <2>2 DEF Becomes
  <2> QED  BY <2>3, <2>4 DEF Joins, C
<1> QED  BY <1>2, <1>3, <1>4 DEF Access

\* Mutate keeps Inv: a pod is changed and, the first time, valid if it can be.
LEMMA MutateInv == Inv /\ Mutate => Inv'
<1> SUFFICES ASSUME Inv, Mutate PROVE Inv'
  OBVIOUS
<1>0. spec \in Specs /\ status = "created" /\ Valid(spec) /\ original \in Specs
  BY SubmittedSpecs DEF Inv, Mutate
<1>1. CASE ~shared
  <2>1. spec' = spec /\ status' = "running" /\ mutations' = mutations /\ UNCHANGED <<original, shared>>
    <3>1. LET r == [at \in Arrays |-> Untouched(spec[at])]
          IN  [at \in Arrays |-> r[at].names] = spec /\ \A at \in Arrays : r[at].ok
      BY <1>0, UnsharedStays
    <3> QED  BY <1>0, <1>1, <3>1 DEF Mutate, Inv
  <2> QED  BY <1>0, <2>1 DEF Inv, Access, NamesTaken
<1>2. CASE shared
  <2>1. /\ Patched(spec) \in Specs
        /\ \A at \in Arrays : buildSharedGPUPatches(spec)[at].ok /\ Becomes(at, spec[at], Patched(spec)[at])
    BY <1>0, PatchedArrays
  <2>2. /\ spec' = Patched(spec) /\ status' = (IF Valid(Patched(spec)) THEN "running" ELSE "invalid")
        /\ mutations' = mutations + 1 /\ UNCHANGED <<original, shared>>
    <3>1. ~ \E at \in Arrays : ~buildSharedGPUPatches(spec)[at].ok
      BY <2>1
    <3> QED  BY <1>2, <3>1 DEF Mutate, Patched
  <2>3. Access'
    BY <2>2, PatchedAccess
  <2>4. ASSUME NEW at \in Arrays, at[3] \in {"env", "volumeMounts", "volumes"}
        PROVE  Extends(original[at], Patched(spec)[at])
    <3>1. Extends(original[at], spec[at]) /\ Extends(spec[at], Patched(spec)[at])
      BY <2>1, <2>4 DEF Inv, Becomes
    <3>2. original[at] \in Array /\ spec[at] \in Array /\ Patched(spec)[at] \in Array
      BY <1>0, <2>1 DEF Specs
    <3> QED  BY <3>1, <3>2, ExtendsFurther
  <2>5. status' = "invalid" => mutations' >= IF NamesTaken THEN 1 ELSE 2
    <3>1. CASE mutations = 0 /\ ~NamesTaken
      <4>1. Own \cap Range(spec[Volumes]) = {}
        BY <3>1 DEF Inv, NamesTaken, Own
      <4>2. Valid(Patched(spec))
        BY <1>0, <4>1, PatchedValid
      <4> QED  BY <2>2, <4>2
    <3>2. CASE mutations # 0 \/ NamesTaken
      BY <2>2, <3>2 DEF Inv
    <3> QED  BY <3>1, <3>2
  <2>6. status' # "invalid" => Valid(spec')
    BY <2>2
  <2>7. NamesTaken' = NamesTaken
    BY <2>2 DEF NamesTaken
  <2>8. status' \in {"created", "running", "invalid", "over"} /\ mutations' \in Nat /\ mutations' # 0
    BY <2>2 DEF Inv
  <2> QED  BY <1>2, <2>1, <2>2, <2>3, <2>4, <2>5, <2>6, <2>7, <2>8 DEF Inv
<1> QED  BY <1>1, <1>2 DEF Inv

\* Every step keeps Inv.
LEMMA NextInv == Inv /\ [Next]_vars => Inv'
<1> SUFFICES ASSUME Inv, [Next]_vars PROVE Inv'
  OBVIOUS
<1>1. CASE Mutate
  BY <1>1, MutateInv
<1>2. CASE Unreached
  <2>1. status' = "running" /\ Valid(spec) /\ UNCHANGED <<original, shared, spec, mutations>>
    BY <1>2 DEF Unreached, Inv
  <2> QED  BY <2>1 DEF Inv, Access, NamesTaken
<1>3. CASE Resume
  <2>1. status' \in {"over", "created"} /\ status = "running" /\ UNCHANGED <<original, shared, spec, mutations>>
    BY <1>3 DEF Resume
  <2> QED  BY <2>1 DEF Inv, Access, NamesTaken
<1>4. CASE UNCHANGED vars
  BY <1>4 DEF vars, Inv, Access, NamesTaken
<1> QED  BY <1>1, <1>2, <1>3, <1>4 DEF Next

\* What the properties say of a state of which Inv holds.
LEMMA InvSays == Inv => SharedAccess /\ UsersPartKept /\ RefusedOnlyTwice
<1> SUFFICES ASSUME Inv PROVE SharedAccess /\ UsersPartKept /\ RefusedOnlyTwice
  OBVIOUS
<1>1. SharedAccess
  BY AccessIsAccess DEF Inv, SharedAccess
<1>2. RefusedOnlyTwice
  BY DEF Inv, RefusedOnlyTwice
<1>3. ASSUME NEW at \in Arrays, at[3] \in {"env", "volumeMounts", "volumes"}
      PROVE  IsPrefix(original[at], spec[at])
  <2> DEFINE a == original[at]  t == spec[at]
  <2>1. a \in Array /\ t \in Array /\ Len(a) <= Len(t) /\ \A k \in 1..Len(a) : t[k] = a[k]
    BY <1>3, SubmittedSpecs DEF Inv, Extends, Specs
  <2> HIDE DEF a, t
  <2>2. Len(a) \in Nat /\ Len(t) \in Nat /\ a = [k \in 1..Len(a) |-> a[k]]
    BY <2>1 DEF Array
  <2>3. SubSeq(t, 1, Len(a)) = a
    BY <2>1, <2>2, SubSeqProperties DEF Array
  <2> QED  BY <2>1, <2>3 DEF IsPrefix, a, t
<1>4. UsersPartKept
  BY <1>3 DEF Inv, UsersPartKept
<1> QED  BY <1>1, <1>2, <1>4

\* A shared pod that runs and whose job the webhook has changed has its GPU access: every
\* variable once or as the user set it, the volumes and mounts, no GPU of its own, however
\* often buildSharedGPUPatches saw its own work on a pod that buildResumePod made.
THEOREM SharedAccessHolds == Spec => []SharedAccess
<1>1. Init => Inv
  BY InitInv
<1>2. Inv /\ [Next]_vars => Inv'
  BY NextInv
<1>3. Inv => SharedAccess
  BY InvSays
<1> QED  BY <1>1, <1>2, <1>3, PTL DEF Spec

\* The user's variables, mounts and volumes stay in their order through every admission
\* and resume, and a pod that is not shared keeps its specification.
THEOREM UsersPartKeptHolds == Spec => []UsersPartKept
<1>1. Init => Inv
  BY InitInv
<1>2. Inv /\ [Next]_vars => Inv'
  BY NextInv
<1>3. Inv => UsersPartKept
  BY InvSays
<1> QED  BY <1>1, <1>2, <1>3, PTL DEF Spec

\* Every patch of buildSharedGPUPatches applies, and the API server refuses a pod of a job
\* only when the webhook has changed it twice, or once if the user has taken its names.
THEOREM RefusedOnlyTwiceHolds == Spec => []RefusedOnlyTwice
<1>1. Init => Inv
  BY InitInv
<1>2. Inv /\ [Next]_vars => Inv'
  BY NextInv
<1>3. Inv => RefusedOnlyTwice
  BY InvSays
<1> QED  BY <1>1, <1>2, <1>3, PTL DEF Spec

=============================================================================
