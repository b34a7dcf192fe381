------------------------------ MODULE Webhook ------------------------------
(***************************************************************************)
(* internal/scheduler/webhook.go: the admission webhook that gives shared  *)
(* pods access to an MPS GPU, and what becomes of its work when the pod is *)
(* evicted and created again from its own specification                    *)
(* (preemption.go, buildResumePod).                                        *)
(*                                                                         *)
(* A pod specification is a function from the arrays the webhook touches,  *)
(* <<part, index, field>>, to the names they hold: variables, mounts,      *)
(* volumes, and the GPU entry of limits and requests.  An empty array is   *)
(* absent from the JSON, so a patch can append only to one that is not     *)
(* empty.  The values of variables and the paths of mounts follow from     *)
(* their names.                                                            *)
(***************************************************************************)
EXTENDS Integers, Sequences, FiniteSets, SequencesExt

CONSTANTS
  Containers,      \* number of containers of the pod
  InitContainers,  \* number of its init containers
  Names,           \* what variables, mounts, volumes and resources may be called
  Submitted,       \* the specifications users submit
  MaxRetries       \* cfg.MaxRetries of the preemption orchestrator

VARIABLES
  original,   \* the specification the user submitted
  shared,     \* the annotation gpu-scheduler/shared is "true"
  spec,       \* the specification of the current pod
  count,      \* the annotation gpu-scheduler/preempt-count
  status,     \* "created", "running", "badPatch", "invalid" or "over"
  mutations   \* how often the webhook changed this job's specification

vars == <<original, shared, spec, count, status, mutations>>

Volumes == <<"spec", 0, "volumes">>
ContainerArrays(part, n) == {part} \X (1..n) \X {"env", "volumeMounts", "limits", "requests"}
Arrays == {Volumes} \cup ContainerArrays("containers", Containers)
                    \cup ContainerArrays("initContainers", InitContainers)

Init ==
  /\ original \in Submitted
  /\ shared \in BOOLEAN
  /\ spec = original
  /\ count = 0
  /\ status = "created"
  /\ mutations = 0

-----------------------------------------------------------------------------
(* buildSharedGPUPatches.  Every patch is decided on the pod as it came and *)
(* applied by the API server to what the patches before it have made.       *)
(* Patches of different arrays do not touch, so they are kept array by      *)
(* array: [names, ok], what the array has become and whether every patch of *)
(* it found what it needs.                                                  *)

Untouched(a) == [names |-> a, ok |-> TRUE]

NewArray(r, names) == [r EXCEPT !.names = names]
AppendTo(r, name)  == [names |-> Append(r.names, name), ok |-> r.ok /\ r.names # <<>>]
RemoveEntry(r)     == [names |-> <<>>, ok |-> r.ok /\ r.names # <<>>]

\* Mutant: a variable the user has set is set a second time.
AddMissingAlways(a, r, name) == AppendTo(r, name)

\* A variable that the user's array does not have (hasEnv).
AddMissing(a, r, name) == IF name \in Range(a) THEN r ELSE AppendTo(r, name)

ContainerEnv == <<"NVIDIA_VISIBLE_DEVICES", "CUDA_MPS_PINNED_DEVICE_MEM_LIMIT", "CUDA_MPS_PIPE_DIRECTORY">>

ContainerEnvPatches(a) ==
  IF a = <<>> THEN NewArray(Untouched(a), ContainerEnv)
  ELSE AddMissing(a, AddMissing(a, AddMissing(a, Untouched(a), ContainerEnv[1]), ContainerEnv[2]), ContainerEnv[3])

InitEnvPatches(a) ==
  IF a = <<>> THEN NewArray(Untouched(a), <<ContainerEnv[1]>>) ELSE AddMissing(a, Untouched(a), ContainerEnv[1])

\* Mutant: an array the user has filled is replaced.
AddNameOver(a, name) == NewArray(Untouched(a), <<name>>)

AddName(a, name) == IF a = <<>> THEN NewArray(Untouched(a), <<name>>) ELSE AppendTo(Untouched(a), name)

\* Mutant: takes it for granted that the user's pod has mounts.
MountPatchesNoArray(a) == AppendTo(Untouched(a), "gpu-info")

MountPatches(a) == AddName(a, "gpu-info")

RemoveGPU(a) == IF a # <<>> THEN RemoveEntry(Untouched(a)) ELSE Untouched(a)

buildSharedGPUPatches(s) ==
  [at \in Arrays |->
     CASE at = Volumes -> AppendTo(AddName(s[at], "gpu-info"), "nvidia-mps")
       [] at[1] = "containers" /\ at[3] = "env" -> ContainerEnvPatches(s[at])
       [] at[1] = "initContainers" /\ at[3] = "env" -> InitEnvPatches(s[at])
       [] at[1] = "containers" /\ at[3] = "volumeMounts" -> AppendTo(MountPatches(s[at]), "nvidia-mps")
       [] at[1] = "initContainers" /\ at[3] = "volumeMounts" -> MountPatches(s[at])
       [] at[1] = "containers" /\ at[3] \in {"limits", "requests"} -> RemoveGPU(s[at])
       [] OTHER -> Untouched(s[at])]

-----------------------------------------------------------------------------
(* The API server applies the patches and validates the pod.  The webhook's *)
(* failurePolicy is Ignore.                                                 *)

\* Volume names and mount paths must not repeat, though variables may, a mount needs its
\* volume, and a GPU is in the requests if and only if it is in the limits.
Valid(s) ==
  \A at \in DOMAIN s :
    /\ at[3] \in {"volumes", "volumeMounts"} => IsInjective(s[at])
    /\ at[3] = "volumeMounts" => Range(s[at]) \subseteq Range(s[Volumes])
    /\ at[3] = "limits" => s[at] = s[<<at[1], at[2], "requests">>]

ASSUME WebhookAssumption ==
  /\ Containers \in Nat /\ InitContainers \in Nat /\ MaxRetries \in Nat
  /\ {"gpu-info", "nvidia-mps"} \cup Range(ContainerEnv) \subseteq Names
  /\ Submitted \subseteq [Arrays -> Seq(Names)]
  /\ \A s \in Submitted : Valid(s)

\* mutate: only pods with the annotation are changed.
Mutate ==
  LET r == IF shared THEN buildSharedGPUPatches(spec) ELSE [at \in Arrays |-> Untouched(spec[at])]
      patched == [at \in Arrays |-> r[at].names]
  IN  /\ status = "created"
      /\ spec' = patched
      /\ status' = IF \E at \in Arrays : ~r[at].ok THEN "badPatch" ELSE IF Valid(patched) THEN "running" ELSE "invalid"
      /\ mutations' = mutations + (IF shared THEN 1 ELSE 0)
      /\ UNCHANGED <<original, shared, count>>

\* The webhook cannot be reached, and the pod is created as it came.
Unreached ==
  /\ status = "created"
  /\ status' = IF Valid(spec) THEN "running" ELSE "invalid"
  /\ UNCHANGED <<original, shared, spec, count, mutations>>

-----------------------------------------------------------------------------
(* tryAutoResume and buildResumePod: the new pod has the specification and  *)
(* the annotations of the one that was evicted.                             *)

Resume ==
  /\ status = "running"
  /\ IF count + 1 > MaxRetries
     THEN status' = "over" /\ UNCHANGED count
     ELSE status' = "created" /\ count' = count + 1
  /\ UNCHANGED <<original, shared, spec, mutations>>

Next == Mutate \/ Unreached \/ Resume

Spec == Init /\ [][Next]_vars

-----------------------------------------------------------------------------
(* Properties.                                                              *)

\* The places of a name in an array, and what a shared pod needs from the webhook: every
\* variable, set once or left as the user set it, both volumes and their mounts in every
\* container, the device list in every init container, no GPU asked for by a container.
Places(a, name) == {k \in DOMAIN a : a[k] = name}

HasAccess ==
  /\ {"gpu-info", "nvidia-mps"} \subseteq Range(spec[Volumes])
  /\ \A i \in 1..Containers :
       /\ \A n \in Range(ContainerEnv) :
            LET now == Places(spec[<<"containers", i, "env">>], n)
                users == Places(original[<<"containers", i, "env">>], n)
            IN  IF users = {} THEN Cardinality(now) = 1 ELSE now = users
       /\ {"gpu-info", "nvidia-mps"} \subseteq Range(spec[<<"containers", i, "volumeMounts">>])
       /\ spec[<<"containers", i, "limits">>] = <<>> /\ spec[<<"containers", i, "requests">>] = <<>>
  /\ \A i \in 1..InitContainers :
       /\ "NVIDIA_VISIBLE_DEVICES" \in Range(spec[<<"initContainers", i, "env">>])
       /\ "gpu-info" \in Range(spec[<<"initContainers", i, "volumeMounts">>])

\* A pod that runs and whose job the webhook has changed has its GPU access, also when the
\* webhook was down for the first pod of the job and up for the next, or up and then down
\* (buildSharedGPUPatches, buildResumePod).
SharedAccess == status = "running" /\ mutations > 0 => HasAccess

\* Through admissions and resumes the user's variables, mounts and volumes stay, in
\* their order, and the specification of a pod that is not shared does not change.
UsersPartKept ==
  \A at \in Arrays :
    /\ at[3] \in {"env", "volumeMounts", "volumes"} => IsPrefix(original[at], spec[at])
    /\ ~shared => spec[at] = original[at]

\* The user has volumes of the names that the webhook gives its own.
NamesTaken == {"gpu-info", "nvidia-mps"} \cap Range(original[Volumes]) # {}

\* Whatever the pod looked like, each patch finds what it needs when its turn comes:
\* nothing is appended to an array that is absent and nothing absent is removed
\* (webhook.go: "Safe to use /- here").  And the API server refuses a pod of a job only
\* after the webhook has changed it, and unless the user has taken the webhook's names
\* only after it has changed it twice: a job whose webhook was reached for one of its
\* pods, whichever, is always created.
RefusedOnlyTwice ==
  status # "badPatch" /\ (status = "invalid" => mutations >= IF NamesTaken THEN 1 ELSE 2)

\* A pod that is evicted with auto-resume is created again: the API server never refuses
\* the pod buildResumePod makes.
Recreated == status = "invalid" => count = 0
=============================================================================
