----------------------------- MODULE MCWebhook -----------------------------
(***************************************************************************)
(* The instance of Webhook for TLC: one container and one init container,  *)
(* each array empty or with entries of the user's, among them a variable,  *)
(* set twice, and a volume that the webhook would add itself.              *)
(***************************************************************************)
EXTENDS Webhook

MCNames == {"gpu-info", "nvidia-mps", "data", "USER", "nvidia.com/gpu"} \cup Range(ContainerEnv)

\* What the user has filled in a container, and whether it asks for a GPU.
UserSpec(mounts, gpu, env, volumes) ==
  [at \in Arrays |->
     CASE at = Volumes               -> volumes
       [] at[3] = "env"              -> env
       [] at[3] = "volumeMounts"     -> IF at[1] \in mounts THEN <<"data">> ELSE <<>>
       [] OTHER                      -> IF at[1] \in gpu THEN <<"nvidia.com/gpu">> ELSE <<>>]

MCSubmitted ==
  {s \in {UserSpec(mounts, gpu, env, volumes) :
            mounts \in SUBSET {"containers", "initContainers"},
            gpu \in SUBSET {"containers", "initContainers"},
            env \in {<<>>, <<"USER">>, <<"NVIDIA_VISIBLE_DEVICES", "USER", "NVIDIA_VISIBLE_DEVICES">>},
            volumes \in {<<>>, <<"data">>, <<"data", "nvidia-mps">>}}
     : Valid(s)}
=============================================================================
