--------------------------- MODULE MCServerParts ---------------------------
(***************************************************************************)
(* The lock of the managed-instance registry and the parts that each stand *)
(* alone and promise safety alone, in one run.  A behaviour chooses one of *)
(* them and takes the steps of that one, so every property of a part is    *)
(* checked on all behaviours of that part, and the run's states are the    *)
(* sum of theirs.                                                          *)
(***************************************************************************)
EXTENDS MCRegistryLock, ManagedLaunch, RegistrySweep, ProxyTopology, OperationCallers,
        ReferenceUploads

VARIABLE part

MCInit ==
  /\ part \in {"registry lock", "managed launch", "registry sweep", "proxy topology",
               "operation callers", "reference uploads"}
  /\ Init /\ ManagedInit /\ SweepInit /\ ViewInit /\ CallsInit /\ UploadInit
  /\ part # "reference uploads" =>
       \A call1 \in UploadCalls : calls[call1].peer = CHOOSE p \in UploadPeers : TRUE

MCNext ==
  \/ /\ part = "registry lock" /\ Next
     /\ UNCHANGED <<part, managedVars, sweepVars, viewVars, callVars, uploadVars>>
  \/ /\ part = "managed launch" /\ ManagedNext
     /\ UNCHANGED <<part, vars, sweepVars, viewVars, callVars, uploadVars>>
  \/ /\ part = "registry sweep" /\ SweepNext
     /\ UNCHANGED <<part, vars, managedVars, viewVars, callVars, uploadVars>>
  \/ /\ part = "proxy topology" /\ ViewNext
     /\ UNCHANGED <<part, vars, managedVars, sweepVars, callVars, uploadVars>>
  \/ /\ part = "operation callers" /\ CallsNext
     /\ UNCHANGED <<part, vars, managedVars, sweepVars, viewVars, uploadVars>>
  \/ /\ part = "reference uploads" /\ UploadNext
     /\ UNCHANGED <<part, vars, managedVars, sweepVars, viewVars, callVars>>

MCSpec ==
  /\ MCInit
  /\ [][MCNext]_<<part, vars, managedVars, sweepVars, viewVars, callVars, uploadVars>>
=============================================================================
