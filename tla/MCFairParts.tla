---------------------------- MODULE MCFairParts ----------------------------
(***************************************************************************)
(* The parts that each stand alone and are fair, in one run.  A behaviour  *)
(* chooses one of them and takes the steps of that one; the others stay    *)
(* as they were, where none of their fair steps can be taken.  So every    *)
(* property of a part is checked on all behaviours of that part, and the   *)
(* run's states are the sum of theirs.                                     *)
(***************************************************************************)
EXTENDS StatusWait, ServerElection, StdioTransport, ClientProxies

VARIABLE part

\* Bytes, line feeds and bytes that are not valid UTF-8: lines that are short
\* and long, and input that ends within one.
MCInputs ==
  {<<"byte", "lf", "byte", "byte", "byte", "lf", "bad", "lf", "byte">>,
   <<"byte", "byte", "byte", "byte", "lf", "byte", "lf">>,
   <<"lf", "bad", "byte", "byte">>}

MCInit ==
  /\ part \in {"status wait", "server election", "stdio transport", "client proxies"}
  /\ WaitInit /\ ElectionInit /\ StdioInit /\ ProxiesInit
  /\ part # "stdio transport" => input = CHOOSE i \in Inputs : TRUE

MCNext ==
  \/ /\ part = "status wait" /\ WaitNext
     /\ UNCHANGED <<part, electionVars, stdioVars, proxyVars>>
  \/ /\ part = "server election" /\ ElectionNext
     /\ UNCHANGED <<part, waitVars, stdioVars, proxyVars>>
  \/ /\ part = "stdio transport" /\ StdioNext
     /\ UNCHANGED <<part, waitVars, electionVars, proxyVars>>
  \/ /\ part = "client proxies" /\ ProxiesNext
     /\ UNCHANGED <<part, waitVars, electionVars, stdioVars>>

MCSpec ==
  /\ MCInit
  /\ [][MCNext]_<<part, waitVars, electionVars, stdioVars, proxyVars>>
  /\ WaitFairness /\ ElectionFairness /\ StdioFairness /\ ProxiesFairness
=============================================================================
