------------------------------ MODULE MCAgent -------------------------------
(* Two calls of any of the methods that differ in their handlers.              *)
EXTENDS AgentSystem, TLC

CONSTANTS c1, c2
MCCalls == {c1, c2}
MCSymmetry == Permutations(MCCalls)
MCAsked ==
  {"InstallPackage", "UpdatePackageList", "ManageService", "StreamSystemUpgrade", "StreamLogs",
   "GetContainerLogs", "KillProcess", "Traceroute", "ScanPorts", "TestNetworkSpeed", "StreamStats"}
MCOutputs == {<<"line">>, <<"line", "line">>, <<"long", "line", "line">>}

(* For the leads-to properties: the handlers that may be held up.              *)
MCAskedLive == {"StreamSystemUpgrade", "StreamLogs", "GetContainerLogs"}
MCOutputsLive == {<< >>, <<"line", "long", "line", "line">>}
=============================================================================
