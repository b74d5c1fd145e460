---------------------------- MODULE LoginScreen ----------------------------
(***************************************************************************)
(* The login screen (lib/screens/login_screen.dart), the app's first       *)
(* screen.  It connects without the ConnectionManager: it drives           *)
(* SSHService, AgentManager and GrpcService itself, and its early returns  *)
(* leave behind whatever was opened so far.                                *)
(***************************************************************************)
EXTENDS ConnectionsScreen

LoginPcs == {"l-dial", "l-sudo", "l-agent", "l-running", "l-ask-install", "l-install", "l-fwd",
             "l-ask-forward", "l-enable", "l-restart", "l-close", "l-pause", "l-redial",
             "l-start", "l-bind", "l-settle", "l-version"}

\* One of the early returns, or the outer catch.
LoginEnds(k) == Finish(k) /\ UNCHANGED <<managerVars, uiConn>>

LoginGoes(k, p, o) == Goto(k, p, o) /\ UNCHANGED <<managerVars, uiConn>>

TapDevice(k, c) ==
  /\ pc[k] = "idle"
  /\ DialBegin(c)
  /\ pc' = [pc EXCEPT ![k] = "l-dial"]
  /\ arg' = [arg EXCEPT ![k] = c]
  /\ UNCHANGED <<on, gone, grpcVars, managerVars, uiConn>>

LoginDialed(k, s) ==
  /\ pc[k] = "l-dial"
  /\ Unused(s) /\ statsOn # s
  /\ DialOk(s, arg[k])
  /\ \/ k \notin gone /\ LoginGoes(k, "l-sudo", s)
     \/ k \in gone /\ LoginEnds(k)
  /\ UNCHANGED grpcVars

LoginDialFailed(k) ==
  /\ pc[k] = "l-dial"
  /\ DialFail
  /\ LoginEnds(k)
  /\ UNCHANGED grpcVars

LoginSudoOk(k) ==
  /\ pc[k] = "l-sudo"
  /\ Up(on[k])
  /\ LoginGoes(k, "l-agent", client)
  /\ UNCHANGED <<sshVars, grpcVars>>

LoginSudoFailed(k) ==
  /\ pc[k] = "l-sudo"
  /\ LoginEnds(k)
  /\ UNCHANGED <<sshVars, grpcVars>>

LoginAgentFound(k) ==
  /\ pc[k] = "l-agent"
  /\ Up(on[k])
  /\ LoginGoes(k, "l-running", client)
  /\ UNCHANGED <<sshVars, grpcVars>>

LoginAgentInstalled(k) ==
  /\ pc[k] = "l-running"
  /\ \/ k \notin gone /\ LoginGoes(k, "l-fwd", client)
     \/ k \in gone /\ LoginEnds(k)
  /\ UNCHANGED <<sshVars, grpcVars>>

LoginAgentMissing(k) ==
  /\ pc[k] = "l-agent"
  /\ \/ k \notin gone /\ LoginGoes(k, "l-ask-install", None)
     \/ k \in gone /\ LoginEnds(k)
  /\ UNCHANGED <<sshVars, grpcVars>>

LoginAccepts(k) ==
  /\ k \notin gone
  /\ \/ pc[k] = "l-ask-install" /\ LoginGoes(k, "l-install", None)
     \/ pc[k] = "l-ask-forward" /\ LoginGoes(k, "l-enable", client)
  /\ UNCHANGED <<sshVars, grpcVars>>

LoginDeclines(k) ==
  /\ pc[k] \in {"l-ask-install", "l-ask-forward"}
  /\ LoginEnds(k)
  /\ UNCHANGED <<sshVars, grpcVars>>

\* Installed or not: _installAgent() swallows its errors.
LoginInstallDone(k) ==
  /\ pc[k] = "l-install"
  /\ \/ k \notin gone /\ LoginGoes(k, "l-fwd", client)
     \/ k \in gone /\ LoginEnds(k)
  /\ UNCHANGED <<sshVars, grpcVars>>

LoginForwardingOk(k) ==
  /\ pc[k] = "l-fwd"
  /\ LoginGoes(k, "l-start", client)
  /\ UNCHANGED <<sshVars, grpcVars>>

LoginForwardingDisabled(k) ==
  /\ pc[k] = "l-fwd"
  /\ Up(on[k])
  /\ \/ k \notin gone /\ LoginGoes(k, "l-ask-forward", None)
     \/ k \in gone /\ LoginGoes(k, "l-start", client)
  /\ UNCHANGED <<sshVars, grpcVars>>

\* sshd was told to restart.
LoginEnabled(k) ==
  /\ pc[k] = "l-enable"
  /\ Up(on[k])
  /\ LoginGoes(k, "l-restart", None)
  /\ UNCHANGED <<sshVars, grpcVars>>

\* Three seconds later the session is replaced.
LoginReplaces(k) ==
  /\ pc[k] = "l-restart"
  /\ CloseBegin
  /\ LoginGoes(k, "l-close", None)
  /\ UNCHANGED grpcVars

\* Rethrown by _enableSSHForwarding(), swallowed by "Could not check SSH config".
LoginEnableFailed(k) ==
  /\ pc[k] = "l-enable"
  /\ LoginGoes(k, "l-start", client)
  /\ UNCHANGED <<sshVars, grpcVars>>

LoginClosed(k) ==
  /\ pc[k] = "l-close"
  /\ CloseEnd \/ ("close" \in Faults /\ CloseThrows)
  /\ LoginGoes(k, "l-pause", None)
  /\ UNCHANGED grpcVars

LoginRedials(k) ==
  /\ pc[k] = "l-pause"
  /\ DialBegin(arg[k])
  /\ LoginGoes(k, "l-redial", None)
  /\ UNCHANGED grpcVars

LoginRedialed(k, s) ==
  /\ pc[k] = "l-redial"
  /\ Unused(s) /\ statsOn # s
  /\ DialOk(s, arg[k])
  /\ LoginGoes(k, "l-start", s)
  /\ UNCHANGED grpcVars

LoginRedialFailed(k) ==
  /\ pc[k] = "l-redial"
  /\ DialFail
  /\ LoginGoes(k, "l-start", client)
  /\ UNCHANGED grpcVars

LoginAgentStarted(k) ==
  /\ pc[k] = "l-start"
  /\ Up(on[k])
  /\ BindBegin
  /\ LoginGoes(k, "l-bind", None)
  /\ UNCHANGED grpcVars

LoginStartFailed(k) ==
  /\ pc[k] = "l-start"
  /\ LoginEnds(k)
  /\ UNCHANGED <<sshVars, grpcVars>>

LoginTunnelBound(k) ==
  /\ pc[k] = "l-bind"
  /\ BindOk
  /\ LoginGoes(k, "l-settle", None)
  /\ UNCHANGED grpcVars

LoginTunnelFailed(k) ==
  /\ pc[k] = "l-bind"
  /\ BindFail
  /\ LoginEnds(k)
  /\ UNCHANGED grpcVars

LoginGrpcConnected(k, ch) ==
  /\ pc[k] = "l-settle"
  /\ k \notin gone
  /\ Unused(ch)
  /\ GrpcConnect(ch)
  /\ LoginGoes(k, "l-version", None)
  /\ UNCHANGED sshVars

LoginLeftBeforeGrpc(k) ==
  /\ pc[k] = "l-settle"
  /\ k \in gone
  /\ LoginEnds(k)
  /\ UNCHANGED <<sshVars, grpcVars>>

\* The ConnectionManager is not told.
LoginVersionFetched(k) ==
  /\ pc[k] = "l-version"
  /\ uiConn' = IF k \in gone THEN uiConn ELSE arg[k]
  /\ Finish(k)
  /\ UNCHANGED <<sshVars, grpcVars, managerVars>>

LoginStep(k) ==
  \/ \E s \in Sessions : LoginDialed(k, s) \/ LoginRedialed(k, s)
  \/ \E ch \in Channels : LoginGrpcConnected(k, ch)
  \/ LoginDialFailed(k) \/ LoginSudoOk(k) \/ LoginSudoFailed(k)
  \/ LoginAgentFound(k) \/ LoginAgentInstalled(k) \/ LoginAgentMissing(k) \/ LoginAccepts(k)
  \/ LoginDeclines(k) \/ LoginInstallDone(k) \/ LoginForwardingOk(k)
  \/ LoginForwardingDisabled(k) \/ LoginEnabled(k) \/ LoginReplaces(k)
  \/ LoginEnableFailed(k) \/ LoginClosed(k) \/ LoginRedials(k) \/ LoginRedialFailed(k)
  \/ LoginAgentStarted(k) \/ LoginStartFailed(k) \/ LoginTunnelBound(k)
  \/ LoginTunnelFailed(k) \/ LoginLeftBeforeGrpc(k) \/ LoginVersionFetched(k)
=============================================================================
