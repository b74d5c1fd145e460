------------------------- MODULE ConnectionsScreen -------------------------
(***************************************************************************)
(* The connections screen (lib/screens/connections_screen.dart), which     *)
(* connects through the ConnectionManager and asks the user what connect() *)
(* could not do by itself: install the agent, enable TCP forwarding.       *)
(*                                                                         *)
(* The progress dialog can be dismissed with the system's back button and  *)
(* the screen left; the call goes on, and finds context.mounted false.     *)
(***************************************************************************)
EXTENDS ConnectionManager

ScreenPcs == {"ask-install", "ask-forward", "install", "enable"}

TapConnect(k, c) ==
  /\ pc[k] = "idle"
  /\ cm # "connecting"
  /\ ~(cm = "connected" /\ cmConn = c)
  /\ ManagerConnect(k, c)

\* Only in the awaits whose end looks at context.mounted, or reads a provider
\* through the screen's ref, which throws once the screen is disposed.
LeaveScreen(k) ==
  /\ k \notin gone
  /\ pc[k] \in {"agent", "fwd", "ask-install", "ask-forward", "install", "enable",
                "version", "l-dial", "l-agent", "l-running", "l-ask-install", "l-install",
                "l-fwd", "l-ask-forward", "l-settle", "l-version"}
  /\ gone' = gone \cup {k}
  /\ UNCHANGED <<pc, arg, on, sshVars, grpcVars, managerVars, uiConn>>

AcceptInstall(k) ==
  /\ pc[k] = "ask-install" /\ k \notin gone
  /\ Goto(k, "install", None)
  /\ UNCHANGED <<sshVars, grpcVars, managerVars, uiConn>>

\* The user declines, or the dialog closes with its screen.
Decline(k) ==
  /\ pc[k] \in {"ask-install", "ask-forward"}
  /\ ManagerDisconnect(k)

\* _installAgent() swallows its errors: installed or not, the connection goes on.
InstallDone(k) ==
  /\ pc[k] = "install"
  /\ \/ k \notin gone /\ ManagerContinue(k)
     \/ k \in gone /\ Finish(k)
  /\ UNCHANGED <<sshVars, grpcVars, managerVars, uiConn>>

\* enableSSHForwarding() throws at once when the service is not connected; the
\* screen's catch shows the error and the call is over.
AcceptForwarding(k) ==
  /\ pc[k] = "ask-forward" /\ k \notin gone
  /\ \/ IsConnected /\ Goto(k, "enable", client)
     \/ ~IsConnected /\ Finish(k)
  /\ UNCHANGED <<sshVars, grpcVars, managerVars, uiConn>>

ForwardingEnabled(k) ==
  /\ pc[k] = "enable"
  /\ Up(on[k])
  /\ \/ k \notin gone /\ ManagerContinue(k)
     \/ k \in gone /\ Finish(k)
  /\ UNCHANGED <<sshVars, grpcVars, managerVars, uiConn>>

\* A command of enableSSHForwarding() failed: rethrown to the screen's catch.
EnableFailed(k) ==
  /\ pc[k] = "enable"
  /\ Finish(k)
  /\ UNCHANGED <<sshVars, grpcVars, managerVars, uiConn>>

ScreenStep(k) ==
  \/ LeaveScreen(k) \/ AcceptInstall(k) \/ Decline(k) \/ InstallDone(k)
  \/ AcceptForwarding(k) \/ ForwardingEnabled(k) \/ EnableFailed(k)
=============================================================================
