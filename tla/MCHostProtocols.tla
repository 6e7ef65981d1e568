--------------------------- MODULE MCHostProtocols ----------------------------
(***************************************************************************)
(* The protocols on the host that share no state with each other, in one   *)
(* state space: a behaviour follows one of them, the others stay in their  *)
(* first states.                                                           *)
(***************************************************************************)
EXTENDS OperationHistory, SettingsSave, InstallerCache, WindowsOperation, SessionKeeper,
        HostRelay, BrowserTests, CommandExecution, ProjectWorkspace

VARIABLE part

\* Suites that read, test the VM itself between reads, write, and change data that they
\* separate while Studio is operated.
MCSuites ==
  {<<"app-read">>, <<"app-read", "vm-lifecycle", "app-read">>, <<"data-write", "app-read">>} \union
  {<<g, "studio-ui", g>> : g \in Scopes}

\* The workspace moves from "here", which stays empty, to "there".
MCDirectories == {"here", "there"}
MCProjects == {<<"there", "app">>}

HostInit ==
  /\ part \in {"history", "settings", "installer", "windows", "keeper", "relay", "browser",
               "command", "projects"}
  /\ HistoryInit /\ SettingsInit /\ InstallerInit /\ WinInit /\ KeeperInit /\ RelayInit
  /\ BrowserInit /\ CommandInit /\ WorkspaceInit
  /\ workspace.root = "here" /\ (part # "projects" => workspace.files = {})
  /\ part # "windows" => legacy = {} /\ Cardinality({listening[q] : q \in Ports}) = 1

HostNext ==
  /\ UNCHANGED part
  /\ \/ /\ part = "history"
        /\ UNCHANGED <<settingsVars, installerVars, winVars, keeperVars, relayVars,
                       testRunVars, commandVars, workspaceVars>>
        /\ HistoryNext
     \/ /\ part = "settings"
        /\ UNCHANGED <<historyVars, installerVars, winVars, keeperVars, relayVars,
                       testRunVars, commandVars, workspaceVars>>
        /\ SettingsNext
     \/ /\ part = "installer"
        /\ UNCHANGED <<historyVars, settingsVars, winVars, keeperVars, relayVars,
                       testRunVars, commandVars, workspaceVars>>
        /\ InstallerNext
     \/ /\ part = "windows"
        /\ UNCHANGED <<historyVars, settingsVars, installerVars, keeperVars, relayVars,
                       testRunVars, commandVars, workspaceVars>>
        /\ WinNext
     \/ /\ part = "keeper"
        /\ UNCHANGED <<historyVars, settingsVars, installerVars, winVars, relayVars,
                       testRunVars, commandVars, workspaceVars>>
        /\ KeeperNext
     \/ /\ part = "relay"
        /\ UNCHANGED <<historyVars, settingsVars, installerVars, winVars, keeperVars,
                       testRunVars, commandVars, workspaceVars>>
        /\ RelayNext
     \/ /\ part = "browser"
        /\ UNCHANGED <<historyVars, settingsVars, installerVars, winVars, keeperVars,
                       relayVars, commandVars, workspaceVars>>
        /\ BrowserNext
     \/ /\ part = "command"
        /\ UNCHANGED <<historyVars, settingsVars, installerVars, winVars, keeperVars,
                       relayVars, testRunVars, workspaceVars>>
        /\ CommandNext
     \/ /\ part = "projects"
        /\ UNCHANGED <<historyVars, settingsVars, installerVars, winVars, keeperVars,
                       relayVars, testRunVars, commandVars>>
        /\ WorkspaceNext

hostVars == <<part, historyVars, settingsVars, installerVars, winVars, keeperVars, relayVars,
              testRunVars, commandVars, workspaceVars>>

HostSpec == HostInit /\ [][HostNext]_hostVars

\* The variables of a behaviour that are not those of its part stay what they are.
HostView ==
  CASE part = "history" -> historyVars
    [] part = "settings" -> settingsVars
    [] part = "installer" -> installerVars
    [] part = "windows" -> winVars
    [] part = "keeper" -> keeperVars
    [] part = "relay" -> relayVars
    [] part = "browser" -> testRunVars
    [] part = "command" -> commandVars
    [] part = "projects" -> workspaceVars
MCView == <<part, HostView>>

\* The types of all of them, each where its part may have moved.
HostTypeOK ==
  /\ part = "history" => HistoryTypeOK
  /\ part = "settings" => SettingsTypeOK
  /\ part = "installer" => InstallerTypeOK
  /\ part = "windows" => WinTypeOK
  /\ part = "keeper" => KeeperTypeOK
  /\ part = "relay" => RelayTypeOK
  /\ part = "browser" => BrowserTypeOK
  /\ part = "command" => CommandTypeOK
  /\ part = "projects" => WorkspaceTypeOK
=============================================================================
