---------------------------- MODULE AgentStartup ----------------------------
(***************************************************************************)
(* The start of an agent: main's run registers one handler after another   *)
(* with the operation registry, whose Register panics at an operation that *)
(* is not in the allowlist, and then serves tasks, which Execute           *)
(* dispatches.                                                             *)
(***************************************************************************)
EXTENDS Naturals, Sequences, FiniteSets

\* The keys of the map allowlist.
Allowlist == {
  "CreateHostingUser", "LockHostingUser", "UnlockHostingUser", "DeleteHostingUser",
  "CreateVirtualHost", "UpdateVirtualHost", "DeleteVirtualHost",
  "ValidateWebServerConfig", "EnableSSL", "DisableSSL", "ConfigureReverseProxy",
  "ReloadWebServer", "RollbackWebServerConfig", "GetWebServerHealth",
  "SetPHPVersion", "CreateFPMPool", "DeleteFPMPool", "ReloadPHPFPM",
  "CreateNodeApp", "StartNodeApp", "StopNodeApp", "RestartNodeApp",
  "GetNodeAppStatus", "DeleteNodeApp",
  "CreateDatabase", "DeleteDatabase", "CreateDatabaseUser",
  "RotateDatabasePassword", "DeleteDatabaseUser",
  "CreateDNSZone", "DeleteDNSZone", "CreateDNSRecord", "UpdateDNSRecord",
  "DeleteDNSRecord",
  "CreateMailbox", "DeleteMailbox", "SetMailboxQuota", "ResetMailboxPassword",
  "CreateAlias", "DeleteAlias",
  "RunBackup", "RunRestore", "VerifyBackupIntegrity",
  "ApplyFirewallRuleSet", "GetSystemMetrics", "GetServiceStatus",
  "RotateAgentCertificate" }

\* The operations of main's calls of Register, in order.
Registrations == <<
  "GetSystemMetrics", "CreateHostingUser", "CreateVirtualHost", "CreateDatabase",
  "CreateDatabaseUser", "GrantDatabasePrivileges", "CreateDNSZone",
  "DeleteDNSZone", "RunBackup", "RunRestore", "CreateNodeApp", "CreateMailbox",
  "DeleteMailbox", "CreateAlias", "FileList", "FileRead", "FileWrite",
  "FileDelete", "GetMetrics", "InstallApp", "ConfigureLoadBalancer", "IssueSSL" >>

VARIABLES
  process,   \* "starting", "serving" or "panicked"
  handlers,  \* operations that have a handler: Registry.handlers
  position,  \* calls of Register that have been made
  outcome    \* what the last task came to

vars == <<process, handlers, position, outcome>>

IsAllowed(op) == op \in Allowlist

Register ==
  /\ process = "starting"
  /\ position < Len(Registrations)
  /\ LET op == Registrations[position + 1]
     IN IF IsAllowed(op)
          THEN handlers' = handlers \cup {op} /\ UNCHANGED process
          ELSE process' = "panicked" /\ UNCHANGED handlers
  /\ position' = position + 1
  /\ UNCHANGED outcome

Serve ==
  /\ process = "starting"
  /\ position = Len(Registrations)
  /\ process' = "serving"
  /\ UNCHANGED <<handlers, position, outcome>>

\* Registry.Execute.
Execute(op) ==
  /\ process = "serving"
  /\ outcome' = IF ~IsAllowed(op) THEN "forbidden"
                ELSE IF op \notin handlers THEN "unimplemented" ELSE "run"
  /\ UNCHANGED <<process, handlers, position>>

Init ==
  /\ process = "starting"
  /\ handlers = {}
  /\ position = 0
  /\ outcome = "none"

Next ==
  \/ Register
  \/ Serve
  \/ \E op \in Allowlist \cup {Registrations[i] : i \in 1 .. Len(Registrations)} :
       Execute(op)

Spec == Init /\ [][Next]_vars

\* allowlist.go calls the constants it declares, GrantDatabasePrivileges among
\* them, the "Complete Operation Allowlist"; Register panics only at a
\* "programming error".  So main's registrations never stop the agent.
RegistersOnlyAllowed == process # "panicked"
=============================================================================
