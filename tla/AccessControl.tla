---------------------------- MODULE AccessControl ----------------------------
(***************************************************************************)
(* Who may ask for which job, and which agent can be given it: the tables  *)
(* of the shared package, the permissions of the built-in roles, and the   *)
(* checks of the routes, of the job service and of the store.              *)
(***************************************************************************)

PERMISSIONS ==
  {"agents.view", "agents.manage", "agents.delete", "agents.enroll",
   "scripts.run", "scripts.manage", "remote.shell", "remote.desktop",
   "power.reboot", "power.shutdown", "power.wol", "services.manage",
   "processes.kill", "agent.update", "artifacts.upload", "artifacts.download",
   "webcam.capture", "jobs.view", "jobs.create", "jobs.cancel", "audit.view",
   "org.manage", "org.users.manage", "org.roles.manage", "org.settings.manage",
   "dashboard.view", "reports.view", "reports.export"}

Views == {"agents.view", "jobs.view", "audit.view", "dashboard.view", "reports.view"}

OperatorPermissions ==
  Views \union
  {"agents.manage", "scripts.run", "remote.shell", "remote.desktop", "power.reboot",
   "power.wol", "services.manage", "processes.kill", "artifacts.upload",
   "artifacts.download", "jobs.create", "jobs.cancel"}

Roles == {"super_admin", "org_admin", "operator", "viewer"}

BUILT_IN_ROLES ==
  [r \in Roles |->
     CASE r = "super_admin" -> PERMISSIONS
       [] r = "org_admin"   -> PERMISSIONS \ {"webcam.capture"}
       [] r = "operator"    -> OperatorPermissions
       [] r = "viewer"      -> Views]

Shell   == {"remote_shell_start", "remote_shell_stop"}
Desktop == {"remote_desktop_start", "remote_desktop_stop", "remote_desktop_stream", "remote_desktop_input"}
Privacy == {"remote_desktop_privacy_mode_set", "remote_desktop_input_lock_set"}
Service == {"service_restart", "service_stop", "service_start"}

JobTypes ==
  Shell \union Desktop \union Privacy \union Service \union
  {"run_script", "wake_on_lan", "agent_update", "reboot", "shutdown", "process_kill",
   "artifact_upload", "artifact_download", "webcam_capture"}

JOB_TYPE_PERMISSION ==
  [t \in JobTypes |->
     CASE t = "run_script"              -> "scripts.run"
       [] t \in Shell                   -> "remote.shell"
       [] t \in Desktop \union Privacy  -> "remote.desktop"
       [] t = "wake_on_lan"             -> "power.wol"
       [] t = "agent_update"            -> "agent.update"
       [] t = "reboot"                  -> "power.reboot"
       [] t = "shutdown"                -> "power.shutdown"
       [] t \in Service                 -> "services.manage"
       [] t = "process_kill"            -> "processes.kill"
       [] t = "artifact_upload"         -> "artifacts.upload"
       [] t = "artifact_download"       -> "artifacts.download"
       [] t = "webcam_capture"          -> "webcam.capture"]

JOB_TYPE_CAPABILITY ==
  [t \in JobTypes |->
     CASE t \in Shell   -> "remote_shell"
       [] t \in Desktop -> "remote_desktop"
       [] t = "remote_desktop_privacy_mode_set" -> "privacy_mode"
       [] t = "remote_desktop_input_lock_set"   -> "input_lock"
       [] t \in Service -> "service_management"
       [] t = "process_kill" -> "process_management"
       [] t \in {"artifact_upload", "artifact_download"} -> "artifact_transfer"
       [] OTHER -> t]

\* What every agent is enrolled with.
EnrolledCapabilities ==
  {"metrics", "inventory", "run_script", "remote_shell", "remote_desktop", "reboot",
   "shutdown", "service_management", "process_management", "agent_update"}

-----------------------------------------------------------------------------
(* requirePermission, for the permissions a token carries; the store's     *)
(* hasPermission is the same question in the browser.                      *)

HasPermission(role, permission) == permission \in BUILT_IN_ROLES[role]

\* POST /jobs: jobs.create, the permission of the type, then its capability.
Permitted(role, type) ==
  /\ HasPermission(role, "jobs.create")
  /\ HasPermission(role, JOB_TYPE_PERMISSION[type])

Capable(type) == JOB_TYPE_CAPABILITY[type] \in EnrolledCapabilities

MayCreate(role, type) == Permitted(role, type) /\ Capable(type)
=============================================================================
