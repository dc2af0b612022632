-------------------------- MODULE NodeRegistration --------------------------
(***************************************************************************)
(* `brae node register` and `brae node unregister` (cli.cpp), one command  *)
(* after another on one machine, with what outlives them: the identity     *)
(* file (identity.cpp), the systemd unit (service_systemd.cpp), the daemon *)
(* that systemd runs, and the registry row at the control plane.           *)
(*                                                                         *)
(* The control plane is external.  It hands out a node id it has not used  *)
(* yet; a request or its reply may be lost.  A command may be killed       *)
(* between any two of its steps, and the mode of the identity file may be  *)
(* changed.  troubles records which of the three have happened.  What      *)
(* systemctl or unlink fails to take off, though the command goes on as if *)
(* it were gone, is in stuck until a later step puts it right.             *)
(***************************************************************************)
EXTENDS Naturals

CONSTANTS
  NodeIds,       \* ids the control plane can hand out
  None,          \* no id, no file, no process
  MaxCommands    \* bound on the commands given

ASSUME NodeRegistrationAssumption ==
  /\ None \notin NodeIds
  /\ MaxCommands \in Nat

VARIABLES
  cpc,        \* the step the command is about to take; "idle" between commands
  held,       \* the node id the command works with
  exit,       \* how the last command ended
  identity,   \* the node id in node.json
  owner,      \* who owns node.json
  loose,      \* node.json is readable to others
  unit,       \* the unit is installed and enabled
  active,     \* systemd keeps the service running
  daemon,     \* the node id the daemon process runs as
  rows,       \* the registry
  heard,      \* node ids whose daemon has reported
  commands,   \* commands so far
  stuck,      \* what could not be taken off, and nobody has noticed
  troubles    \* what has gone wrong so far

vars == <<cpc, held, exit, identity, owner, loose, unit, active, daemon, rows,
          heard, commands, stuck, troubles>>
fileVars == <<identity, owner, loose>>
serviceVars == <<unit, active, daemon>>
serverVars == <<rows, heard>>

Points == {"idle", "post", "save", "giveBack", "user", "own", "install",
           "start", "verify", "rollbackService", "rollbackIdentity",
           "rollbackRow", "leaveService", "leaveRow", "leaveIdentity"}
Exits == {"none", "already registered", "refused", "rolled back", "connected",
          "not yet reporting", "not registered", "left", "killed"}
Troubles == {"lost", "killed", "loosened"}

Init ==
  /\ cpc = "idle" /\ held = None /\ exit = "none"
  /\ identity = None /\ owner = "root" /\ loose = FALSE
  /\ unit = FALSE /\ active = FALSE /\ daemon = None
  /\ rows = [i \in NodeIds |-> "unused"] /\ heard = {}
  /\ commands = 0 /\ stuck = {} /\ troubles = {}

Befalls(t) == troubles' = troubles \cup {t}

Goes(from, to) == cpc = from /\ cpc' = to /\ UNCHANGED <<held, exit, commands>>
Ends(from, how) ==
  /\ cpc = from /\ cpc' = "idle" /\ held' = None /\ exit' = how
  /\ UNCHANGED commands
Returns(how) == cpc' = "idle" /\ held' = None /\ exit' = how

-----------------------------------------------------------------------------
(* loadIdentity, for root and for the service account.                       *)
loads == identity # None /\ ~loose
daemonLoads == loads /\ owner = "brae"

(* unregisterNode: the row becomes inactive unless the request is lost.      *)
UnregisterNode ==
  /\ \/ rows' = [rows EXCEPT ![held] = IF @ = "active" THEN "left" ELSE @] /\ UNCHANGED troubles
     \/ Befalls("lost") /\ UNCHANGED rows
  /\ UNCHANGED heard

(* Seeded defect: the unit file is removed under the running service.        *)
RemoveOnly ==
  unit' = FALSE /\ stuck' = stuck \ {"service"} /\ UNCHANGED <<active, daemon>>

(* stopAndRemove returns true whatever stop, disable and unlink did: any of  *)
(* what they should take off may stay.                                       *)
StopAndRemove ==
  \/ unit' = FALSE /\ active' = FALSE /\ daemon' = None /\ stuck' = stuck \ {"service"}
  \/ /\ unit' \in {unit, FALSE} /\ active' \in {active, FALSE}
     /\ daemon' \in {daemon, None}
     /\ stuck' = stuck \cup {"service"}

(* removeIdentity, whose failure its callers ignore.                         *)
RemoveIdentity ==
  /\ \/ identity' = None /\ stuck' = stuck \ {"identity"}
     \/ UNCHANGED identity /\ stuck' = stuck \cup {"identity"}
  /\ UNCHANGED <<owner, loose>>

-----------------------------------------------------------------------------
(* cmdRegister up to the POST: an identity that can be read ends it.         *)
Register ==
  /\ cpc = "idle" /\ commands < MaxCommands
  /\ commands' = commands + 1
  /\ IF loads THEN Returns("already registered")
              ELSE cpc' = "post" /\ held' = None /\ exit' = "none"
  /\ UNCHANGED <<fileVars, serviceVars, serverVars, troubles, stuck>>

(* registerNode: a new row and its token, a refusal, or a lost reply.        *)
RegisterNode(i) ==
  /\ rows[i] = "unused"
  /\ rows' = [rows EXCEPT ![i] = "active"]
  /\ cpc = "post" /\ UNCHANGED commands
  /\ \/ cpc' = "save" /\ held' = i /\ UNCHANGED <<exit, troubles>>
     \/ Returns("refused") /\ Befalls("lost")
  /\ UNCHANGED <<fileVars, serviceVars, heard, stuck>>

RegisterNodeFails ==
  /\ Ends("post", "refused")
  /\ UNCHANGED <<fileVars, serviceVars, serverVars, troubles, stuck>>

(* saveIdentity: written beside the file with mode 0600, then renamed.       *)
SaveIdentity ==
  /\ Goes("save", "user")
  /\ identity' = held /\ owner' = "root" /\ loose' = FALSE
  /\ stuck' = stuck \ {"identity"}
  /\ UNCHANGED <<serviceVars, serverVars, troubles>>

SaveIdentityFails ==
  /\ Goes("save", "giveBack")
  /\ UNCHANGED <<fileVars, serviceVars, serverVars, troubles, stuck>>

(* Seeded defect: the row is kept when the identity could not be saved.      *)
GiveNothingBack ==
  /\ Ends("giveBack", "rolled back")
  /\ UNCHANGED <<fileVars, serviceVars, serverVars, troubles, stuck>>

GiveBack ==
  /\ Ends("giveBack", "rolled back")
  /\ UnregisterNode
  /\ UNCHANGED <<fileVars, serviceVars, stuck>>

EnsureUser(ok) ==
  /\ Goes("user", IF ok THEN "own" ELSE "rollbackService")
  /\ UNCHANGED <<fileVars, serviceVars, serverVars, troubles, stuck>>

(* Seeded defect: the identity stays root's.                                 *)
TakeNothing(ok) ==
  /\ Goes("own", IF ok THEN "install" ELSE "rollbackService")
  /\ UNCHANGED <<fileVars, serviceVars, serverVars, troubles, stuck>>

TakeOwnership(ok) ==
  /\ Goes("own", IF ok THEN "install" ELSE "rollbackService")
  /\ IF ok THEN owner' = "brae" /\ loose' = FALSE ELSE UNCHANGED <<owner, loose>>
  /\ UNCHANGED <<identity, serviceVars, serverVars, troubles, stuck>>

(* The unit file may be there although daemon-reload or enable has failed.   *)
Install(ok) ==
  /\ Goes("install", IF ok THEN "start" ELSE "rollbackService")
  /\ unit' = TRUE \/ (~ok /\ UNCHANGED unit)
  /\ UNCHANGED <<active, daemon, fileVars, serverVars, troubles, stuck>>

(* systemctl restart: the unit is Type=simple, so starting always succeeds   *)
(* once the process exists.                                                  *)
Start(ok) ==
  /\ Goes("start", IF ok THEN "verify" ELSE "rollbackService")
  /\ IF ok THEN active' = TRUE /\ daemon' = None /\ stuck' = stuck \ {"service"}
           ELSE UNCHANGED <<active, daemon, stuck>>
  /\ UNCHANGED <<unit, fileVars, serverVars, troubles>>

(* verifyOnce: a snapshot of its own in the node's name; gives up after      *)
(* verifySeconds.                                                            *)
Verified ==
  /\ loads /\ rows[identity] = "active"
  /\ Ends("verify", "connected")
  /\ UNCHANGED <<fileVars, serviceVars, serverVars, troubles, stuck>>

NotVerified ==
  /\ IF loads /\ rows[identity] = "active" THEN Befalls("lost")
                                           ELSE UNCHANGED troubles
  /\ Ends("verify", "not yet reporting")
  /\ UNCHANGED <<fileVars, serviceVars, serverVars, stuck>>

(* Seeded defect: the service is left running when the command backs out.    *)
RollbackNoService ==
  /\ Goes("rollbackService", "rollbackIdentity")
  /\ UNCHANGED <<fileVars, serviceVars, serverVars, troubles, stuck>>

(* rollback.                                                                 *)
RollbackService ==
  /\ Goes("rollbackService", "rollbackIdentity")
  /\ StopAndRemove
  /\ UNCHANGED <<fileVars, serverVars, troubles>>

RollbackIdentity ==
  /\ Goes("rollbackIdentity", "rollbackRow")
  /\ RemoveIdentity
  /\ UNCHANGED <<serviceVars, serverVars, troubles>>

RollbackRow ==
  /\ Ends("rollbackRow", "rolled back")
  /\ UnregisterNode
  /\ UNCHANGED <<fileVars, serviceVars, stuck>>

-----------------------------------------------------------------------------
(* cmdUnregister.                                                            *)
Unregister ==
  /\ cpc = "idle" /\ commands < MaxCommands
  /\ commands' = commands + 1
  /\ IF loads THEN cpc' = "leaveService" /\ held' = identity /\ exit' = "none"
              ELSE Returns("not registered")
  /\ UNCHANGED <<fileVars, serviceVars, serverVars, troubles, stuck>>

LeaveService ==
  /\ Goes("leaveService", "leaveRow")
  /\ StopAndRemove
  /\ UNCHANGED <<fileVars, serverVars, troubles>>

(* Seeded defect: leaving is given up when the control plane is not reached. *)
LeaveRowIfReached ==
  /\ \/ /\ Goes("leaveRow", "leaveIdentity")
        /\ rows' = [rows EXCEPT ![held] = "left"] /\ UNCHANGED troubles
     \/ Ends("leaveRow", "left") /\ Befalls("lost") /\ UNCHANGED rows
  /\ UNCHANGED <<fileVars, serviceVars, heard, stuck>>

LeaveRow ==
  /\ Goes("leaveRow", "leaveIdentity")
  /\ UnregisterNode
  /\ UNCHANGED <<fileVars, serviceVars, stuck>>

LeaveIdentity ==
  /\ Ends("leaveIdentity", "left")
  /\ RemoveIdentity
  /\ UNCHANGED <<serviceVars, serverVars, troubles>>

Killed ==
  /\ cpc # "idle"
  /\ Returns("killed") /\ Befalls("killed")
  /\ UNCHANGED <<fileVars, serviceVars, serverVars, commands, stuck>>

Loosen ==
  /\ identity # None /\ ~loose
  /\ loose' = TRUE /\ Befalls("loosened")
  /\ UNCHANGED <<cpc, held, exit, identity, owner, serviceVars, serverVars,
                 commands, stuck>>

(* systemd (Restart=always, and at boot) and the daemon: runDaemon ends at   *)
(* once if the identity cannot be loaded.                                    *)
DaemonStarts ==
  /\ active /\ daemon = None /\ daemonLoads
  /\ daemon' = identity
  /\ UNCHANGED <<cpc, held, exit, fileVars, unit, active, serverVars, commands, troubles, stuck>>

DaemonDies ==
  /\ daemon # None
  /\ daemon' = None
  /\ UNCHANGED <<cpc, held, exit, fileVars, unit, active, serverVars, commands, troubles, stuck>>

Boot ==
  /\ unit /\ ~active /\ cpc = "idle"
  /\ active' = TRUE
  /\ UNCHANGED <<cpc, held, exit, fileVars, unit, daemon, serverVars, commands, troubles, stuck>>

DaemonReports ==
  /\ daemon # None /\ rows[daemon] = "active" /\ daemon \notin heard
  /\ heard' = heard \cup {daemon}
  /\ UNCHANGED <<cpc, held, exit, fileVars, serviceVars, rows, commands, troubles, stuck>>

-----------------------------------------------------------------------------
CommandStep ==
  \/ \E i \in NodeIds : RegisterNode(i)
  \/ RegisterNodeFails \/ SaveIdentity \/ SaveIdentityFails \/ GiveBack
  \/ \E ok \in BOOLEAN : EnsureUser(ok) \/ TakeOwnership(ok) \/ Install(ok)
                         \/ Start(ok)
  \/ Verified \/ NotVerified
  \/ RollbackService \/ RollbackIdentity \/ RollbackRow
  \/ LeaveService \/ LeaveRow \/ LeaveIdentity

Next ==
  \/ Register \/ Unregister \/ CommandStep \/ Killed \/ Loosen
  \/ DaemonStarts \/ DaemonDies \/ Boot \/ DaemonReports

Spec == Init /\ [][Next]_vars

(* systemd restarts the daemon again and again (Restart=always), and a       *)
(* daemon that runs again and again gets a snapshot through.                 *)
FairSpec ==
  Spec /\ WF_vars(CommandStep) /\ WF_vars(DaemonStarts) /\ SF_vars(DaemonReports)

-----------------------------------------------------------------------------
(* The types.                                                                *)
TypeOK ==
  /\ cpc \in Points
  /\ held \in NodeIds \cup {None}
  /\ exit \in Exits
  /\ identity \in NodeIds \cup {None}
  /\ owner \in {"root", "brae"} /\ loose \in BOOLEAN
  /\ unit \in BOOLEAN /\ active \in BOOLEAN
  /\ daemon \in NodeIds \cup {None}
  /\ rows \in [NodeIds -> {"unused", "active", "left"}]
  /\ heard \subseteq NodeIds
  /\ commands \in 0..MaxCommands
  /\ stuck \subseteq {"service", "identity"} /\ troubles \subseteq Troubles

(* As long as nobody has loosened the identity file and systemctl has done   *)
(* what it was told (or a later start or stop has put it right), a service   *)
(* that systemd keeps running finds an identity its own account can read,    *)
(* wherever commands are killed and however often the machine is registered, *)
(* unregistered and rolled back: it is never left restarting with "no        *)
(* identity".                                                                *)
ServiceCanRead ==
  "loosened" \notin troubles /\ "service" \notin stuck =>
    (active => identity # None /\ owner = "brae")

(* Under the same conditions the daemon acts only as the node whose identity *)
(* is on disk.                                                               *)
DaemonIsThisNode ==
  "loosened" \notin troubles /\ "service" \notin stuck =>
    (daemon # None => daemon = identity)

(* "A failure at any step undoes the ones before it" (cli.h): when register  *)
(* has failed, and no request was lost, nothing else went wrong and nothing  *)
(* refused to come off, there is no identity, no unit, no service, and no    *)
(* row that only a lost token could speak for.                               *)
RegisterIsAtomic ==
  troubles = {} /\ stuck = {} /\ exit \in {"refused", "rolled back"} /\ cpc = "idle" =>
    /\ identity = None /\ ~unit /\ ~active /\ daemon = None
    /\ \A i \in NodeIds : rows[i] # "active"

(* Every active row is the one of the identity or of the command under way.  *)
RowsHaveSpeakers ==
  \A i \in NodeIds : rows[i] = "active" => i \in {identity, held}

(* Unless a message is lost, a command killed or the file loosened, no row   *)
(* of the registry is left without a machine that speaks for it, at any step *)
(* of any sequence of commands, even if something refuses to come off.       *)
NoStrandedRow == troubles = {} => RowsHaveSpeakers

(* cmdRegister refuses to run twice because "Re-registering silently would   *)
(* strand the old node id" (cli.cpp): that holds whatever mode the identity  *)
(* file has been given.                                                      *)
NeverRegistersTwice == troubles \subseteq {"loosened"} => RowsHaveSpeakers

(* Leaving does not depend on the control plane: unregister ends with the    *)
(* service and the identity gone, whatever was lost, killed, loosened or     *)
(* stuck before, and each of the two also when the other could not be        *)
(* removed.                                                                  *)
LeavesLocally ==
  exit = "left" /\ cpc = "idle" =>
    /\ "service" \notin stuck => ~unit /\ ~active /\ daemon = None
    /\ "identity" \notin stuck => identity = None

(* A machine that has been told it is connected does join the network,       *)
(* unless its owner gives another command or makes the file unusable.        *)
Joins ==
  exit = "connected" ~> \/ identity \in heard
                        \/ exit # "connected"
                        \/ "loosened" \in troubles
=============================================================================
