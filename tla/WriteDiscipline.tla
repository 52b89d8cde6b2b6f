--------------------------- MODULE WriteDiscipline ---------------------------
(***************************************************************************)
(* What is expected of the write handlers by name, and how their plans     *)
(* have to look for it to be so: which packages a handler exports before   *)
(* it writes, what its rollbacks put back, what it commits.                *)
(***************************************************************************)
EXTENDS ConfigTx

(* The handlers that write a package without an export of it, or put it    *)
(* back by writing again: no promise on the files holds for them.          *)
Unguarded == {"HardenedSSH", "Template", "TemplateGone", "Watchdog",
              "PublicHost", "Remote_Ops", "UPnPOn", "UPnPOff"}
(* The handlers that drop the error of a commit.                           *)
Lenient == {"PortTemplate", "Defaults"}
Careless == Unguarded \cup Lenient

(* The handlers that drop the error of an export, and write the package    *)
(* all the same: when that export failed, their rollback leaves it.        *)
Forgetful ==
  {"RoleIsolated", "LANIsolation", "SQMOn", "SQMOff", "DDNSOn", "DDNSOff",
   "DDNSGone", "UPnPRule", "UPnPRuleGone", "PortalOn", "PortalOff", "OVPNOn",
   "OVPNOff", "MwanOn", "MwanOff"}

(* The handlers whose rollback, or success, leaves a service with what it  *)
(* had loaded.                                                             *)
NotLive == Careless \cup
  {"RoleIsolated", "Guest", "IoTBoth", "SNMPOn", "UPnPRule", "UPnPRuleGone",
   "OVPNOn"}

(* The handlers that switch a service, or restart one that may be off, and *)
(* whose rollback does not look at what it was.                            *)
Switching == Unguarded \cup
  {"ModeRouter", "ModeAP", "MDNSOn", "MDNSOff", "SQMOn", "SQMOff",
   "NetifydOn", "NetifydOff", "TSOn", "TSOff", "DDNSOn", "SNMPOn",
   "SNMPOff", "NlbOn", "NlbOff", "PortalOn", "PortalOff", "OVPNOn",
   "OVPNOff", "MwanOn", "MwanOff", "AGOn", "AGStart", "AGStop", "Guest",
   "SSHOff", "Defaults"}

Under(exceptions) == {w \in Workers : plan[w] \notin exceptions}

(* The Forgetful keep their promise as long as every export worked, and    *)
(* none keeps it that met another handler on its packages.                 *)
Exported(w) == Footprint(plan[w]) \subseteq has[w]
Able ==
  {w \in Under(Careless) : Alone(w) /\ (plan[w] \in Forgetful => Exported(w))}

(* README.md 52-54: every other handler puts its packages back exactly.    *)
HandlersUndo == [][\A w \in Able : UndoesItself(w)]_vars
(* ... and no edit of a rejected change is anywhere, staged ones included. *)
HandlersLeaveNothing == \A w \in Able : LeavesNo(w)
(* A success is committed, and in force in every running service that      *)
(* reads its packages.                                                     *)
HandlersTakeEffect == [][\A w \in Under(NotLive) : TakesEffect(w)]_vars
(* After a rollback no running service works with the rejected change.     *)
HandlersUndoInForce == [][\A w \in Under(NotLive) : UndoTakesEffect(w)]_vars
(* After a rollback services are enabled and running as they were.         *)
HandlersPutServicesBack ==
  [][\A w \in Under(Switching) : ServicesAsBefore(w)]_vars
-----------------------------------------------------------------------------
(* The plans keep to it, but for those named: the theorems on the promises *)
(* above have this as their hypothesis.                                    *)
Disciplined ==
  \A id \in PlanIds \ Careless :
    /\ PutsBack(id)
    /\ id \notin Forgetful => Exports(id, Written(id))
Committing == \A id \in PlanIds \ Lenient : CommitsEdits(id)
(* A handler puts no export back before something has failed.              *)
OnlyWrites(id) ==
  \A i \in DOMAIN Plan[id].steps : Plan[id].steps[i].op # "restore"

-----------------------------------------------------------------------------
(* And what keeps the services right, with one handler at work.  The       *)
(* operations of a handler, and what one of them does to a service: whether *)
(* it makes it read its package, run, or not run.                          *)
Among(ops) == {ops[i] : i \in DOMAIN ops}
OpsOf(id) == UNION {Among(ops) : ops \in {Plan[id].steps} \cup Undos(id)}

Launches(o, s) ==
  (o.act \in {"start", "restart"} \/ o.op = "putRunning") /\ s \in Drives[o.on]
Loads(o, s) == Launches(o, s) \/ (o.act = "reload" /\ s \in Drives[o.on])
Halts(o, s) == (o.act = "stop" \/ o.op = "putRunning") /\ o.on = s
Enables(o, s) == (o.act = "enable" \/ o.op = "putEnabled") /\ o.on = s
Disables(o, s) == (o.act = "disable" \/ o.op = "putEnabled") /\ o.on = s

(* Services of the image that the handler never stops, or disables.        *)
AlwaysUp(id) ==
  {s \in Svcs : /\ \A b \in Boots : s \in b.up
                /\ \A o \in OpsOf(id) : ~Halts(o, s)}
AlwaysEnabled(id) ==
  {s \in Svcs : /\ \A b \in Boots : s \in b.en
                /\ \A o \in OpsOf(id) : ~Disables(o, s)}

(* The operation may leave s running when it did not, or the reverse, and  *)
(* not because s did so before the handler wrote.                          *)
Switches(id, o, s) ==
  /\ s \notin AlwaysUp(id)
  /\ Launches(o, s) \/ Halts(o, s)
  /\ o.op = "svcIfWasUp" => o.act = "stop" \/ o.on # s
  /\ o.op = "putRunning" => o.on # s
Relinks(id, o, s) ==
  /\ s \notin AlwaysEnabled(id)
  /\ Enables(o, s) \/ Disables(o, s)
  /\ o.op # "putEnabled"

UpIfWasUp(id) == {s \in Svcs : \A o \in OpsOf(id) : ~Switches(id, o, s)}
LinkedIfWas(id) == {s \in Svcs : \A o \in OpsOf(id) : ~Relinks(id, o, s)}

(* The rollback puts back the services the handler switched, and switches  *)
(* no other.                                                               *)
SwitchesBack(id) ==
  \A ops \in Undos(id), s \in Svcs :
    /\ \A o \in Among(ops) : ~Switches(id, o, s) /\ ~Relinks(id, o, s)
    /\ (\E o \in Among(Plan[id].steps) : Switches(id, o, s))
         => \E o \in Among(ops) : o.op = "putRunning" /\ o.on = s
    /\ (\E o \in Among(Plan[id].steps) : Relinks(id, o, s))
         => \E o \in Among(ops) : o.op = "putEnabled" /\ o.on = s
Switched == \A id \in PlanIds \ Switching : SwitchesBack(id)

(* Services that only run if they are enabled, while the handler works.    *)
EnabledIfUp(id) ==
  {s \in Svcs : /\ \A b \in Boots : s \in b.up => s \in b.en
                /\ \A o \in OpsOf(id) : ~Launches(o, s) /\ ~Disables(o, s)}

(* Once the operation has worked, s does not run with what its package no  *)
(* longer holds.                                                           *)
Teaches(id, o, s) ==
  /\ Loads(o, s) \/ Halts(o, s)
  /\ o.op \in {"svc", "svcIfEnabled", "svcIfWasUp", "putRunning"}
  /\ o.op # "svc" => o.on = s
  /\ o.op = "svcIfEnabled" => s \in EnabledIfUp(id)
  /\ o.op = "svcIfWasUp" => s \in UpIfWasUp(id)

Edited(id) == {o.on : o \in {u \in Among(Plan[id].steps) : u.op = "edit"}}
Puts(o, p) == o.op \in {"commit", "restore"} /\ o.on = p

(* A success tells every service that reads what was written.              *)
TellsAll(id) ==
  LET steps == Plan[id].steps
  IN \A s \in Svcs : Reads[s] \in Edited(id) =>
       \E i \in DOMAIN steps :
         /\ Teaches(id, steps[i], s)
         /\ \A j \in DOMAIN steps : i < j => ~Puts(steps[j], Reads[s])

(* The rollback tells s again, after it has put back the package.          *)
TellsAgain(id, ops, s) ==
  \E i, j \in DOMAIN ops :
    /\ i < j
    /\ ops[i].op = "restore" /\ ops[i].on = Reads[s]
    /\ Teaches(id, ops[j], s)
(* Or nothing that can still be undone has told s of the change.           *)
NeverTold(id, ops, s) ==
  LET steps == Plan[id].steps
  IN /\ Exports(id, {Reads[s]})
     /\ \A o \in Among(ops) : ~Loads(o, s)
     /\ \A i \in DOMAIN steps : Loads(steps[i], s) =>
          /\ ~Plan[id].health
          /\ \A j \in DOMAIN steps : i <= j => ~steps[j].must
TakesBack(id) ==
  \A ops \in Undos(id), s \in Svcs :
    Reads[s] \in Edited(id) => TellsAgain(id, ops, s) \/ NeverTold(id, ops, s)
Telling == \A id \in PlanIds \ NotLive : TellsAll(id) /\ TakesBack(id)
-----------------------------------------------------------------------------
(* The handlers that are not WellGuarded: they drop the error of an        *)
(* export, or write what they did not export.                              *)
NotGuarded ==
  {"Role", "RoleIsolated", "LAN", "LANIsolation", "HardenedSSH", "MDNSOn",
   "MDNSOff", "SQMOn", "SQMOff", "DDNSOn", "DDNSOff", "DDNSGone", "UPnPOn",
   "UPnPOff", "UPnPRule", "UPnPRuleGone", "PortalOn", "PortalOff", "OVPNOn",
   "OVPNOff", "MwanOn", "MwanOff", "Template", "TemplateGone", "Watchdog",
   "PublicHost", "Remote_Ops"}
=============================================================================
