----------------------------- MODULE WritePaths -----------------------------
(***************************************************************************)
(* The vocabulary the write handlers are written in, and the services of   *)
(* the router they act on.  A handler is a record for ConfigTx's Plan: the *)
(* packages it exports, the operations it applies, those of its rollback   *)
(* after a failed operation and after a failed probe, whether it probes    *)
(* the result, and the services it requires.                               *)
(*                                                                         *)
(* Consecutive uci commands on one package are one edit here: the first of *)
(* them to fail leaves a part of the edit staged, which is what a failed   *)
(* edit that took effect stands for.                                       *)
(***************************************************************************)
EXTENDS Naturals, Sequences

Operation(kind, on, act) == [op |-> kind, on |-> on, act |-> act, must |-> TRUE]

UciSet(p) == Operation("edit", p, "none")
UciCommit(p) == Operation("commit", p, "none")
PutBack(p) == Operation("restore", p, "none")
Initd(s, act) == Operation("svc", s, act)
IfEnabled(s, act) == Operation("svcIfEnabled", s, act)
IfWasUp(s, act) == Operation("svcIfWasUp", s, act)
PutEnabled(s) == Operation("putEnabled", s, "none")
PutRunning(s) == Operation("putRunning", s, "none")
PkgAdd(s) == Operation("pkg", s, "none")

(* The handler runs the operation and drops its error.                     *)
Try(step) == [step EXCEPT !.must = FALSE]

(* executor.Snapshot whose error ends the handler, and the one whose error *)
(* the handler drops ("snap, _ := ...").                                   *)
Export(p) == [pkg |-> p, must |-> TRUE]
ExportIfAny(p) == [pkg |-> p, must |-> FALSE]

Write(p) == <<UciSet(p), UciCommit(p)>>

(* A handler without and with a healthcheck.                               *)
Handler(snaps, steps, undo) ==
  [snaps |-> snaps, steps |-> steps, undo |-> undo, unprobe |-> undo,
   health |-> FALSE, needs |-> {}]
Checked(snaps, steps, undo) ==
  [Handler(snaps, steps, undo) EXCEPT !.health = TRUE]
Needing(services, handler) == [handler EXCEPT !.needs = services]

(* The most common shape: one package, written and reloaded, put back and  *)
(* reloaded.                                                               *)
WriteAndReload(p, s, act) ==
  Handler(<<Export(p)>>, Write(p) \o <<Initd(s, act)>>,
          <<PutBack(p), Initd(s, act)>>)
-----------------------------------------------------------------------------
AllPkgs == {"network", "wireless", "dhcp", "firewall", "dropbear", "uhttpd",
            "netgrip", "umdns", "sqm", "ddns", "snmpd", "nlbwmon", "upnpd",
            "openvpn", "mwan3", "nodogsplash", "none"}

(* Services keep their settings in the package of their name, these aside. *)
(* netifd brings up the radios as well as the wired interfaces.            *)
(* adguardhome, tailscale and netifyd have no UCI settings that NetGrip    *)
(* writes; odhcpd reads the few IPv6 options of dhcp, which are not told   *)
(* apart from the options of dnsmasq here.                                 *)
ReadsOther == [wifi |-> "wireless", dnsmasq |-> "dhcp", odhcpd |-> "none",
               miniupnpd |-> "upnpd", tailscale |-> "none",
               adguardhome |-> "none", netifyd |-> "none"]

AllSvcs == DOMAIN ReadsOther \cup
  {"network", "firewall", "dropbear", "uhttpd", "umdns", "sqm", "ddns",
   "snmpd", "nlbwmon", "openvpn", "mwan3", "nodogsplash"}

AllReads == [s \in AllSvcs |->
               IF s \in DOMAIN ReadsOther THEN ReadsOther[s] ELSE s]

AllDrives == [s \in AllSvcs |->
                IF s = "network" THEN {"network", "wifi"} ELSE {s}]

(* Networking and the services of the image run.  A gateway runs and       *)
(* enables the firewall, a dumb access point does neither.  Each of the    *)
(* two boots with every other service enabled and running, with none, and  *)
(* with one of the two without the other.                                  *)
Core == {"network", "wifi", "dropbear", "uhttpd"}
Optional == AllSvcs \ (Core \cup {"firewall"})
BootStates ==
  {[en |-> Core \cup fw \cup e, up |-> Core \cup fw \cup u] :
     fw \in {{}, {"firewall"}}, e \in {{}, Optional}, u \in {{}, Optional}}
=============================================================================
