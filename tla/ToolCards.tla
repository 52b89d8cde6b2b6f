------------------------------- MODULE ToolCards -------------------------------
(***************************************************************************)
(* The tools of the Ports, Diagnostics and WAN pages: app/src/components/  *)
(* tools, diagnostics and wan.                                             *)
(***************************************************************************)
EXTENDS CardScripts, TLC

(* Wrong on purpose: when the call fails the switch is not given back.     *)
IgmpStuck ==
  Card("Igmp", {"mount"}, "none", [toggle |-> {"busy"}],
    [toggle |-> Act("busy", <<Call("setIgmp", {"show", "idle"}, {"bad"})>>)])
IgmpCard ==
  Card("Igmp", {"mount"}, "none", [toggle |-> {"busy"}],
    [toggle |-> Act("busy", <<Call("setIgmp", {"show", "idle"}, Told)>>)])

(* A slider is let go twice on a touch screen, by the pointer and by the   *)
(* touch, and each sends it.  The switch and the button that removes a     *)
(* port's own limit send no draft.  Every reading drops all the drafts.    *)
StormControls ==
  [slideAll |-> {}, toggleAll |-> {"busyAll"}, slidePort |-> {},
   removeOverride |-> {"port"}]
StormControlCard ==
  LET all == Act("busyAll", SetThenRead("setStormControlAll", "stormControl"))
      port == Keyed(Act("port", SetThenRead("setStormControl", "stormControl")))
  IN  Card("StormControl", {"mount"}, "follows", StormControls,
        [slideAll |-> Submit(all), toggleAll |-> all,
         slidePort |-> Submit(port), removeOverride |-> port])

MacAclControls == [apply |-> {"port"}, remove |-> {"port"}]
MacAclCard ==
  LET set == Keyed(Act("port", SetThenRead("setMacAcl", "macAcl")))
  IN  Card("MacAcl", {"mount"}, "own", MacAclControls,
        [apply |-> Submit(set), remove |-> set])

(* A test: its answer is the only thing shown, and another run of it waits *)
(* for this one.                                                           *)
Test(call) == Act("busy", <<Call(call, {"show", "idle"}, Told)>>)
TestCard(name, call) ==
  Card(name, {}, "none", [run |-> {"busy"}], [run |-> Test(call)])

CableTestTool == TestCard("CableTest", "cableTest")
SelfTestCard == TestCard("SelfTest", "selftest")
PingCard == TestCard("Ping", "runDiagnostics")
TracerouteCard == TestCard("Traceroute", "runDiagnostics")
LookupCard == TestCard("Lookup", "runDiagnostics")
TcpCard == TestCard("Tcp", "runDiagnostics")

(* What is blocked is only what this card has blocked.                     *)
LoopsTool ==
  Card("Loops", {}, "none", [check |-> {"busy"}, setBlock |-> {"blockBusy"}],
    [check |-> Of("apart", Test("loops")),
     setBlock |-> Keyed(Act("blockBusy",
       <<Call("blockPort", {"patch", "good", "idle"}, Told)>>))])

BounceTool ==
  Card("Bounce", {}, "none", [bounce |-> {"bouncing"}],
    [bounce |-> Keyed(Act("bouncing",
       <<Call("bouncePort", {"good", "idle"}, Told)>>))])

(* A change that failed is read again; the installation is a job.          *)
MultiWanControls ==
  [install |-> {"running"}, apply |-> {"cycle"}, makePrimary |-> {"cycle"}]
MultiWanCard ==
  LET set(call) ==
        Act("none", <<Cycle(call, {"show"}, {"last"}), ReadBack("multiwan")>>)
      install ==
        <<Call("wizardPackages", {"next"}, {"idle"}),
          Call("installJob", {"idle", "next"}, {"idle"}),
          ReadBack("multiwan")>>
  IN  Card("MultiWan", {"mount"}, "follows", MultiWanControls,
        [install |-> Act("running", install),
         apply |-> Sending(set("setMultiwan")),
         makePrimary |-> set("setMultiwanPrimary")])
=============================================================================
