------------------------------ MODULE SystemCards ------------------------------
(***************************************************************************)
(* The cards of the System and Advanced pages: app/src/components/system,  *)
(* components/advanced and ConfigBackupCard.                               *)
(***************************************************************************)
EXTENDS CardScripts, TLC

(* Three services, a cycle each; whichever ends, everything is read again  *)
(* and every field of the card filled.  Saving the panel is two requests,  *)
(* the second only for another scheme or certificate (module RestartWait), *)
(* and it reads after a failure as well.                                   *)
AccessControls ==
  [savePanelTtl |-> {"panel"}, savePanel |-> {"panel"}, saveLuci |-> {"luci"},
   saveSsh |-> {"ssh"}]
AccessCard ==
  LET checked == Pause({"good", "idle", "load"})
      one(flag, call, after) ==
        Sending(Act(flag, <<Call(call, {"next"}, Told \union after), checked>>))
      two == <<Call("setPanelSessionTtl", {"next"}, Told \union {"load"}),
               Call("setPanelHttps", {"next"}, Told \union {"load"}), checked>>
  IN  Card("Access", {"mount"}, "follows", AccessControls,
        [savePanelTtl |-> one("panel", "setPanelSessionTtl", {"load"}),
         savePanel |-> Sending(Act("panel", two)),
         saveLuci |-> one("luci", "setLuciAccess", {}),
         saveSsh |-> one("ssh", "setSshAccess", {})])

(* Text that was typed survives the reading every 10 s, the switches do not*)
(* (setEnabled, setTls); testing sends the fields without saving them.     *)
MQTTControls == [save |-> {"saving"}, test |-> {"testing"}]
MQTTSettings ==
  Card("MQTT", {"mount", "poll"}, "follows", MQTTControls,
    [save |-> Sending(Act("saving",
       <<Call("setMqtt", Finished, Told)>>)),
     test |-> Of("elsewhere", Sending(Act("testing",
       <<Call("testMqtt", {"good", "idle"}, Told)>>)))])

(* The fields are what the card shows, saving needs no answer.             *)
NtfySettings ==
  Card("Ntfy", {"mount"}, "own", [save |-> {"saving"}, test |-> {"testing"}],
    [save |-> Sending(Act("saving",
       <<Call("ntfySet", {"patch", "good", "idle"}, Told)>>)),
     test |-> Of("elsewhere", Act("testing",
       <<Call("ntfyTest", {"good", "idle"}, Told)>>))])
TelegramSettings ==
  Card("Telegram", {"mount"}, "own", [save |-> {"saving"}, test |-> {"testing"}],
    [save |-> Sending(Act("saving",
       <<Call("telegramSet", {"patch", "good", "idle"}, Told)>>)),
     test |-> Of("elsewhere", Act("testing",
       <<Call("telegramTest", {"good", "idle"}, Told)>>))])

(* Its switch follows the reading every 10 s too.                          *)
NetPulseControls == [save |-> {"saving"}, restart |-> {"restarting"}]
NetPulseCard ==
  Card("NetPulse", {"mount", "poll"}, "follows", NetPulseControls,
    [save |-> Sending(Act("saving", <<Call("setNetPulse", Finished, Told)>>)),
     restart |-> Of("elsewhere", Act("restarting",
       <<Call("restartAgent", {"good", "idle"}, Told)>>))])

(* Upgrading everything is one run of a request for each package (two      *)
(* here); when one of them fails the list is left as it was.               *)
PackagesControls ==
  [refresh |-> {"refreshing"}, upgradeOne |-> {"cycle", "one"},
   upgradeAll |-> {"cycle", "one"}]
PackagesCard ==
  Card("Packages", {"mount"}, "none", PackagesControls,
    [refresh |-> Act("refreshing",
       <<Call("packages", {"show", "idle"}, Told)>>),
     upgradeOne |-> Act("one", <<Call("upgradePackage", Finished, Told)>>),
     upgradeAll |-> Act("none", <<CyclePart("upgradePackage"),
                                  Cycle("upgradePackage", {"show"}, {})>>)])

(* Installing owut follows the job; then, not waited for, a check.         *)
UpdateControls == [recheck |-> {"checking"}, installOwut |-> {"installing"}]
UpdateCard ==
  Card("Update", {"mount"}, "none", UpdateControls,
    [recheck |-> Act("checking",
       <<Call("updateCheck", {"show", "idle"}, {"idle"})>>),
     installOwut |-> Act("installing",
       <<Call("wizardPackages", {"next"}, Told),
         Call("installJob", {"good", "idle", "load"}, Told)>>)])

(* The schedule of the self-update; a failure is swallowed.                *)
SelfUpdateControls == [recheck |-> {"checking"}, save |-> {"saving"}]
SelfUpdateCard ==
  Card("SelfUpdate", {"mount"}, "none", SelfUpdateControls,
    [recheck |-> Of("apart", Act("checking",
       <<Call("selfUpdateCheck", {"idle"}, {"idle"})>>)),
     save |-> Act("saving",
       <<Call("selfUpdateScheduleSave", {"next"}, {"idle"}),
         Call("selfUpdateSchedule", {"show", "good", "idle"}, {"idle"})>>)])

SecurityCard ==
  Card("Security", {}, "own", [submit |-> {"busy"}],
    [submit |-> Of("elsewhere", Submit(Act("busy",
       <<Call("setPassword", {"good", "idle"}, Told)>>)))])

ModeCard ==
  Card("Mode", {"mount"}, "none", [switchMode |-> {"cycle"}],
    [switchMode |-> Act("none", ShownCycle("setMode", {}))])

(* One variable holds the switch being set; the reading after it tells of  *)
(* its own failure too.                                                    *)
RemoteAccessCard ==
  Card("RemoteAccess", {"mount"}, "none", [toggle |-> {"key"}],
    [toggle |-> Keyed(Act("key",
       <<Call("setRemoteAccess", {"next"}, Told),
         Call("remoteAccess", {"show", "idle"}, Told)>>))])
OffloadCard ==
  Card("Offload", {"mount"}, "none", [toggle |-> {"busy"}],
    [toggle |-> Act("busy",
       <<Call("setOffload", {"next"}, Told),
         Call("offload", {"show", "idle"}, Told)>>)])

(* The fields stand for what was saved; a push sends what is stored.       *)
ConfigBackupCard ==
  Card("ConfigBackup", {"mount"}, "own",
    [save |-> {"saving"}, push |-> {"pushing"}],
    [save |-> Sending(Act("saving",
       <<Call("pushConfigSet", {"patch", "good", "idle"}, Told)>>)),
     push |-> Of("elsewhere", Act("pushing",
       <<Call("pushSnapshot", {"good", "idle"}, Told)>>))])

(* The switch sends the fields along with it, and each answer fills them.  *)
SnmpControls == [install |-> {"installing"}, toggle |-> {"busy"},
                 save |-> {"busy"}]
SnmpCard ==
  LET save == Act("busy", <<Call("setSnmp", Finished, Told)>>)
  IN  Card("Snmp", {"mount"}, "follows", SnmpControls,
        [install |-> Act("installing",
           <<Call("wizardPackages", {"next"}, Told),
             Call("installJob", {"good", "next"}, Told),
             Call("snmp", {"show", "idle"}, {"idle"})>>),
         toggle |-> Sending(save), save |-> Sending(save)])
=============================================================================
