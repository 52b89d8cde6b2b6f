------------------------------ MODULE MCInstall ------------------------------
EXTENDS InstallJob
(* One package, and two of which the other list has one.                   *)
TheLists == {<<"snmpd">>, <<"sqm-scripts", "snmpd">>}
TheManagers == {"apk", "opkg"}
TheJobs == 1 .. 2
=============================================================================
