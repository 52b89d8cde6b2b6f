------------------------------- MODULE MCCards -------------------------------
EXTENDS CardDiscipline, Api, ServiceCards, LanCards, PortCards, WifiCards,
        SystemCards, ClientCards, PageCards, ToolCards

AllCards ==
  {Ipv6Card, SqmCard, TailscaleCard, WireguardCard, OpenvpnCard, DdnsCard,
   NlbwmonCard, BanipCard, MdnsCard, AdguardCard, LanServicesCard,
   LanConfigCard, DnsCard, ReservationsCard, PortForwardCard, TrafficRulesCard,
   PoECard, VLANTableCard, EthPortsCard, PhysConfigSection, StpBridgeCard, StpPortsCard,
   PortIsolationCard, PortSecurityCard, MirrorCard, RateLimitCard, PortTemplatesCard,
   LagCard, RoleProfilesCard, SwitchModesCard,
   WifiPageCard, GuestWifiCard, IotWifiCard, CaptivePortalPanel,
   WifiScheduleCard, WifiChanCard,
   AccessCard, MQTTSettings, NtfySettings, TelegramSettings, NetPulseCard,
   PackagesCard, UpdateCard, SelfUpdateCard, SecurityCard, ModeCard,
   RemoteAccessCard, OffloadCard, ConfigBackupCard, SnmpCard,
   ClientsCard, DetailClientModal, ParentalSection, QuotaSection,
   BanipPageCard, ListCard, UpnpPageCard, FleetPageCard, DpiPageCard,
   WanPageCard, StoragePageCard,
   IgmpCard, StormControlCard, MacAclCard, CableTestTool, SelfTestCard,
   PingCard, TracerouteCard, LookupCard, TcpCard, LoopsTool, BounceTool,
   MultiWanCard, WifiQr, QrData}

(* The calls are those of api.ts, and nothing but the effects follows.     *)
ASSUME ScriptsCallTheApi ==
  \A c \in Catalogue : \A name \in DOMAIN c.acts :
    \A i \in DOMAIN c.acts[name].steps :
      c.acts[name].steps[i].call \in ApiCalls
=============================================================================
