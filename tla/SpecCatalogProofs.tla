------------------------- MODULE SpecCatalogProofs --------------------------
(***************************************************************************)
(* What the 39 specs have in common although each repeats it by hand: no   *)
(* two share a measurement, none reads what it does not ask for, and none  *)
(* uses the columns that the router's tag and the database reserve.        *)
(***************************************************************************)
EXTENDS SpecCatalog, TLAPS

\* What a Command asks for covers what its Parse reads, the attribute that
\* identifies an entity is read, and the columns of the points are free of the
\* two reserved names.
WellFormed(s) ==
  /\ s.requested # Everything => s.read \subseteq s.requested
  /\ s.key \in {".id", "name"} => s.key \in s.read
  /\ "router" \notin s.point.tags
  /\ "time" \notin s.point.tags \cup s.point.fields

Sound(s, measurement) == s.measurement = measurement /\ WellFormed(s)

Measurements ==
  [ARPTable |-> "arp_table", BGPSession |-> "bgp_session", BridgeHost |->
   "bridge_host", BridgePort |-> "bridge_port", CAPsMANInterface |->
   "capsman_interface", CAPsMANRegistration |-> "capsman_registration",
   DHCPLease |-> "dhcp_lease", DNSCache |-> "dns_cache", EoIPTunnel |->
   "eoip_tunnel", FirewallAddressList |-> "firewall_address_list",
   FirewallConnection |-> "firewall_connection", FirewallFilter |->
   "firewall_filter", FirewallMangle |-> "firewall_mangle", FirewallNAT |->
   "firewall_nat", GRETunnel |-> "gre_tunnel", HotspotActive |->
   "hotspot_active", HotspotUser |-> "hotspot_user", InterfaceStats |->
   "interface_stats", IPAddress |-> "ip_address", IPNeighbor |->
   "ip_neighbor", IPPoolUsed |-> "ip_pool_used", IPRoute |-> "ip_route",
   IPsecActivePeers |-> "ipsec_active_peers", IPsecPolicy |->
   "ipsec_policy", L2TPServer |-> "l2tp_server", Log |-> "router_log",
   Netwatch |-> "netwatch", OSPFNeighbor |-> "ospf_neighbor", PPPActive |->
   "ppp_active", PPPProfile |-> "ppp_profile", PPPSecret |-> "ppp_secret",
   QueueSimpleStats |-> "queue_simple_stats", QueueTreeStats |->
   "queue_tree_stats", SystemResource |-> "system_resource", SystemHealth
   |-> "system_health", UserActive |-> "user_active", VLANInterface |->
   "vlan_interface", WireguardPeers |-> "wireguard_peers",
   WirelessRegistration |-> "wireless_registration"]

LEMMA CatalogByName ==
  /\ DOMAIN Catalog = DOMAIN Measurements
  /\ Catalog["ARPTable"] = ARPTableSpec
  /\ Catalog["BGPSession"] = BGPSessionSpec
  /\ Catalog["BridgeHost"] = BridgeHostSpec
  /\ Catalog["BridgePort"] = BridgePortSpec
  /\ Catalog["CAPsMANInterface"] = CAPsMANInterfaceSpec
  /\ Catalog["CAPsMANRegistration"] = CAPsMANRegistrationSpec
  /\ Catalog["DHCPLease"] = DHCPLeaseSpec
  /\ Catalog["DNSCache"] = DNSCacheSpec
  /\ Catalog["EoIPTunnel"] = EoIPTunnelSpec
  /\ Catalog["FirewallAddressList"] = FirewallAddressListSpec
  /\ Catalog["FirewallConnection"] = FirewallConnectionSpec
  /\ Catalog["FirewallFilter"] = FirewallFilterSpec
  /\ Catalog["FirewallMangle"] = FirewallMangleSpec
  /\ Catalog["FirewallNAT"] = FirewallNATSpec
  /\ Catalog["GRETunnel"] = GRETunnelSpec
  /\ Catalog["HotspotActive"] = HotspotActiveSpec
  /\ Catalog["HotspotUser"] = HotspotUserSpec
  /\ Catalog["InterfaceStats"] = InterfaceStatsSpec
  /\ Catalog["IPAddress"] = IPAddressSpec
  /\ Catalog["IPNeighbor"] = IPNeighborSpec
  /\ Catalog["IPPoolUsed"] = IPPoolUsedSpec
  /\ Catalog["IPRoute"] = IPRouteSpec
  /\ Catalog["IPsecActivePeers"] = IPsecActivePeersSpec
  /\ Catalog["IPsecPolicy"] = IPsecPolicySpec
  /\ Catalog["L2TPServer"] = L2TPServerSpec
  /\ Catalog["Log"] = LogSpec
  /\ Catalog["Netwatch"] = NetwatchSpec
  /\ Catalog["OSPFNeighbor"] = OSPFNeighborSpec
  /\ Catalog["PPPActive"] = PPPActiveSpec
  /\ Catalog["PPPProfile"] = PPPProfileSpec
  /\ Catalog["PPPSecret"] = PPPSecretSpec
  /\ Catalog["QueueSimpleStats"] = QueueSimpleStatsSpec
  /\ Catalog["QueueTreeStats"] = QueueTreeStatsSpec
  /\ Catalog["SystemResource"] = SystemResourceSpec
  /\ Catalog["SystemHealth"] = SystemHealthSpec
  /\ Catalog["UserActive"] = UserActiveSpec
  /\ Catalog["VLANInterface"] = VLANInterfaceSpec
  /\ Catalog["WireguardPeers"] = WireguardPeersSpec
  /\ Catalog["WirelessRegistration"] = WirelessRegistrationSpec
BY DEF Catalog, Measurements

LEMMA MeasurementsDiffer ==
  \A a, b \in DOMAIN Measurements : Measurements[a] = Measurements[b] => a = b
BY DEF Measurements

\* Spec by spec.
LEMMA CatalogSound ==
  \A a \in DOMAIN Catalog : Sound(Catalog[a], Measurements[a])
<1> USE DEF Sound, WellFormed, StreamSpec, Point, Everything
<1>1. Sound(ARPTableSpec, "arp_table")
  BY DEF ARPTableSpec, ARPEntry
<1>2. Sound(BGPSessionSpec, "bgp_session")
  BY DEF BGPSessionSpec, BGPSession
<1>3. Sound(BridgeHostSpec, "bridge_host")
  BY DEF BridgeHostSpec, BridgeHost
<1>4. Sound(BridgePortSpec, "bridge_port")
  BY DEF BridgePortSpec, BridgePort
<1>5. Sound(CAPsMANInterfaceSpec, "capsman_interface")
  BY DEF CAPsMANInterfaceSpec, CAPsMANInterface
<1>6. Sound(CAPsMANRegistrationSpec, "capsman_registration")
  BY DEF CAPsMANRegistrationSpec, CAPsMANRegistration
<1>7. Sound(DHCPLeaseSpec, "dhcp_lease")
  BY DEF DHCPLeaseSpec, DHCPLease
<1>8. Sound(DNSCacheSpec, "dns_cache")
  BY DEF DNSCacheSpec, DNSCacheEntry
<1>9. Sound(EoIPTunnelSpec, "eoip_tunnel")
  BY DEF EoIPTunnelSpec, TunnelInterface
<1>10. Sound(FirewallAddressListSpec, "firewall_address_list")
  BY DEF FirewallAddressListSpec
<1>11. Sound(FirewallConnectionSpec, "firewall_connection")
  BY DEF FirewallConnectionSpec, FirewallConnection
<1>12. Sound(FirewallFilterSpec, "firewall_filter")
  BY DEF FirewallFilterSpec, FirewallRule
<1>13. Sound(FirewallMangleSpec, "firewall_mangle")
  BY DEF FirewallMangleSpec, FirewallRule
<1>14. Sound(FirewallNATSpec, "firewall_nat")
  BY DEF FirewallNATSpec, FirewallRule
<1>15. Sound(GRETunnelSpec, "gre_tunnel")
  BY DEF GRETunnelSpec, TunnelInterface
<1>16. Sound(HotspotActiveSpec, "hotspot_active")
  BY DEF HotspotActiveSpec, HotspotActiveUser
<1>17. Sound(HotspotUserSpec, "hotspot_user")
  BY DEF HotspotUserSpec
<1>18. Sound(InterfaceStatsSpec, "interface_stats")
  BY DEF InterfaceStatsSpec, InterfaceStats
<1>19. Sound(IPAddressSpec, "ip_address")
  BY DEF IPAddressSpec, IPAddress
<1>20. Sound(IPNeighborSpec, "ip_neighbor")
  BY DEF IPNeighborSpec, IPNeighborEntry
<1>21. Sound(IPPoolUsedSpec, "ip_pool_used")
  BY DEF IPPoolUsedSpec, IPPoolUsed
<1>22. Sound(IPRouteSpec, "ip_route")
  BY DEF IPRouteSpec, IPRoute
<1>23. Sound(IPsecActivePeersSpec, "ipsec_active_peers")
  BY DEF IPsecActivePeersSpec, IPsecActivePeer
<1>24. Sound(IPsecPolicySpec, "ipsec_policy")
  BY DEF IPsecPolicySpec, IPsecPolicy
<1>25. Sound(L2TPServerSpec, "l2tp_server")
  BY DEF L2TPServerSpec
<1>26. Sound(LogSpec, "router_log")
  BY DEF LogSpec, LogEntry
<1>27. Sound(NetwatchSpec, "netwatch")
  BY DEF NetwatchSpec, NetwatchEntry
<1>28. Sound(OSPFNeighborSpec, "ospf_neighbor")
  BY DEF OSPFNeighborSpec, OSPFNeighbor
<1>29. Sound(PPPActiveSpec, "ppp_active")
  BY DEF PPPActiveSpec, PPPActiveSession
<1>30. Sound(PPPProfileSpec, "ppp_profile")
  BY DEF PPPProfileSpec, PPPProfile
<1>31. Sound(PPPSecretSpec, "ppp_secret")
  BY DEF PPPSecretSpec, PPPSecret
<1>32. Sound(QueueSimpleStatsSpec, "queue_simple_stats")
  BY DEF QueueSimpleStatsSpec, QueueSimpleStats
<1>33. Sound(QueueTreeStatsSpec, "queue_tree_stats")
  BY DEF QueueTreeStatsSpec, QueueTreeStats
<1>34. Sound(SystemResourceSpec, "system_resource")
  BY DEF SystemResourceSpec, SystemResource
<1>35. Sound(SystemHealthSpec, "system_health")
  BY DEF SystemHealthSpec, SystemHealth
<1>36. Sound(UserActiveSpec, "user_active")
  BY DEF UserActiveSpec, UserActive
<1>37. Sound(VLANInterfaceSpec, "vlan_interface")
  BY DEF VLANInterfaceSpec, VLANInterface
<1>38. Sound(WireguardPeersSpec, "wireguard_peers")
  BY DEF WireguardPeersSpec, WireguardPeer
<1>39. Sound(WirelessRegistrationSpec, "wireless_registration")
  BY DEF WirelessRegistrationSpec, WirelessRegistration
<1> HIDE DEF Sound, WellFormed, StreamSpec, Point, Everything
<1> QED
  BY <1>1, <1>2, <1>3, <1>4, <1>5, <1>6, <1>7, <1>8, <1>9, <1>10, <1>11,
     <1>12, <1>13, <1>14, <1>15, <1>16, <1>17, <1>18, <1>19, <1>20, <1>21,
     <1>22, <1>23, <1>24, <1>25, <1>26, <1>27, <1>28, <1>29, <1>30, <1>31,
     <1>32, <1>33, <1>34, <1>35, <1>36, <1>37, <1>38, <1>39,
       CatalogByName DEF Measurements

-----------------------------------------------------------------------------
\* No two specs write under one measurement, so that none deletes or
\* overwrites the snapshots of another.
THEOREM MeasurementsDistinct ==
  \A a, b \in DOMAIN Catalog :
    Catalog[a].measurement = Catalog[b].measurement => a = b
BY CatalogByName, CatalogSound, MeasurementsDiffer DEF Sound

\* Every spec of the catalogue is well formed.
THEOREM CatalogWellFormed == \A a \in DOMAIN Catalog : WellFormed(Catalog[a])
BY CatalogSound DEF Sound
=============================================================================
