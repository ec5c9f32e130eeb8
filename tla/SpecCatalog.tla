---------------------------- MODULE SpecCatalog ----------------------------
(***************************************************************************)
(* The stream specs of internal/spec, with what they take from             *)
(* internal/domain: one record per spec, which says what its Command asks  *)
(* of the router and what its Parse makes of a sentence.                   *)
(***************************************************************************)

\* The columns of a point that a domain type makes of itself.
Point(tags, fields) == [tags |-> tags, fields |-> fields]

\* measurement: what Measurement returns
\* follow:      the router reports every change, with =.dead=yes for a removal
\*              (otherwise it repeats its whole table at an interval)
\* key:         the attribute that identifies the entity in the cache key, or
\*              the literal that Parse uses for a singleton
\* point:       the columns of the point
\* requested:   the attributes in =.proplist
\* read:        the attributes that Parse reads
StreamSpec(measurement, follow, key, point, requested, read) ==
  [measurement |-> measurement, follow |-> follow, key |-> key,
   point |-> point, requested |-> requested, read |-> read]

\* The value of "requested" for a Command without =.proplist.
Everything == {"*"}

-----------------------------------------------------------------------------
(* internal/domain: ToTags and ToFields.                                   *)

BGPSession ==
  Point({"name", "remote_address", "remote_as", "state"},
        {"local_role", "remote_role", "uptime", "prefix_count",
         "established_count", "disabled"})

BridgeHost ==
  Point({"bridge", "interface", "mac_address"},
        {"vid", "on_local", "disabled"})

BridgePort ==
  Point({"bridge", "interface", "role", "status"},
        {"port_number", "priority", "edge", "learning", "disabled", "comment"})

VLANInterface ==
  Point({"name", "vlan_id", "interface"},
        {"mtu", "running", "disabled", "comment"})

DHCPLease ==
  Point({"address", "mac_address", "server"},
        {"client_id", "lease_time", "disabled", "block_access", "rate_limit",
         "comment"})

FirewallRule ==
  Point({"chain", "action", "comment"},
        {"bytes", "packets", "disabled", "src_address", "dst_address",
         "protocol", "dst_port"})

FirewallConnection ==
  Point({"protocol", "src_address", "dst_address"},
        {"reply_src", "reply_dst", "tcp_state", "timeout", "assured"})

HotspotActiveUser ==
  Point({"user", "address", "mac_address"},
        {"uptime", "bytes_in", "bytes_out"})

InterfaceStats ==
  Point({"name", "type"},
        {"rx_byte", "tx_byte", "rx_packet", "tx_packet", "rx_drop", "tx_drop",
         "rx_error", "tx_error"})

\* Faulty variant: the router's time under its own name.
LogEntryTimed == Point({"topics"}, {"time", "message"})

LogEntry ==
  Point({"topics"},
        {"log_time", "message"})

SystemHealth ==
  Point({"name", "type"},
        {"value"})

WirelessRegistration ==
  Point({"interface", "mac_address"},
        {"signal_strength", "tx_rate", "rx_rate", "uptime", "last_activity",
         "bytes", "packets"})

QueueTreeStats ==
  Point({"name", "parent", "packet_mark"},
        {"rate", "packet_rate", "queued_bytes", "queued_packets", "bytes",
         "packets", "dropped", "max_limit", "limit_at"})

IPAddress ==
  Point({"address", "interface"},
        {"network", "disabled", "comment"})

IPRoute ==
  Point({"dst_address", "gateway", "routing_table"},
        {"distance", "pref_src", "scope", "disabled", "comment"})

ARPEntry ==
  Point({"address", "mac_address", "interface"},
        {"published", "disabled", "comment"})

IPNeighborEntry ==
  Point({"interface", "identity", "mac_address"},
        {"address", "platform", "board", "version", "interface_name"})

OSPFNeighbor ==
  Point({"instance", "router_id", "address", "interface", "state"},
        {"priority", "state_changes", "adjacency"})

PPPActiveSession ==
  Point({"name", "service", "caller_id"},
        {"address", "uptime", "encoding"})

PPPProfile ==
  Point({"name"},
        {"local_address", "remote_address", "rate_limit", "address_list",
         "dns_server", "session_timeout", "idle_timeout"})

PPPSecret ==
  Point({"name", "service", "profile"},
        {"caller_id", "local_address", "remote_address", "routes",
         "limit_bytes_in", "limit_bytes_out", "disabled"})

QueueSimpleStats ==
  Point({"name", "target"},
        {"rate", "packet_rate", "queued_bytes", "queued_packets", "bytes",
         "packets", "dropped", "total_rate", "total_bytes", "total_packets",
         "total_dropped", "total_queued_bytes"})

CAPsMANInterface ==
  Point({"name", "radio_mac", "current_state"},
        {"radio_name", "master_iface", "bound", "inactive", "disabled",
         "comment"})

CAPsMANRegistration ==
  Point({"interface", "mac_address"},
        {"signal_strength", "tx_rate", "rx_rate", "uptime", "bytes",
         "packets"})

IPPoolUsed ==
  Point({"pool", "address", "owner"},
        {"info"})

DNSCacheEntry ==
  Point({"name", "record_type"},
        {"address", "ttl"})

NetwatchEntry ==
  Point({"host", "status", "check_type"},
        {"check_interval", "timeout", "since", "disabled", "comment"})

UserActive ==
  Point({"name", "address", "via"},
        {"when", "group"})

SystemResource ==
  Point({"board_name", "version"},
        {"cpu_load", "free_memory", "total_memory", "free_hdd_space",
         "total_hdd_space", "uptime"})

IPsecActivePeer ==
  Point({"remote_address", "local_address", "state"},
        {"side", "uptime", "rx_bytes", "tx_bytes", "rx_packets", "tx_packets",
         "responder"})

IPsecPolicy ==
  Point({"peer", "src_address", "dst_address", "action"},
        {"protocol", "level", "disabled", "comment"})

WireguardPeer ==
  Point({"interface", "endpoint_addr"},
        {"public_key", "endpoint_port", "allowed_address", "last_handshake",
         "rx", "tx", "disabled", "comment"})

TunnelInterface ==
  Point({"name", "tunnel_type", "remote_address"},
        {"local_address", "running", "disabled", "mtu", "comment"})

-----------------------------------------------------------------------------
(* internal/spec: Command, Measurement and Parse.                          *)

ARPTableSpec ==
  StreamSpec("arp_table", TRUE, ".id",
    ARPEntry,
    {".id", "address", "mac-address", "interface", "published", "disabled",
     "comment"},
    {".id", "address", "mac-address", "interface", "published", "disabled",
     "comment"})

BGPSessionSpec ==
  StreamSpec("bgp_session", TRUE, ".id",
    BGPSession,
    {".id", "name", "remote.address", "remote.as", "local.role",
     "remote.role", "state", "uptime", "prefix-count", "established",
     "disabled"},
    {".id", "name", "remote.address", "remote.as", "local.role",
     "remote.role", "state", "uptime", "prefix-count", "established",
     "disabled"})

BridgeHostSpec ==
  StreamSpec("bridge_host", TRUE, ".id",
    BridgeHost,
    {".id", "bridge", "interface", "mac-address", "vid", "on-interface",
     "local", "disabled"},
    {".id", "bridge", "interface", "mac-address", "vid", "local", "disabled"})

BridgePortSpec ==
  StreamSpec("bridge_port", TRUE, ".id",
    BridgePort,
    {".id", "bridge", "interface", "role", "status", "port-number",
     "priority", "edge", "learn", "disabled", "comment"},
    {".id", "bridge", "interface", "role", "status", "port-number",
     "priority", "edge", "learn", "disabled", "comment"})

CAPsMANInterfaceSpec ==
  StreamSpec("capsman_interface", TRUE, ".id",
    CAPsMANInterface,
    {".id", "name", "radio-name", "radio-mac", "master-interface",
     "current-state", "bound", "inactive", "disabled", "comment"},
    {".id", "name", "radio-name", "radio-mac", "master-interface",
     "current-state", "bound", "inactive", "disabled", "comment"})

CAPsMANRegistrationSpec ==
  StreamSpec("capsman_registration", TRUE, ".id",
    CAPsMANRegistration,
    {".id", "interface", "mac-address", "signal-strength", "tx-rate",
     "rx-rate", "uptime", "bytes", "packets"},
    {".id", "interface", "mac-address", "signal-strength", "tx-rate",
     "rx-rate", "uptime", "bytes", "packets"})

DHCPLeaseSpec ==
  StreamSpec("dhcp_lease", TRUE, ".id",
    DHCPLease,
    {".id", "address", "mac-address", "client-id", "server", "lease-time",
     "comment", "disabled", "block-access", "rate-limit", "routes",
     "address-lists", "dhcp-option", "dhcp-option-set", "always-broadcast"},
    {".id", "address", "mac-address", "client-id", "server", "lease-time",
     "comment", "disabled", "block-access", "rate-limit", "routes",
     "address-lists", "dhcp-option", "dhcp-option-set", "always-broadcast"})

DNSCacheSpec ==
  StreamSpec("dns_cache", TRUE, ".id",
    DNSCacheEntry,
    {".id", "name", "address", "ttl", "type"},
    {".id", "name", "address", "ttl", "type"})

EoIPTunnelSpec ==
  StreamSpec("eoip_tunnel", TRUE, ".id",
    TunnelInterface,
    {".id", "name", "remote-address", "local-address", "running", "disabled",
     "mtu", "comment"},
    {".id", "name", "remote-address", "local-address", "running", "disabled",
     "mtu", "comment"})

FirewallAddressListSpec ==
  StreamSpec("firewall_address_list", TRUE, ".id",
    Point({"list", "address"},
          {"timeout", "disabled", "dynamic", "comment"}),
    {".id", "list", "address", "timeout", "disabled", "dynamic", "comment",
     "creation-time"},
    {".id", "list", "address", "timeout", "disabled", "dynamic", "comment"})

FirewallConnectionSpec ==
  StreamSpec("firewall_connection", TRUE, ".id",
    FirewallConnection,
    {".id", "protocol", "src-address", "dst-address", "reply-src-address",
     "reply-dst-address", "tcp-state", "timeout", "assured"},
    {".id", "protocol", "src-address", "dst-address", "reply-src-address",
     "reply-dst-address", "tcp-state", "timeout", "assured"})

FirewallFilterSpec ==
  StreamSpec("firewall_filter", FALSE, ".id",
    FirewallRule,
    {".id", "chain", "action", "comment", "bytes", "packets", "disabled",
     "src-address", "dst-address", "protocol", "dst-port", "src-port",
     "in-interface", "out-interface", "connection-state"},
    {".id", "chain", "action", "comment", "bytes", "packets", "disabled",
     "src-address", "dst-address", "protocol", "dst-port", "src-port",
     "in-interface", "out-interface", "connection-state"})

FirewallMangleSpec ==
  StreamSpec("firewall_mangle", FALSE, ".id",
    FirewallRule,
    {".id", "chain", "action", "comment", "bytes", "packets", "disabled",
     "src-address", "dst-address", "protocol", "dst-port", "src-port",
     "in-interface", "out-interface", "connection-state"},
    {".id", "chain", "action", "comment", "bytes", "packets", "disabled",
     "src-address", "dst-address", "protocol", "dst-port", "src-port",
     "in-interface", "out-interface", "connection-state"})

FirewallNATSpec ==
  StreamSpec("firewall_nat", FALSE, ".id",
    FirewallRule,
    {".id", "chain", "action", "comment", "bytes", "packets", "disabled",
     "src-address", "dst-address", "protocol", "dst-port", "src-port",
     "in-interface", "out-interface", "connection-state"},
    {".id", "chain", "action", "comment", "bytes", "packets", "disabled",
     "src-address", "dst-address", "protocol", "dst-port", "src-port",
     "in-interface", "out-interface", "connection-state"})

\* Faulty variant: the measurement of the file it was copied from.
GRETunnelCopied ==
  StreamSpec("eoip_tunnel", TRUE, ".id", TunnelInterface, {".id", "name"}, {".id", "name"})

GRETunnelSpec ==
  StreamSpec("gre_tunnel", TRUE, ".id",
    TunnelInterface,
    {".id", "name", "remote-address", "local-address", "running", "disabled",
     "mtu", "comment"},
    {".id", "name", "remote-address", "local-address", "running", "disabled",
     "mtu", "comment"})

HotspotActiveSpec ==
  StreamSpec("hotspot_active", TRUE, ".id",
    HotspotActiveUser,
    {".id", "user", "address", "mac-address", "uptime", "bytes-in",
     "bytes-out"},
    {".id", "user", "address", "mac-address", "uptime", "bytes-in",
     "bytes-out"})

HotspotUserSpec ==
  StreamSpec("hotspot_user", TRUE, ".id",
    Point({"server", "name"},
          {"profile", "mac_address", "limit_uptime", "limit_bytes_total",
           "disabled", "comment"}),
    {".id", "server", "name", "profile", "mac-address", "limit-uptime",
     "limit-bytes-total", "disabled", "comment"},
    {".id", "server", "name", "profile", "mac-address", "limit-uptime",
     "limit-bytes-total", "disabled", "comment"})

InterfaceStatsSpec ==
  StreamSpec("interface_stats", TRUE, "name",
    InterfaceStats,
    {"name", "type", "rx-byte", "tx-byte", "rx-packet", "tx-packet",
     "rx-drop", "tx-drop", "rx-error", "tx-error"},
    {"name", "type", "rx-byte", "tx-byte", "rx-packet", "tx-packet",
     "rx-drop", "tx-drop", "rx-error", "tx-error"})

IPAddressSpec ==
  StreamSpec("ip_address", TRUE, ".id",
    IPAddress,
    {".id", "address", "network", "interface", "disabled", "comment"},
    {".id", "address", "network", "interface", "disabled", "comment"})

IPNeighborSpec ==
  StreamSpec("ip_neighbor", TRUE, ".id",
    IPNeighborEntry,
    {".id", "interface", "address", "mac-address", "identity", "platform",
     "board", "version", "interface-name"},
    {".id", "interface", "address", "mac-address", "identity", "platform",
     "board", "version", "interface-name"})

IPPoolUsedSpec ==
  StreamSpec("ip_pool_used", TRUE, ".id",
    IPPoolUsed,
    {".id", "pool", "address", "owner", "info"},
    {".id", "pool", "address", "owner", "info"})

IPRouteSpec ==
  StreamSpec("ip_route", TRUE, ".id",
    IPRoute,
    {".id", "dst-address", "gateway", "distance", "routing-table", "pref-src",
     "scope", "target-scope", "disabled", "comment"},
    {".id", "dst-address", "gateway", "distance", "routing-table", "pref-src",
     "scope", "target-scope", "disabled", "comment"})

IPsecActivePeersSpec ==
  StreamSpec("ipsec_active_peers", TRUE, ".id",
    IPsecActivePeer,
    {".id", "remote-address", "local-address", "state", "side", "uptime",
     "rx-bytes", "tx-bytes", "rx-packets", "tx-packets", "dynamic-address",
     "responder"},
    {".id", "remote-address", "local-address", "state", "side", "uptime",
     "rx-bytes", "tx-bytes", "rx-packets", "tx-packets", "dynamic-address",
     "responder"})

IPsecPolicySpec ==
  StreamSpec("ipsec_policy", TRUE, ".id",
    IPsecPolicy,
    {".id", "peer", "src-address", "dst-address", "protocol", "action",
     "level", "disabled", "comment"},
    {".id", "peer", "src-address", "dst-address", "protocol", "action",
     "level", "disabled", "comment"})

L2TPServerSpec ==
  StreamSpec("l2tp_server", FALSE, "server",
    Point({"enabled"},
          {"enabled", "authentication", "default_profile"}),
    Everything,
    {"enabled", "authentication", "default-profile"})

LogSpec ==
  StreamSpec("router_log", TRUE, ".id",
    LogEntry,
    {".id", "time", "topics", "message"},
    {".id", "time", "topics", "message"})

NetwatchSpec ==
  StreamSpec("netwatch", TRUE, ".id",
    NetwatchEntry,
    {".id", "host", "status", "interval", "timeout", "since", "disabled",
     "comment", "type"},
    {".id", "host", "status", "interval", "timeout", "since", "comment",
     "disabled", "type"})

OSPFNeighborSpec ==
  StreamSpec("ospf_neighbor", TRUE, ".id",
    OSPFNeighbor,
    {".id", "instance", "router-id", "address", "interface", "priority",
     "state", "state-changes", "adjacency"},
    {".id", "instance", "router-id", "address", "interface", "priority",
     "state", "state-changes", "adjacency"})

PPPActiveSpec ==
  StreamSpec("ppp_active", TRUE, ".id",
    PPPActiveSession,
    {".id", "name", "service", "caller-id", "address", "uptime", "encoding"},
    {".id", "name", "service", "caller-id", "address", "uptime", "encoding"})

PPPProfileSpec ==
  StreamSpec("ppp_profile", TRUE, ".id",
    PPPProfile,
    {".id", "name", "local-address", "remote-address", "rate-limit",
     "address-list", "dns-server", "on-up", "on-down", "session-timeout",
     "idle-timeout", "comment"},
    {".id", "name", "local-address", "remote-address", "rate-limit",
     "address-list", "dns-server", "on-up", "on-down", "session-timeout",
     "idle-timeout", "comment"})

PPPSecretSpec ==
  StreamSpec("ppp_secret", TRUE, ".id",
    PPPSecret,
    {".id", "name", "service", "caller-id", "profile", "local-address",
     "remote-address", "routes", "limit-bytes-in", "limit-bytes-out",
     "disabled", "comment"},
    {".id", "name", "service", "caller-id", "profile", "local-address",
     "remote-address", "routes", "limit-bytes-in", "limit-bytes-out",
     "disabled", "comment"})

QueueSimpleStatsSpec ==
  StreamSpec("queue_simple_stats", FALSE, "name",
    QueueSimpleStats,
    {"name", "target", "rate", "packet-rate", "queued-bytes",
     "queued-packets", "bytes", "packets", "dropped", "total-rate",
     "total-bytes", "total-packets", "total-dropped", "total-queued-bytes"},
    {"name", "target", "rate", "packet-rate", "queued-bytes",
     "queued-packets", "bytes", "packets", "dropped", "total-rate",
     "total-bytes", "total-packets", "total-dropped", "total-queued-bytes"})

QueueTreeStatsSpec ==
  StreamSpec("queue_tree_stats", FALSE, "name",
    QueueTreeStats,
    {"name", "parent", "packet-mark", "rate", "packet-rate", "queued-bytes",
     "queued-packets", "bytes", "packets", "dropped", "max-limit", "limit-at",
     "burst-limit"},
    {"name", "parent", "packet-mark", "rate", "packet-rate", "queued-bytes",
     "queued-packets", "bytes", "packets", "dropped", "max-limit", "limit-at",
     "burst-limit"})

SystemResourceSpec ==
  StreamSpec("system_resource", FALSE, "system",
    SystemResource,
    {"cpu-load", "free-memory", "total-memory", "free-hdd-space",
     "total-hdd-space", "uptime", "board-name", "version"},
    {"cpu-load", "free-memory", "total-memory", "free-hdd-space",
     "total-hdd-space", "uptime", "board-name", "version"})

SystemHealthSpec ==
  StreamSpec("system_health", FALSE, "name",
    SystemHealth,
    {"name", "value", "type"},
    {"name", "value", "type"})

UserActiveSpec ==
  StreamSpec("user_active", TRUE, ".id",
    UserActive,
    {".id", "name", "address", "via", "when", "group"},
    {".id", "name", "address", "via", "when", "group"})

VLANInterfaceSpec ==
  StreamSpec("vlan_interface", TRUE, ".id",
    VLANInterface,
    {".id", "name", "vlan-id", "interface", "mtu", "running", "disabled",
     "comment"},
    {".id", "name", "vlan-id", "interface", "mtu", "running", "disabled",
     "comment"})

WireguardPeersSpec ==
  StreamSpec("wireguard_peers", TRUE, ".id",
    WireguardPeer,
    {".id", "interface", "public-key", "endpoint-address", "endpoint-port",
     "allowed-address", "last-handshake", "rx", "tx", "disabled", "comment"},
    {".id", "interface", "public-key", "endpoint-address", "endpoint-port",
     "allowed-address", "last-handshake", "rx", "tx", "disabled", "comment"})

WirelessRegistrationSpec ==
  StreamSpec("wireless_registration", TRUE, ".id",
    WirelessRegistration,
    {".id", "interface", "mac-address", "signal-strength", "tx-rate",
     "rx-rate", "uptime", "last-activity", "bytes", "packets"},
    {".id", "interface", "mac-address", "signal-strength", "tx-rate",
     "rx-rate", "uptime", "last-activity", "bytes", "packets"})

\* The specs that a collector can run, by name.
Catalog ==
  [ARPTable |-> ARPTableSpec, BGPSession |-> BGPSessionSpec, BridgeHost |->
   BridgeHostSpec, BridgePort |-> BridgePortSpec, CAPsMANInterface |->
   CAPsMANInterfaceSpec, CAPsMANRegistration |-> CAPsMANRegistrationSpec,
   DHCPLease |-> DHCPLeaseSpec, DNSCache |-> DNSCacheSpec, EoIPTunnel |->
   EoIPTunnelSpec, FirewallAddressList |-> FirewallAddressListSpec,
   FirewallConnection |-> FirewallConnectionSpec, FirewallFilter |->
   FirewallFilterSpec, FirewallMangle |-> FirewallMangleSpec, FirewallNAT |->
   FirewallNATSpec, GRETunnel |-> GRETunnelSpec, HotspotActive |->
   HotspotActiveSpec, HotspotUser |-> HotspotUserSpec, InterfaceStats |->
   InterfaceStatsSpec, IPAddress |-> IPAddressSpec, IPNeighbor |->
   IPNeighborSpec, IPPoolUsed |-> IPPoolUsedSpec, IPRoute |-> IPRouteSpec,
   IPsecActivePeers |-> IPsecActivePeersSpec, IPsecPolicy |->
   IPsecPolicySpec, L2TPServer |-> L2TPServerSpec, Log |-> LogSpec, Netwatch
   |-> NetwatchSpec, OSPFNeighbor |-> OSPFNeighborSpec, PPPActive |->
   PPPActiveSpec, PPPProfile |-> PPPProfileSpec, PPPSecret |-> PPPSecretSpec,
   QueueSimpleStats |-> QueueSimpleStatsSpec, QueueTreeStats |->
   QueueTreeStatsSpec, SystemResource |-> SystemResourceSpec, SystemHealth
   |-> SystemHealthSpec, UserActive |-> UserActiveSpec, VLANInterface |->
   VLANInterfaceSpec, WireguardPeers |-> WireguardPeersSpec,
   WirelessRegistration |-> WirelessRegistrationSpec]

=============================================================================
