------------------------------ MODULE Discovery ------------------------------
(***************************************************************************)
(* crates/quicview-session/src/discovery.rs: MemoryDiscovery, this host's  *)
(* advertisement among the services of a simulated LAN.  The services are  *)
(* listed by address, one for each.                                        *)
(***************************************************************************)
EXTENDS Naturals

CONSTANTS
  SocketAddrs,     \* addresses of services
  Here,            \* host names: this host's
  There,           \* and that of any other
  NoRecord         \* advertised: None

Records == [host_name : {Here, There}, addr : SocketAddrs]
ASSUME DiscoveryAssumption == Here # There /\ NoRecord \notin Records

VARIABLES
  services,        \* the records that discover() returns
  advertised,      \* the record that stop_advertise takes back
  lan              \* history: the records of the hosts that are there to be found

discoveryVars == <<services, advertised, lan>>

Record(name, addr) == [host_name |-> name, addr |-> addr]
NotAt(records, addr) == {r \in records : r.addr # addr}

DiscoveryTypeOK ==
  /\ services \subseteq Records
  /\ advertised \in Records \cup {NoRecord}
  /\ lan \subseteq Records

DiscoveryInit ==
  /\ services = {}
  /\ advertised = NoRecord
  /\ lan = {}

-----------------------------------------------------------------------------
\* Mutant: a host that is advertised already is left as it is.
AdvertiseOnce(addr) ==
  /\ advertised' = Record(Here, addr)
  /\ services' = IF advertised = NoRecord
                 THEN NotAt(services, addr) \cup {Record(Here, addr)} ELSE services
  /\ lan' = NotAt(lan, addr) \cup {Record(Here, addr)}

\* The record of an earlier advertisement stays listed.
Advertise(addr) ==
  /\ advertised' = Record(Here, addr)
  /\ services' = NotAt(services, addr) \cup {Record(Here, addr)}
  /\ lan' = NotAt(lan, addr) \cup {Record(Here, addr)}

\* Whatever is listed at the advertised address goes, and nothing else; this
\* host is there no more, any other still is.
StopAdvertise ==
  /\ advertised # NoRecord
  /\ services' = NotAt(services, advertised.addr)
  /\ advertised' = NoRecord
  /\ lan' = {r \in lan : r.host_name # Here}

InjectService(addr) ==
  /\ services' = NotAt(services, addr) \cup {Record(There, addr)}
  /\ lan' = NotAt(lan, addr) \cup {Record(There, addr)}
  /\ UNCHANGED advertised

RemoveService(addr) ==
  /\ services' = NotAt(services, addr)
  /\ lan' = NotAt(lan, addr)
  /\ UNCHANGED advertised

DiscoveryNext ==
  \/ StopAdvertise
  \/ \E addr \in SocketAddrs :
       Advertise(addr) \/ InjectService(addr) \/ RemoveService(addr)

DiscoverySpec == DiscoveryInit /\ [][DiscoveryNext]_discoveryVars

-----------------------------------------------------------------------------
(* Properties                                                              *)

\* The last advertisement is found until it is stopped, or removed or replaced at
\* its address; another host is found only while it is there; and an address has
\* one record (discovery.rs:54-86).  DiscoversTheLan says the rest.
FoundAsAdvertised ==
  /\ advertised \in lan => advertised \in services
  /\ \A r \in services : r.host_name # Here => r \in lan
  /\ \A r, s \in services : r.addr = s.addr => r = s

\* "Discover all QuicView services on the LAN." (discovery.rs:25), of which a host
\* is no more after "Stop advertising." (discovery.rs:22), and all others still are.
DiscoversTheLan == services = lan
=============================================================================
