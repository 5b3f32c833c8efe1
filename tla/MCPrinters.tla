----------------------------- MODULE MCPrinters -----------------------------
(***************************************************************************)
(* The printers of a network: how the Agent finds them, and what the API   *)
(* makes of the levels it reads on one.  Discovery and Supplies share no   *)
(* state and are explored one at a time, each while the other is as at the *)
(* start.                                                                  *)
(*                                                                         *)
(* Discovery: addresses of four bits, so that a /28 network has prefix 0   *)
(* and a /31 prefix 3.  Supplies: of three levels the top one is a jump    *)
(* from the others, and a replacement at the middle one is premature.      *)
(***************************************************************************)
EXTENDS Discovery, Supplies

MCLocalNetworks == <<Cidr(5, 2)>>
MCConfigurations ==
    {<<>>,                                   \* the local network: 5, 6
     <<Cidr(6, 2), AddressRange(6, 7)>>,     \* overlap: 5, 6, 7
     <<Cidr(9, 3)>>,                         \* point to point: 8, 9
     <<AddressRange(5, 4), Single(15)>>,     \* an empty range, the last address
     <<Cidr(3, 1)>>,                         \* six hosts: refused
     <<AddressRange(5, 9)>>}                 \* five hosts: refused
MCInventories == {{}, {7, 9}}

Host(snmp, ipp, ports, multicast, oui) ==
    [snmp |-> snmp, ipp |-> ipp, ports |-> ports, multicast |-> multicast, oui |-> oui]

MCEvidence ==
    [a \in 0..15 |->
        CASE a = 5 -> Host({"mibSupplies"}, {"ipp"}, {"port9100"}, {}, {"ouiInfra"})
          [] a = 6 -> Host({"infraInSysDescr"}, {"ipp"}, {}, {}, {})
          [] a = 7 -> Host({"mibCounters"}, {}, {}, {"mdns"}, {})
          [] a = 9 -> Host({"vendorInSysDescr"}, {}, {"port9100"}, {"wsDiscovery"}, {"ouiPrinter"})
          [] OTHER -> Host({}, {}, {}, {}, {})]

MCKinds == {"stock", "part", "replace", "read", "untrue", "swap", "forecast"}
MCQuota(stock, part, replace, read, untrue_, swap, forecast) ==
    [k \in MCKinds |-> CASE k = "stock" -> stock [] k = "part" -> part [] k = "replace" -> replace
                         [] k = "read" -> read [] k = "untrue" -> untrue_ [] k = "swap" -> swap
                         [] k = "forecast" -> forecast]
NothingHappens == MCQuota(0, 0, 0, 0, 0, 0, 0)
\* The stock, without and with a replacement; readings with two forecasts,
\* two swaps, a replacement, an untrue reading.
MCQuotas == {MCQuota(3, 1, 0, 0, 0, 0, 0), MCQuota(0, 3, 1, 0, 0, 0, 0), MCQuota(1, 1, 1, 0, 0, 0, 0),
             MCQuota(0, 0, 0, 5, 0, 1, 2), MCQuota(0, 0, 0, 6, 0, 2, 0),
             MCQuota(0, 0, 1, 4, 0, 1, 1), MCQuota(0, 0, 0, 4, 1, 1, 1), NothingHappens}

DiscoveryMix == quota = NothingHappens /\ SupplyInit /\ Next /\ UNCHANGED stockAndSupplyVars
SupplyMix == Init /\ SupplyNext /\ UNCHANGED vars

PrintersInit == Init /\ SupplyInit
PrintersSpec ==
    /\ PrintersInit
    /\ [][DiscoveryMix \/ SupplyMix]_<<vars, stockAndSupplyVars>>
    /\ Fairness
=============================================================================
