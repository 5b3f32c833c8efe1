----------------------------- MODULE Discovery ------------------------------
(***************************************************************************)
(* One sweep of the Agent over the network: which addresses it probes, how *)
(* the probes share the DiscoveryConcurrency slots, and which hosts it     *)
(* reports as printers.                                                    *)
(*                                                                         *)
(*   NetworkRange             networks to addresses, in unsigned integers  *)
(*   PrinterDiscoveryService  one task per address, a semaphore, a channel *)
(*                            of devices and the loop that reads it        *)
(*   DeviceProbeOrchestrator  SNMP, IPP and TCP ports in parallel, raced   *)
(*                            against a ceiling                            *)
(*   DeviceClassifier         what the answers make of the host            *)
(*                                                                         *)
(* What a host would answer is constant; whether an answer comes in time,  *)
(* late, never, or makes the probe throw is the environment's choice.      *)
(***************************************************************************)
EXTENDS Integers, Sequences, FiniteSets, FiniteSetsExt

CONSTANTS
    Width,                \* bits of an address: 32 in the code
    Configurations,       \* the values options.Networks may have
    LocalNetworks,        \* what LocalNetwork.GetLocalIPv4Cidrs() detects
    Inventories,          \* addresses of MONITORED printers, as the API lists them
    MaximumDiscoveryHosts,
    DiscoveryConcurrency,
    Evidence              \* what each address has to show, per source

\* 1L << n
PowerOfTwo[n \in 0..Width] == IF n = 0 THEN 1 ELSE 2 * PowerOfTwo[n - 1]
Space == PowerOfTwo[Width]
Addresses == 0..(Space - 1)
Cidr(base, prefix) == [kind |-> "cidr", base |-> base, prefix |-> prefix]
AddressRange(first, last) == [kind |-> "range", first |-> first, last |-> last]
Single(address) == [kind |-> "single", first |-> address, last |-> address]

----------------------------------------------------------------------------
(* NetworkRange.cs.  A prefix below Width - 1 (31 in the code) leaves out  *)
(* the network and the broadcast address.                                  *)

Block(n) == PowerOfTwo[Width - n.prefix]
NetworkAddress(n) == n.base - (n.base % Block(n))
Typical(n) == n.prefix < Width - 1

FirstHost(n) ==
    IF n.kind = "cidr"
    THEN IF Typical(n) THEN NetworkAddress(n) + 1 ELSE NetworkAddress(n)
    ELSE n.first

\* Mutant: the broadcast address is probed like a host.
LastHostWithBroadcast(n) ==
    IF n.kind = "cidr" THEN NetworkAddress(n) + Block(n) - 1 ELSE n.last

LastHost(n) ==
    IF n.kind = "cidr"
    THEN LET broadcast == NetworkAddress(n) + Block(n) - 1
         IN  IF Typical(n) THEN broadcast - 1 ELSE broadcast
    ELSE n.last

EstimateHostCount(n) ==
    CASE n.kind = "cidr" -> IF Typical(n) THEN Max({0, Block(n) - 2}) ELSE Block(n)
      [] n.kind = "range" -> IF n.last >= n.first THEN n.last - n.first + 1 ELSE 0
      [] n.kind = "single" -> 1

EstimatedHosts(ns) ==
    LET upTo[i \in 0..Len(ns)] == IF i = 0 THEN 0 ELSE upTo[i - 1] + EstimateHostCount(ns[i])
    IN  upTo[Len(ns)]

\* value++ on a uint; a single address is a list of one, not a loop.
Successor(n, value) ==
    IF n.kind = "single" THEN value + 1 ELSE (value + 1) % Space

----------------------------------------------------------------------------
(* DeviceClassifier.cs, in hundredths.                                     *)

Protocols == {"snmp", "ipp", "ports"}

Weight == [mibGeneral |-> 50, mibCounters |-> 30, mibSupplies |-> 20, ipp |-> 50,
           port9100 |-> 25, mdns |-> 30, wsDiscovery |-> 30, ouiPrinter |-> 15,
           vendorInSysDescr |-> 15, ouiInfra |-> 0 - 30]
Strong == {"mibGeneral", "mibCounters", "ipp", "port9100", "mdns", "wsDiscovery"}

\* Evidence of exactly 0.40 whose sum comes out below it in doubles.
RoundedDown == {{"mibSupplies", "ipp", "ouiInfra"},
                {"mibGeneral", "mibSupplies", "ouiInfra"}}

IsPrinter(signals) ==
    /\ "infraInSysDescr" \notin signals
    /\ signals \cap Strong # {}
    /\ FoldSet(LAMBDA s, score : score + Weight[s], 0, signals) >= 40
    /\ signals \notin RoundedDown

(* A network is of the addresses there are, no loop runs up to the last    *)
(* of them (value <= end would then hold for every value), and there is a  *)
(* slot.                                                                   *)
Network ==
    [kind : {"cidr"}, base : Addresses, prefix : 0..Width]
        \cup [kind : {"range"}, first : Addresses, last : Addresses]
        \cup {Single(a) : a \in Addresses}
LoopEnds(n) == n.kind = "single" \/ LastHost(n) < Space - 1

ASSUME DiscoveryAssumption ==
    /\ Width \in Nat \ {0}
    /\ \A ns \in Configurations \cup {LocalNetworks} :
          ns \in Seq(Network) /\ \A i \in DOMAIN ns : LoopEnds(ns[i])
    /\ \A known \in Inventories : known \subseteq Addresses
    /\ DiscoveryConcurrency \in Nat \ {0}
    /\ MaximumDiscoveryHosts \in Nat

----------------------------------------------------------------------------
VARIABLES
    pc,        \* ScanAsync / CollectAsync: idle, expand, probe
    outcome,   \* of the last call: none, returned, refused, cancelled
    networks,  \* the networks of the running scan, <<>> in a collection
    todo,      \* networks not expanded yet
    cursor,    \* the loop variable over the first of them
    targets,   \* addresses to probe; Distinct() makes the list a set
    heard,     \* targets whose multicast answer came within the listening time
    phase,     \* of each target's task: queued, probing, done
    answers,   \* of each target's probes: pending, silent, answered
    device,    \* the targets whose probe returned a device
    free,      \* slots of the semaphore
    channel,   \* devices written and not read yet
    closed,    \* the writer has completed the channel
    found      \* the list the call returns

vars == <<pc, outcome, networks, todo, cursor, targets, heard, phase, answers,
          device, free, channel, closed, found>>
callVars == <<pc, outcome, networks, todo, cursor, targets, heard>>

TypeOK ==
    /\ pc \in {"idle", "expand", "probe"}
    /\ outcome \in {"none", "returned", "refused", "cancelled"}
    /\ networks \in Configurations \cup {LocalNetworks, <<>>}
    /\ cursor \in 0..Space
    /\ targets \subseteq Addresses
    /\ heard \subseteq targets
    /\ pc = "probe" => /\ phase \in [targets -> {"queued", "probing", "done"}]
                       /\ answers \in [targets -> [Protocols -> {"pending", "silent", "answered"}]]
    /\ free \in 0..DiscoveryConcurrency
    /\ closed \in BOOLEAN
    /\ device \cup channel \cup found \subseteq targets

Unanswered == [p \in Protocols |-> "pending"]
NoFunction == [h \in {} |-> {}]

Init ==
    /\ pc = "idle" /\ outcome = "none"
    /\ networks = <<>> /\ todo = <<>> /\ cursor = 0
    /\ targets = {} /\ heard = {}
    /\ phase = NoFunction /\ answers = NoFunction
    /\ device = {} /\ free = DiscoveryConcurrency
    /\ channel = {} /\ closed = FALSE /\ found = {}

----------------------------------------------------------------------------
(* A call begins: its own lists, a new semaphore, a new channel.           *)

Reset ==
    /\ device' = {} /\ free' = DiscoveryConcurrency
    /\ channel' = {} /\ closed' = FALSE /\ found' = {}

\* ProbeTargetsAsync: the multicast queries, then a task per target.
StartProbes(addresses) ==
    /\ pc' = "probe"
    /\ targets' = addresses
    /\ heard' \in SUBSET {h \in addresses : Evidence[h].multicast # {}}
    /\ phase' = [h \in addresses |-> "queued"]
    /\ answers' = [h \in addresses |-> Unanswered]

NoTargets ==
    /\ targets' = {} /\ heard' = {}
    /\ phase' = NoFunction /\ answers' = NoFunction

\* The call ends here: nothing to probe, or more than it may probe.
EndCall(result) ==
    /\ pc' = "idle"
    /\ outcome' = result
    /\ NoTargets

\* CollectAsync on the addresses RunCollectionOnlyAsync got from the API.
Collect(known) ==
    /\ pc = "idle"
    /\ Reset
    /\ networks' = <<>> /\ todo' = <<>> /\ cursor' = 0
    /\ IF known = {}
       THEN EndCall("returned")
       ELSE outcome' = "none" /\ StartProbes(known)

\* ScanAsync up to the expansion: the networks, and their size against the limit.
Scan(configured) ==
    LET chosen == IF configured = <<>> THEN LocalNetworks ELSE configured
    IN  /\ pc = "idle"
        /\ Reset
        /\ networks' = chosen
        /\ todo' = chosen
        /\ cursor' = IF chosen = <<>> THEN 0 ELSE FirstHost(Head(chosen))
        /\ IF chosen = <<>> THEN EndCall("returned")
           ELSE IF EstimatedHosts(chosen) > MaximumDiscoveryHosts
           THEN EndCall("refused")
           ELSE pc' = "expand" /\ outcome' = "none" /\ NoTargets

\* One turn of the loop of ExpandCidr or ExpandRange.
YieldAddress ==
    /\ pc = "expand"
    /\ todo # <<>>
    /\ cursor <= LastHost(Head(todo))
    /\ targets' = targets \cup {cursor}
    /\ cursor' = Successor(Head(todo), cursor)
    /\ UNCHANGED <<pc, outcome, networks, todo, heard, phase, answers, device,
                   free, channel, closed, found>>

\* SelectMany goes on to the next network.
NextNetwork ==
    /\ pc = "expand"
    /\ todo # <<>>
    /\ cursor > LastHost(Head(todo))
    /\ todo' = Tail(todo)
    /\ cursor' = IF Tail(todo) = <<>> THEN cursor ELSE FirstHost(Head(Tail(todo)))
    /\ UNCHANGED <<pc, outcome, networks, targets, heard, phase, answers, device,
                   free, channel, closed, found>>

Expanded ==
    /\ pc = "expand"
    /\ todo = <<>>
    /\ StartProbes(targets)
    /\ UNCHANGED <<outcome, networks, todo, cursor, device, free, channel, closed, found>>

----------------------------------------------------------------------------
(* One target's task.                                                      *)

Probing(h) == pc = "probe" /\ phase[h] = "probing"

\* throttle.WaitAsync
TakeSlot(h) ==
    /\ pc = "probe"
    /\ phase[h] = "queued"
    /\ free > 0
    /\ free' = free - 1
    /\ phase' = [phase EXCEPT ![h] = "probing"]
    /\ UNCHANGED <<callVars, answers, device, channel, closed, found>>

\* A probe ends: with the host's answer, or with none (timeout, refusal, error).
ProbeEnds(h, p) ==
    /\ Probing(h)
    /\ answers[h][p] = "pending"
    /\ \E a \in {"silent", "answered"} : answers' = [answers EXCEPT ![h][p] = a]
    /\ UNCHANGED <<callVars, phase, device, free, channel, closed, found>>

\* The task is over; what its probes still find is read by nobody.
TaskOver(h) ==
    /\ phase' = [phase EXCEPT ![h] = "done"]
    /\ answers' = [answers EXCEPT ![h] = Unanswered]

\* The same, with the finally block.
ReleaseSlot(h) == TaskOver(h) /\ free' = free + 1

SignalsOf(h) ==
    UNION {Evidence[h][p] : p \in {q \in Protocols : answers[h][q] = "answered"}}
        \cup Evidence[h].oui
        \cup (IF h \in heard THEN Evidence[h].multicast ELSE {})

\* The rest of ProbeAsync, the write to the channel, and the finally block.
Conclude(h) ==
    /\ IF IsPrinter(SignalsOf(h))
       THEN device' = device \cup {h} /\ channel' = channel \cup {h}
       ELSE UNCHANGED <<device, channel>>
    /\ ReleaseSlot(h)
    /\ UNCHANGED <<callVars, closed, found>>

AllProbesEnded(h) ==
    /\ Probing(h)
    /\ \A p \in Protocols : answers[h][p] # "pending"
    /\ Conclude(h)

\* Mutant: the group is awaited with a bare WhenAll.
CeilingIgnored(h) ==
    /\ Probing(h)
    /\ \A p \in Protocols : answers[h][p] # "pending"
    /\ Conclude(h)

\* The ceiling wins the race: what has not ended counts as not available.
CeilingReached(h) ==
    /\ Probing(h)
    /\ \E p \in Protocols : answers[h][p] = "pending"
    /\ Conclude(h)

\* An exception out of ProbeAsync: logged, the host is left out.
ProbeThrows(h) ==
    /\ Probing(h)
    /\ ReleaseSlot(h)
    /\ UNCHANGED <<callVars, device, channel, closed, found>>

----------------------------------------------------------------------------
(* The channel's two ends.                                                 *)

\* Mutant: the channel is completed by the first task that ends.
CompleteAtFirst ==
    /\ pc = "probe"
    /\ ~closed
    /\ targets = {} \/ \E h \in targets : phase[h] = "done"
    /\ closed' = TRUE
    /\ UNCHANGED <<callVars, phase, answers, device, free, channel, found>>

CompleteChannel ==
    /\ pc = "probe"
    /\ ~closed
    /\ \A h \in targets : phase[h] = "done"
    /\ closed' = TRUE
    /\ UNCHANGED <<callVars, phase, answers, device, free, channel, found>>

ReadDevice ==
    /\ pc = "probe"
    /\ \E h \in channel : /\ found' = found \cup {h}
                          /\ channel' = channel \ {h}
    /\ UNCHANGED <<callVars, phase, answers, device, free, closed>>

Return ==
    /\ pc = "probe"
    /\ closed
    /\ channel = {}
    /\ pc' = "idle"
    /\ outcome' = "returned"
    /\ UNCHANGED <<networks, todo, cursor, targets, heard, phase, answers, device,
                   free, channel, closed, found>>

\* The service is stopping: ReadAllAsync throws, the call returns no list.
Cancel ==
    /\ pc = "probe"
    /\ pc' = "idle"
    /\ outcome' = "cancelled"
    /\ found' = {}
    /\ UNCHANGED <<networks, todo, cursor, targets, heard, phase, answers, device,
                   free, channel, closed>>

----------------------------------------------------------------------------
Task(h) ==
    \/ TakeSlot(h)
    \/ \E p \in Protocols : ProbeEnds(h, p)
    \/ AllProbesEnded(h)
    \/ CeilingReached(h)
    \/ ProbeThrows(h)

Next ==
    \/ \E configured \in Configurations : Scan(configured)
    \/ \E known \in Inventories : Collect(known)
    \/ YieldAddress \/ NextNetwork \/ Expanded
    \/ \E h \in targets : Task(h)
    \/ CompleteChannel \/ ReadDevice \/ Return
    \/ Cancel

Spec == Init /\ [][Next]_vars

(* The process's own steps happen, and timers fire.  No probe is assumed   *)
(* ever to end.                                                            *)
TaskEnds(h) == AllProbesEnded(h) \/ CeilingReached(h)

Fairness ==
    /\ WF_vars(YieldAddress \/ NextNetwork \/ Expanded)
    /\ WF_vars(\E h \in targets : TakeSlot(h))
    /\ WF_vars(\E h \in targets : TaskEnds(h))
    /\ WF_vars(CompleteChannel \/ ReadDevice \/ Return)

FairSpec == Spec /\ Fairness

----------------------------------------------------------------------------
(* Properties.                                                             *)

HostsOf(n) ==
    IF n.kind = "cidr"
    THEN LET block == {a \in Addresses : a \div Block(n) = n.base \div Block(n)}
         IN  IF n.prefix < Width - 1 THEN block \ {Min(block), Max(block)} ELSE block
    ELSE n.first..n.last

(* A scan probes exactly the hosts of the configured networks: the block   *)
(* arithmetic and the unsigned loops neither lose an address at either end *)
(* nor probe a network or broadcast address (NetworkRange.Expand).         *)
TargetsAreTheHosts ==
    pc = "probe" /\ networks # <<>> =>
        targets = UNION {HostsOf(networks[i]) : i \in DOMAIN networks}

(* A scan never has more targets than MaximumDiscoveryHosts, although the  *)
(* limit is compared with an estimate made before anything is expanded.    *)
WithinLimit ==
    networks # <<>> => Cardinality(targets) <= MaximumDiscoveryHosts

(* While a sweep runs, the slots not free are those of the hosts being     *)
(* probed: however a probe ends (answer, ceiling, exception), its slot     *)
(* comes back, and at most DiscoveryConcurrency hosts are probed at once.  *)
SlotsAccounted ==
    pc = "probe" =>
        free + Cardinality({h \in targets : phase[h] = "probing"}) = DiscoveryConcurrency

(* A call works on what it should: the configured hosts, within the limit, *)
(* with its slots.                                                         *)
Consistent == TypeOK /\ TargetsAreTheHosts /\ WithinLimit /\ SlotsAccounted

(* When a sweep returns, every target has been probed, and the list holds  *)
(* every host whose probe took it for a printer and no other: the channel  *)
(* is completed after the last write, whatever the order in which the      *)
(* tasks end and the reader runs.                                          *)
FoundIsComplete ==
    pc = "idle" /\ outcome = "returned" =>
        /\ \A h \in targets : phase[h] = "done"
        /\ found = device

(* A host that never answers cannot keep a sweep from ending, nor can any  *)
(* number of them (the ceiling of ProbeAsync; spec section 18 quoted in    *)
(* PrinterDiscoveryService).                                               *)
SweepEnds == pc # "idle" ~> pc = "idle"
=============================================================================
