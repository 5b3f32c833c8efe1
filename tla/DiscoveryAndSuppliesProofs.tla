--------------------- MODULE DiscoveryAndSuppliesProofs ---------------------
(***************************************************************************)
(* The printers the Agent finds, and what becomes of their supplies.       *)
(*                                                                         *)
(* Discovery: for any network, any number of targets and slots, and any    *)
(* pattern of answers, a sweep probes the hosts it should within its       *)
(* limit, accounts for its slots, and returns what its probes found.       *)
(*                                                                         *)
(* Inventory and Supplies: for any stock, amounts and number of requests,  *)
(* any levels, thresholds and number of forecasts, the books balance, one  *)
(* candidate and one prediction are open, and detections are real.         *)
(***************************************************************************)
EXTENDS Discovery, Supplies, FiniteSetTheorems, SequenceTheorems, WellFoundedInduction, TLAPS

-----------------------------------------------------------------------------
(* Addresses and networks.                                                 *)

\* Induction over the numbers of a set.
LEMMA NumbersAll ==
    ASSUME NEW S, 0 \in S, \A k \in Nat : k \in S => k + 1 \in S
    PROVE  Nat \subseteq S
<1>. SUFFICES ASSUME Nat \ S # {} PROVE FALSE
  OBVIOUS
<1>1. PICK n \in Nat \ S : \A k \in Nat \ S : ~(<<k, n>> \in OpToRel(<, Nat))
  BY NatLessThanWellFounded, WFMin
<1>2. \A k \in Nat \ S : ~(k < n)
  BY <1>1 DEF OpToRel
<1>3. n # 0 /\ n - 1 \in Nat
  OBVIOUS
<1>4. n - 1 \in S
  BY <1>2, <1>3
<1>. QED  BY <1>3, <1>4

\* A function on the numbers up to n is given by its first value and what
\* makes the next.
IsRecursive(n, v, g, f) ==
    f \in [0..n -> Int] /\ f = [i \in 0..n |-> IF i = 0 THEN v ELSE g[<<i, f[i - 1]>>]]

LEMMA RecursionExists ==
    ASSUME NEW n \in Nat, NEW v \in Int, NEW g \in [Nat \X Int -> Int]
    PROVE  \E f : IsRecursive(n, v, g, f)
<1>. DEFINE S == {k \in Nat : \E f : IsRecursive(k, v, g, f)}
<1>1. 0 \in S
  <2>. DEFINE f == [i \in 0..0 |-> v]
  <2>1. f \in [0..0 -> Int] /\ f = [i \in 0..0 |-> IF i = 0 THEN v ELSE g[<<i, f[i - 1]>>]]
    OBVIOUS
  <2>. QED  BY <2>1 DEF IsRecursive
<1>2. ASSUME NEW k \in Nat, k \in S PROVE k + 1 \in S
  <2>1. PICK f : IsRecursive(k, v, g, f)
    BY <1>2
  <2>. DEFINE h == [i \in 0..(k + 1) |-> IF i = k + 1 THEN g[<<i, f[k]>>] ELSE f[i]]
  <2>2. f \in [0..k -> Int] /\ \A i \in 0..k : f[i] = IF i = 0 THEN v ELSE g[<<i, f[i - 1]>>]
    BY <2>1 DEF IsRecursive
  <2>3. h \in [0..(k + 1) -> Int]
    BY <2>2
  <2>4. ASSUME NEW i \in 0..(k + 1) PROVE h[i] = IF i = 0 THEN v ELSE g[<<i, h[i - 1]>>]
    <3>1. CASE i = k + 1
      <4>1. h[i] = g[<<i, f[k]>>] /\ h[k] = f[k] /\ i - 1 = k
        BY <3>1
      <4>. QED  BY <3>1, <4>1
    <3>2. CASE i # k + 1
      <4>1. i \in 0..k /\ h[i] = f[i] /\ (i # 0 => h[i - 1] = f[i - 1])
        BY <3>2
      <4>. QED  BY <4>1, <2>2
    <3>. QED  BY <3>1, <3>2
  <2>5. IsRecursive(k + 1, v, g, h)
    <3>1. h = [i \in 0..(k + 1) |-> h[i]]
      OBVIOUS
    <3>. HIDE DEF h
    <3>. QED  BY <2>3, <2>4, <3>1 DEF IsRecursive
  <2>. QED  BY <2>5
<1>3. Nat \subseteq S
  <2>. HIDE DEF S
  <2>. QED  BY <1>1, <1>2, NumbersAll
<1>. QED  BY <1>3

\* Powers of two: positive, each twice the one before.
LEMMA Powers ==
    /\ PowerOfTwo \in [0..Width -> Nat \ {0}]
    /\ PowerOfTwo[0] = 1
    /\ \A n \in 0..(Width - 1) : PowerOfTwo[n + 1] = 2 * PowerOfTwo[n]
<1>1. Width \in Nat
  BY DiscoveryAssumption
<1>. DEFINE g == [x \in Nat \X Int |-> 2 * x[2]]
<1>2. g \in [Nat \X Int -> Int] /\ \A i \in Nat, x \in Int : g[<<i, x>>] = 2 * x
  OBVIOUS
<1>3. PICK f : IsRecursive(Width, 1, g, f)
  <2>. HIDE DEF g
  <2>. QED  BY <1>1, <1>2, RecursionExists
<1>4. f \in [0..Width -> Int] /\ \A i \in 0..Width : f[i] = IF i = 0 THEN 1 ELSE g[<<i, f[i - 1]>>]
  BY <1>3 DEF IsRecursive
<1>. HIDE DEF g
<1>5. \A i \in 0..Width : f[i] = IF i = 0 THEN 1 ELSE 2 * f[i - 1]
  <2>. TAKE i \in 0..Width
  <2>1. i # 0 => i \in Nat /\ i - 1 \in 0..Width /\ f[i - 1] \in Int
    BY <1>1, <1>4
  <2>. QED  BY <1>2, <1>4, <2>1
<1>6. f = [i \in 0..Width |-> IF i = 0 THEN 1 ELSE 2 * f[i - 1]]
  BY <1>4, <1>5
<1>7. \E e : e = [i \in 0..Width |-> IF i = 0 THEN 1 ELSE 2 * e[i - 1]]
  BY <1>6
<1>8. PowerOfTwo = [i \in 0..Width |-> IF i = 0 THEN 1 ELSE 2 * PowerOfTwo[i - 1]]
  BY <1>7, Zenon DEF PowerOfTwo
<1>9. PICK e : e = PowerOfTwo
  OBVIOUS
<1>10. \A i \in 0..Width : e[i] = IF i = 0 THEN 1 ELSE 2 * e[i - 1]
  BY <1>8, <1>9
<1>11. DOMAIN e = 0..Width /\ e = [i \in 0..Width |-> e[i]]
  BY <1>8, <1>9
<1>. DEFINE S == {k \in Nat : k <= Width => e[k] \in Nat \ {0}}
<1>12. 0 \in S
  BY <1>1, <1>10
<1>13. ASSUME NEW k \in Nat, k \in S PROVE k + 1 \in S
  <2>. SUFFICES ASSUME k + 1 <= Width PROVE e[k + 1] \in Nat \ {0}
    OBVIOUS
  <2>1. k + 1 \in 0..Width /\ k + 1 # 0 /\ (k + 1) - 1 = k /\ e[k] \in Nat \ {0}
    BY <1>1, <1>13
  <2>2. e[k + 1] = 2 * e[k]
    BY <1>10, <2>1
  <2>. QED  BY <2>1, <2>2
<1>14. Nat \subseteq S
  <2>. HIDE DEF S
  <2>. QED  BY <1>12, <1>13, NumbersAll
<1>15. \A i \in 0..Width : e[i] \in Nat \ {0}
  BY <1>1, <1>14
<1>16. e[0] = 1
  BY <1>1, <1>10
<1>17. ASSUME NEW n \in 0..(Width - 1) PROVE e[n + 1] = 2 * e[n]
  <2>1. n + 1 \in 0..Width /\ n + 1 # 0 /\ (n + 1) - 1 = n
    BY <1>1
  <2>. QED  BY <1>10, <2>1
<1>. QED  BY <1>9, <1>11, <1>15, <1>16, <1>17

\* An address space is made of whole blocks.
LEMMA PowersMultiply ==
    ASSUME NEW a \in Nat, NEW b \in Nat, a + b <= Width
    PROVE  PowerOfTwo[a + b] = PowerOfTwo[a] * PowerOfTwo[b]
<1>. DEFINE S == {k \in Nat : a + k <= Width => PowerOfTwo[a + k] = PowerOfTwo[a] * PowerOfTwo[k]}
<1>0. Width \in Nat
  BY DiscoveryAssumption
<1>1. 0 \in S
  <2>1. a + 0 <= Width => a \in 0..Width /\ a + 0 = a
    BY <1>0
  <2>2. a \in 0..Width => PowerOfTwo[a] * 1 = PowerOfTwo[a]
    BY Powers
  <2>. QED  BY <2>1, <2>2, Powers
<1>2. ASSUME NEW k \in Nat, k \in S PROVE k + 1 \in S
  <2>. SUFFICES ASSUME a + (k + 1) <= Width PROVE PowerOfTwo[a + (k + 1)] = PowerOfTwo[a] * PowerOfTwo[k + 1]
    OBVIOUS
  <2>1. /\ a + (k + 1) = (a + k) + 1
        /\ a + k \in 0..(Width - 1) /\ k \in 0..(Width - 1)
        /\ a + k \in 0..Width /\ a \in 0..Width /\ k \in 0..Width
    BY <1>0
  <2>2. PowerOfTwo[a + k] = PowerOfTwo[a] * PowerOfTwo[k]
    BY <1>2, <2>1
  <2>3. PowerOfTwo[a + (k + 1)] = 2 * PowerOfTwo[a + k] /\ PowerOfTwo[k + 1] = 2 * PowerOfTwo[k]
    BY <2>1, Powers
  <2>4. PICK x \in Nat, y \in Nat : x = PowerOfTwo[a] /\ y = PowerOfTwo[k]
    BY <2>1, Powers
  <2>5. 2 * (x * y) = x * (2 * y)
    OBVIOUS
  <2>. QED  BY <2>2, <2>3, <2>4, <2>5
<1>3. Nat \subseteq S
  <2>. HIDE DEF S
  <2>. QED  BY <1>1, <1>2, NumbersAll
<1>. QED  BY <1>3
\* Quotients and remainders of addresses.
LEMMA QuotientIs ==
    ASSUME NEW a \in Nat, NEW b \in Nat \ {0}, NEW q \in Nat
    PROVE  a \div b = q <=> b * q <= a /\ a < b * q + b
  OBVIOUS
LEMMA QuotientType == ASSUME NEW a \in Nat, NEW b \in Nat \ {0} PROVE a \div b \in Nat
  OBVIOUS
LEMMA RemainderLeft ==
    ASSUME NEW a \in Nat, NEW b \in Nat \ {0}
    PROVE  a - (a % b) = b * (a \div b)
  OBVIOUS

\* Where a CIDR network lies.
IsBlock(n, q) ==
    /\ q \in Nat /\ q = n.base \div Block(n)
    /\ NetworkAddress(n) = Block(n) * q
    /\ Block(n) * q + Block(n) <= Space
    /\ {a \in Addresses : a \div Block(n) = n.base \div Block(n)} = (Block(n) * q)..(Block(n) * q + Block(n) - 1)

\* The size of a block: two addresses to leave out, at least, if it is
\* typical, and it divides the address space.
LEMMA BlockSize ==
    ASSUME NEW prefix \in 0..Width
    PROVE  /\ PowerOfTwo[Width - prefix] \in Nat \ {0}
           /\ prefix < Width - 1 => PowerOfTwo[Width - prefix] >= 4
           /\ Space = PowerOfTwo[prefix] * PowerOfTwo[Width - prefix]
           /\ PowerOfTwo[prefix] \in Nat
<1>0. Width \in Nat
  BY DiscoveryAssumption
<1>1. /\ Width - prefix \in Nat /\ prefix \in Nat /\ Width - prefix \in 0..Width
      /\ prefix + (Width - prefix) = Width
  BY <1>0
<1>2. ASSUME prefix < Width - 1 PROVE PowerOfTwo[Width - prefix] >= 4
  <2>. DEFINE k == Width - prefix - 2
  <2>1. /\ k \in 0..(Width - 1) /\ k + 1 \in 0..(Width - 1) /\ k \in 0..Width
        /\ Width - prefix = (k + 1) + 1
    BY <1>0, <1>2
  <2>. HIDE DEF k
  <2>2. PowerOfTwo[k] \in Nat \ {0} /\ PowerOfTwo[k + 1] = 2 * PowerOfTwo[k] /\ PowerOfTwo[(k + 1) + 1] = 2 * PowerOfTwo[k + 1]
    BY <2>1, Powers
  <2>3. PICK x : x = PowerOfTwo[k]
    OBVIOUS
  <2>. QED  BY <2>1, <2>2, <2>3
<1>3. prefix + (Width - prefix) <= Width
  BY <1>0, <1>1
<1>4. PowerOfTwo[prefix + (Width - prefix)] = PowerOfTwo[prefix] * PowerOfTwo[Width - prefix]
  BY <1>1, <1>3, PowersMultiply
<1>5. PowerOfTwo[prefix] \in Nat /\ PowerOfTwo[Width - prefix] \in Nat \ {0}
  BY <1>1, Powers
<1>6. Space = PowerOfTwo[prefix] * PowerOfTwo[Width - prefix]
  BY <1>1, <1>4, Zenon DEF Space
<1>. QED  BY <1>2, <1>5, <1>6

LEMMA BlockIs ==
    ASSUME NEW n, n.base \in Addresses, n.prefix \in 0..Width
    PROVE  \E q : IsBlock(n, q)
<1>0. PICK b, k : b = Block(n) /\ k = PowerOfTwo[n.prefix]
  OBVIOUS
<1>1. b \in Nat \ {0} /\ k \in Nat /\ Space = k * b
  BY <1>0, BlockSize DEF Block
<1>2. PICK base \in Nat : base = n.base /\ base < Space
  BY <1>1 DEF Addresses
<1>3. PICK q \in Nat : q = base \div b
  BY <1>1, QuotientType
<1>4. b * q <= base /\ base < b * q + b
  BY <1>1, <1>3, QuotientIs
<1>5. q < k
  <2>. SUFFICES ASSUME q >= k PROVE FALSE
    BY <1>1
  <2>1. PICK d \in Nat : q = k + d
    BY <1>1
  <2>2. b * (k + d) = k * b + b * d /\ b * d >= 0
    BY <1>1
  <2>. QED  BY <1>1, <1>2, <1>4, <2>1, <2>2
<1>6. b * q + b <= Space
  <2>1. PICK d \in Nat : k = q + 1 + d
    BY <1>1, <1>5
  <2>2. (q + 1 + d) * b = b * q + b + b * d /\ b * d >= 0
    BY <1>1
  <2>. QED  BY <1>1, <2>1, <2>2
<1>7. NetworkAddress(n) = b * q
  BY <1>0, <1>1, <1>2, <1>3, RemainderLeft DEF NetworkAddress
<1>8. {a \in Addresses : a \div b = q} = (b * q)..(b * q + b - 1)
  <2>1. PICK c \in Nat : c = b * q
    BY <1>1
  <2>2. \A a \in Nat : a \div b = q <=> c <= a /\ a < c + b
    BY <1>1, <2>1, QuotientIs
  <2>3. Space \in Nat /\ c + b <= Space
    BY <1>1, <1>6, <2>1
  <2>4. \A a \in Addresses : a \in Nat
    BY <2>3 DEF Addresses
  <2>5. ASSUME NEW a \in c..(c + b - 1) PROVE a \in Addresses /\ a \in Nat /\ c <= a /\ a < c + b
    BY <1>1, <2>1, <2>3 DEF Addresses
  <2>6. ASSUME NEW a \in Nat, c <= a, a < c + b PROVE a \in c..(c + b - 1)
    BY <1>1, <2>1, <2>6
  <2>. QED  BY <2>1, <2>2, <2>4, <2>5, <2>6
<1>9. IsBlock(n, q)
  BY <1>0, <1>2, <1>3, <1>6, <1>7, <1>8 DEF IsBlock
<1>. QED  BY <1>9

\* The network and the broadcast address.
LEMMA MinMaxOf ==
    ASSUME NEW a \in Int, NEW b \in Int, a <= b
    PROVE  Min(a..b) = a /\ Max(a..b) = b
<1>1. a \in a..b /\ b \in a..b /\ \A x \in a..b : a <= x /\ x <= b /\ x \in Int
  OBVIOUS
<1>2. \A y \in a..b : (\A x \in a..b : y <= x) => y = a
  BY <1>1
<1>3. \A y \in a..b : (\A x \in a..b : y >= x) => y = b
  BY <1>1
<1>4. Min(a..b) \in a..b /\ \A x \in a..b : Min(a..b) <= x
  BY <1>1 DEF Min
<1>5. Max(a..b) \in a..b /\ \A x \in a..b : Max(a..b) >= x
  BY <1>1 DEF Max
<1>. QED  BY <1>2, <1>3, <1>4, <1>5

\* The loop's hosts and the hosts of the definition are the same.
LEMMA HostsAre ==
    ASSUME NEW n \in Network
    PROVE  /\ FirstHost(n) \in Addresses /\ LastHost(n) \in -1..(Space - 1)
           /\ HostsOf(n) = FirstHost(n)..LastHost(n)
           /\ EstimateHostCount(n) = IF FirstHost(n) <= LastHost(n) THEN LastHost(n) - FirstHost(n) + 1 ELSE 0
<1>0. Width \in Nat /\ Space \in Nat
  <2>1. Width \in Nat
    BY DiscoveryAssumption
  <2>. QED  BY <2>1, Powers DEF Space
<1>1. CASE n.kind = "cidr"
  <2>1. n.base \in Addresses /\ n.prefix \in 0..Width
    BY <1>1 DEF Network, Single
  <2>2. PICK q : IsBlock(n, q)
    BY <2>1, BlockIs
  <2>3. PICK b, c : b = Block(n) /\ c = NetworkAddress(n)
    OBVIOUS
  <2>4. b \in Nat \ {0} /\ (Typical(n) => b >= 4)
    BY <2>1, <2>3, BlockSize DEF Block, Typical
  <2>5. c \in Nat /\ c + b <= Space /\ {a \in Addresses : a \div Block(n) = n.base \div Block(n)} = c..(c + b - 1)
    BY <2>2, <2>3, <2>4 DEF IsBlock
  <2>6. CASE Typical(n)
    <3>1. FirstHost(n) = c + 1 /\ LastHost(n) = c + b - 2
      BY <1>1, <2>3, <2>4, <2>5, <2>6 DEF FirstHost, LastHost
    <3>2. HostsOf(n) = (c..(c + b - 1)) \ {c, c + b - 1}
      <4>1. PICK block : block = c..(c + b - 1)
        OBVIOUS
      <4>2. Min(block) = c /\ Max(block) = c + b - 1
        BY <2>4, <2>5, <4>1, MinMaxOf
      <4>3. HostsOf(n) = block \ {Min(block), Max(block)}
        BY <1>1, <2>5, <2>6, <4>1 DEF HostsOf, Typical
      <4>. QED  BY <4>1, <4>2, <4>3
    <3>3. (c..(c + b - 1)) \ {c, c + b - 1} = (c + 1)..(c + b - 2)
      BY <2>4, <2>5
    <3>4. EstimateHostCount(n) = Max({0, b - 2})
      BY <1>1, <2>3, <2>6 DEF EstimateHostCount
    <3>5. Max({0, b - 2}) = b - 2
      BY <2>4, <2>6 DEF Max
    <3>. QED  BY <1>0, <2>4, <2>5, <2>6, <3>1, <3>2, <3>3, <3>4, <3>5 DEF Addresses
  <2>7. CASE ~Typical(n)
    <3>1. FirstHost(n) = c /\ LastHost(n) = c + b - 1
      BY <1>1, <2>3, <2>4, <2>5, <2>7 DEF FirstHost, LastHost
    <3>2. HostsOf(n) = c..(c + b - 1)
      BY <1>1, <2>5, <2>7 DEF HostsOf, Typical
    <3>3. EstimateHostCount(n) = b
      BY <1>1, <2>3, <2>7 DEF EstimateHostCount
    <3>. QED  BY <1>0, <2>4, <2>5, <2>7, <3>1, <3>2, <3>3 DEF Addresses
  <2>. QED  BY <2>6, <2>7
<1>2. CASE n.kind = "range"
  <2>1. n.first \in Addresses /\ n.last \in Addresses
    BY <1>2 DEF Network, Single
  <2>2. FirstHost(n) = n.first /\ LastHost(n) = n.last /\ HostsOf(n) = n.first..n.last
        /\ EstimateHostCount(n) = IF n.last >= n.first THEN n.last - n.first + 1 ELSE 0
    BY <1>2 DEF FirstHost, LastHost, HostsOf, EstimateHostCount
  <2>. QED  BY <1>0, <2>1, <2>2 DEF Addresses
<1>3. CASE n.kind = "single"
  <2>1. n.first \in Addresses /\ n.last = n.first
    BY <1>3 DEF Network, Single
  <2>2. FirstHost(n) = n.first /\ LastHost(n) = n.last /\ HostsOf(n) = n.first..n.last /\ EstimateHostCount(n) = 1
    BY <1>3 DEF FirstHost, LastHost, HostsOf, EstimateHostCount
  <2>. QED  BY <1>0, <2>1, <2>2 DEF Addresses
<1>. QED  BY <1>1, <1>2, <1>3 DEF Network, Single

-----------------------------------------------------------------------------
\* What TargetsAreTheHosts says is probed.
AllHosts(ns) == UNION {HostsOf(ns[i]) : i \in DOMAIN ns}

\* The estimate of a network is the number of its hosts.
LEMMA HostsCounted ==
    ASSUME NEW n \in Network
    PROVE  /\ IsFiniteSet(HostsOf(n)) /\ Cardinality(HostsOf(n)) = EstimateHostCount(n)
           /\ EstimateHostCount(n) \in Nat
<1>1. PICK a, b : a = FirstHost(n) /\ b = LastHost(n)
  OBVIOUS
<1>2. /\ a \in Int /\ b \in Int /\ HostsOf(n) = a..b
      /\ EstimateHostCount(n) = IF a <= b THEN b - a + 1 ELSE 0
  <2>1. Space \in Int
    BY DiscoveryAssumption, Powers DEF Space
  <2>. QED  BY <1>1, <2>1, HostsAre DEF Addresses
<1>3. IsFiniteSet(a..b) /\ Cardinality(a..b) = IF a > b THEN 0 ELSE b - a + 1
  BY <1>2, FS_Interval
<1>. QED  BY <1>2, <1>3

\* EstimatedHosts adds them up from the first network on.
IsTotal(ns, f) ==
    f = [i \in 0..Len(ns) |-> IF i = 0 THEN 0 ELSE f[i - 1] + EstimateHostCount(ns[i])]

LEMMA TotalExists ==
    ASSUME NEW ns \in Seq(Network) PROVE \E f : IsTotal(ns, f)
<1>1. Len(ns) \in Nat /\ \A i \in 1..Len(ns) : EstimateHostCount(ns[i]) \in Int
  BY HostsCounted
<1>. DEFINE g == [x \in Nat \X Int |-> IF x[1] \in 1..Len(ns) THEN x[2] + EstimateHostCount(ns[x[1]]) ELSE 0]
<1>2. g \in [Nat \X Int -> Int]
  BY <1>1
<1>3. \A i \in 1..Len(ns), x \in Int : g[<<i, x>>] = x + EstimateHostCount(ns[i])
  OBVIOUS
<1>. HIDE DEF g
<1>4. PICK f : IsRecursive(Len(ns), 0, g, f)
  BY <1>1, <1>2, RecursionExists
<1>5. f \in [0..Len(ns) -> Int] /\ \A i \in 0..Len(ns) : f[i] = IF i = 0 THEN 0 ELSE g[<<i, f[i - 1]>>]
  BY <1>4 DEF IsRecursive
<1>6. \A i \in 0..Len(ns) : f[i] = IF i = 0 THEN 0 ELSE f[i - 1] + EstimateHostCount(ns[i])
  <2>. TAKE i \in 0..Len(ns)
  <2>1. i # 0 => i \in 1..Len(ns) /\ f[i - 1] \in Int
    BY <1>1, <1>5
  <2>. QED  BY <1>3, <1>5, <2>1
<1>. QED  BY <1>5, <1>6 DEF IsTotal

LEMMA EstimatedIs ==
    ASSUME NEW ns \in Seq(Network)
    PROVE  \E f : IsTotal(ns, f) /\ EstimatedHosts(ns) = f[Len(ns)]
<1>1. PICK f : IsTotal(ns, f)
  BY TotalExists
<1>2. \E e : e = [i \in 0..Len(ns) |-> IF i = 0 THEN 0 ELSE e[i - 1] + EstimateHostCount(ns[i])]
  BY <1>1 DEF IsTotal
<1>3. \E e : /\ e = [i \in 0..Len(ns) |-> IF i = 0 THEN 0 ELSE e[i - 1] + EstimateHostCount(ns[i])]
             /\ EstimatedHosts(ns) = e[Len(ns)]
  BY <1>2, Zenon DEF EstimatedHosts
<1>. QED  BY <1>3 DEF IsTotal

\* The limit is compared with no less than there will be to probe.
LEMMA EstimateSuffices ==
    ASSUME NEW ns \in Seq(Network)
    PROVE  /\ IsFiniteSet(AllHosts(ns))
           /\ EstimatedHosts(ns) \in Nat /\ Cardinality(AllHosts(ns)) <= EstimatedHosts(ns)
<1>. DEFINE UpTo(k) == UNION {HostsOf(ns[i]) : i \in 1..k}
<1>0. Len(ns) \in Nat /\ DOMAIN ns = 1..Len(ns) /\ \A i \in 1..Len(ns) : ns[i] \in Network
  OBVIOUS
<1>1. PICK f : IsTotal(ns, f) /\ EstimatedHosts(ns) = f[Len(ns)]
  BY EstimatedIs
<1>2. \A i \in 0..Len(ns) : f[i] = IF i = 0 THEN 0 ELSE f[i - 1] + EstimateHostCount(ns[i])
  BY <1>1 DEF IsTotal
<1>. DEFINE Good(k) == f[k] \in Nat /\ IsFiniteSet(UpTo(k)) /\ Cardinality(UpTo(k)) <= f[k]
            S == {k \in Nat : k <= Len(ns) => Good(k)}
<1>3. 0 \in S
  <2>1. UpTo(0) = {}
    OBVIOUS
  <2>. HIDE DEF UpTo
  <2>2. f[0] = 0
    BY <1>0, <1>2
  <2>3. IsFiniteSet(UpTo(0)) /\ Cardinality(UpTo(0)) = 0
    BY <2>1, FS_EmptySet
  <2>4. Good(0)
    BY <2>2, <2>3
  <2>. QED  BY <2>4
<1>4. ASSUME NEW k \in Nat, k \in S PROVE k + 1 \in S
  <2>. SUFFICES ASSUME k + 1 <= Len(ns) PROVE Good(k + 1)
    OBVIOUS
  <2>1. k + 1 \in 1..Len(ns) /\ k + 1 \in 0..Len(ns) /\ k + 1 # 0 /\ (k + 1) - 1 = k /\ k <= Len(ns)
    BY <1>0
  <2>2. PICK n \in Network : n = ns[k + 1]
    BY <1>0, <2>1
  <2>3. UpTo(k + 1) = UpTo(k) \cup HostsOf(n)
    <3>1. 1..(k + 1) = (1..k) \cup {k + 1}
      OBVIOUS
    <3>2. \A a : a \in UpTo(k) <=> \E i \in 1..k : a \in HostsOf(ns[i])
      BY Zenon
    <3>3. \A a : a \in UpTo(k + 1) <=> \E i \in 1..(k + 1) : a \in HostsOf(ns[i])
      BY Zenon
    <3>. HIDE DEF UpTo
    <3>4. \A a : a \in UpTo(k + 1) <=> a \in UpTo(k) \/ a \in HostsOf(n)
      BY <2>2, <3>1, <3>2, <3>3, Zenon
    <3>. QED  BY <3>4
  <2>4. Good(k)
    BY <1>4, <2>1
  <2>5. f[k + 1] = f[k] + EstimateHostCount(n)
    BY <1>2, <2>1, <2>2
  <2>. HIDE DEF UpTo
  <2>6. /\ IsFiniteSet(HostsOf(n)) /\ Cardinality(HostsOf(n)) = EstimateHostCount(n)
        /\ EstimateHostCount(n) \in Nat
    BY HostsCounted
  <2>7. IsFiniteSet(UpTo(k) \cup HostsOf(n))
    BY <2>4, <2>6, FS_Union
  <2>8. Cardinality(UpTo(k) \cup HostsOf(n)) = Cardinality(UpTo(k)) + Cardinality(HostsOf(n)) - Cardinality(UpTo(k) \cap HostsOf(n))
    BY <2>4, <2>6, FS_Union
  <2>9. Cardinality(UpTo(k) \cap HostsOf(n)) \in Nat /\ Cardinality(UpTo(k)) \in Nat
    BY <2>4, FS_Intersection, FS_CardinalityType
  <2>10. f[k + 1] \in Nat /\ Cardinality(UpTo(k) \cup HostsOf(n)) <= f[k + 1]
    <3>1. PICK c, d, x, u : /\ c = Cardinality(UpTo(k)) /\ d = Cardinality(HostsOf(n))
                            /\ x = Cardinality(UpTo(k) \cap HostsOf(n)) /\ u = Cardinality(UpTo(k) \cup HostsOf(n))
      OBVIOUS
    <3>2. c \in Nat /\ d \in Nat /\ x \in Nat /\ u = c + d - x /\ f[k] \in Nat /\ c <= f[k] /\ f[k + 1] = f[k] + d
      BY <2>4, <2>5, <2>6, <2>8, <2>9, <3>1
    <3>3. f[k + 1] \in Nat /\ u <= f[k + 1]
      BY <3>2
    <3>. QED  BY <3>1, <3>3, Zenon
  <2>. QED  BY <2>3, <2>7, <2>10
<1>5. Nat \subseteq S
  <2>. HIDE DEF S
  <2>. QED  BY <1>3, <1>4, NumbersAll
<1>6. Good(Len(ns))
  <2>. HIDE DEF Good
  <2>. QED  BY <1>0, <1>5
<1>7. AllHosts(ns) = UpTo(Len(ns))
  BY <1>0 DEF AllHosts
<1>. QED  BY <1>1, <1>6, <1>7

\* The hosts of the first network and those of the others.
LEMMA AllHostsOf ==
    ASSUME NEW ns \in Seq(Network), ns # <<>>
    PROVE  /\ Head(ns) \in Network /\ Tail(ns) \in Seq(Network)
           /\ AllHosts(ns) = HostsOf(Head(ns)) \cup AllHosts(Tail(ns))
           /\ \A i \in DOMAIN Tail(ns) : i + 1 \in DOMAIN ns /\ Tail(ns)[i] = ns[i + 1]
           /\ 1 \in DOMAIN ns /\ Head(ns) = ns[1]
<1>1. /\ Len(ns) \in Nat /\ Len(ns) >= 1 /\ DOMAIN ns = 1..Len(ns) /\ 1 \in DOMAIN ns
      /\ Head(ns) \in Network /\ Tail(ns) \in Seq(Network) /\ Head(ns) = ns[1]
      /\ DOMAIN Tail(ns) = 1..(Len(ns) - 1)
      /\ \A i \in 1..(Len(ns) - 1) : Tail(ns)[i] = ns[i + 1]
  OBVIOUS
<1>2. \A i \in DOMAIN Tail(ns) : i + 1 \in DOMAIN ns /\ Tail(ns)[i] = ns[i + 1]
  BY <1>1
<1>3. \A i \in DOMAIN ns : i # 1 => \E j \in DOMAIN Tail(ns) : Tail(ns)[j] = ns[i]
  <2>. TAKE i \in DOMAIN ns
  <2>1. i # 1 => i - 1 \in DOMAIN Tail(ns) /\ Tail(ns)[i - 1] = ns[i]
    BY <1>1
  <2>. QED  BY <2>1
<1>4. ASSUME NEW a PROVE a \in AllHosts(ns) <=> a \in HostsOf(Head(ns)) \/ a \in AllHosts(Tail(ns))
  <2>1. a \in AllHosts(ns) <=> \E i \in DOMAIN ns : a \in HostsOf(ns[i])
    BY Zenon DEF AllHosts
  <2>2. a \in AllHosts(Tail(ns)) <=> \E i \in DOMAIN Tail(ns) : a \in HostsOf(Tail(ns)[i])
    BY Zenon DEF AllHosts
  <2>. QED  BY <1>1, <1>2, <1>3, <2>1, <2>2, Zenon
<1>5. AllHosts(ns) = HostsOf(Head(ns)) \cup AllHosts(Tail(ns))
  BY <1>4
<1>. QED  BY <1>1, <1>2, <1>5

LEMMA NoHosts == AllHosts(<<>>) = {}
  BY DEF AllHosts

\* The sizes of the address space and of the sweep.
LEMMA Sizes == /\ Width \in Nat \ {0} /\ Space \in Nat \ {0} /\ Addresses = 0..(Space - 1)
               /\ DiscoveryConcurrency \in Nat \ {0} /\ MaximumDiscoveryHosts \in Nat
  BY DiscoveryAssumption, Powers DEF Space, Addresses

\* What the API lists are addresses.
LEMMA KnownFinite == ASSUME NEW known \in Inventories PROVE IsFiniteSet(known)
<1>1. IsFiniteSet(Addresses)
  BY Sizes, FS_Interval
<1>. QED  BY <1>1, DiscoveryAssumption, FS_Subset

-----------------------------------------------------------------------------
(* The sweep.                                                              *)

\* The hosts that hold a slot.
ProbingHosts == {h \in targets : phase[h] = "probing"}

\* What holds while the tasks run.
SweepInv ==
    pc = "probe" =>
        /\ phase \in [targets -> {"queued", "probing", "done"}]
        /\ free \in Nat
        /\ free + Cardinality(ProbingHosts) = DiscoveryConcurrency
        /\ channel \cup found = device
        /\ closed => \A h \in targets : phase[h] = "done"

\* Before the tasks start, the call has its slots and its empty lists.
ExpandInv ==
    pc = "expand" =>
        /\ free = DiscoveryConcurrency
        /\ device = {} /\ channel = {} /\ found = {}
        /\ closed = FALSE

DiscoveryIInv ==
    /\ pc \in {"idle", "expand", "probe"}
    /\ IsFiniteSet(targets)
    /\ ExpandInv
    /\ SweepInv
    /\ FoundIsComplete

LEMMA InitDiscovery == Init => DiscoveryIInv
  BY FS_EmptySet DEF Init, DiscoveryIInv, ExpandInv, SweepInv, FoundIsComplete

\* Tasks that have just been created hold no slot.
LEMMA StartIInv ==
    ASSUME NEW addresses, IsFiniteSet(addresses), StartProbes(addresses),
           free' = DiscoveryConcurrency, device' = {}, channel' = {}, found' = {},
           closed' = FALSE
    PROVE  DiscoveryIInv'
<1>1. ProbingHosts' = {}
  BY DEF StartProbes, ProbingHosts
<1>2. free' \in Nat /\ free' + Cardinality(ProbingHosts') = DiscoveryConcurrency
  BY <1>1, FS_EmptySet, DiscoveryAssumption
<1>3. phase' \in [targets' -> {"queued", "probing", "done"}]
  BY DEF StartProbes
<1>4. QED
  BY <1>2, <1>3 DEF StartProbes, DiscoveryIInv, ExpandInv, SweepInv, FoundIsComplete

\* A call that ends before it probes anything returns nothing.
LEMMA EndCallIInv ==
    ASSUME NEW result, EndCall(result), Reset PROVE DiscoveryIInv'
  BY FS_EmptySet DEF EndCall, NoTargets, Reset, DiscoveryIInv, ExpandInv, SweepInv, FoundIsComplete

LEMMA CallIInv ==
    ASSUME \/ \E configured \in Configurations : Scan(configured)
           \/ \E known \in Inventories : Collect(known)
    PROVE  DiscoveryIInv'
<1>1. ASSUME NEW configured \in Configurations, Scan(configured) PROVE DiscoveryIInv'
  <2>1. CASE \E result : EndCall(result)
    BY <1>1, <2>1, EndCallIInv DEF Scan
  <2>2. CASE pc' = "expand" /\ NoTargets
    BY <1>1, <2>2, FS_EmptySet
    DEF Scan, NoTargets, Reset, DiscoveryIInv, ExpandInv, SweepInv, FoundIsComplete
  <2>3. QED  BY <1>1, <2>1, <2>2 DEF Scan
<1>2. ASSUME NEW known \in Inventories, Collect(known) PROVE DiscoveryIInv'
  <2>1. CASE known = {}
    BY <1>2, <2>1, EndCallIInv DEF Collect
  <2>2. CASE known # {}
    BY <1>2, <2>2, StartIInv, KnownFinite DEF Collect, Reset
  <2>3. QED  BY <2>1, <2>2
<1>3. QED  BY <1>1, <1>2

LEMMA ExpandIInv ==
    ASSUME DiscoveryIInv, YieldAddress \/ NextNetwork \/ Expanded PROVE DiscoveryIInv'
<1>1. CASE YieldAddress
  <2>1. IsFiniteSet(targets')
    BY <1>1, FS_AddElement DEF YieldAddress, DiscoveryIInv
  <2>2. QED
    BY <1>1, <2>1 DEF YieldAddress, DiscoveryIInv, ExpandInv, SweepInv, FoundIsComplete
<1>2. CASE NextNetwork
  BY <1>2 DEF NextNetwork, DiscoveryIInv, ExpandInv, SweepInv, FoundIsComplete
<1>3. CASE Expanded
  BY <1>3, StartIInv DEF Expanded, DiscoveryIInv, ExpandInv
<1>4. QED  BY <1>1, <1>2, <1>3

\* A slot taken: one more host is being probed, one slot fewer is free.
LEMMA TakeSlotIInv ==
    ASSUME DiscoveryIInv, NEW h \in targets, TakeSlot(h) PROVE DiscoveryIInv'
<1> USE DEF DiscoveryIInv, SweepInv
<1>1. pc = "probe" /\ targets' = targets
  BY DEF TakeSlot, callVars
<1>2. ProbingHosts' = ProbingHosts \cup {h} /\ h \notin ProbingHosts
  BY <1>1 DEF TakeSlot, ProbingHosts
<1>3. IsFiniteSet(ProbingHosts)
  BY FS_Subset DEF ProbingHosts
<1>4. Cardinality(ProbingHosts') = Cardinality(ProbingHosts) + 1
  BY <1>2, <1>3, FS_AddElement
<1>5. Cardinality(ProbingHosts) \in Nat
  BY <1>3, FS_CardinalityType
<1>6. free' = free - 1 /\ free > 0
  BY DEF TakeSlot
<1>7. free' \in Nat /\ free' + Cardinality(ProbingHosts') = DiscoveryConcurrency
  BY <1>1, <1>4, <1>5, <1>6
<1>8. ~closed /\ closed' = closed
  BY <1>1 DEF TakeSlot
<1>9. QED
  BY <1>1, <1>7, <1>8 DEF TakeSlot, callVars, ExpandInv, FoundIsComplete

\* A task that ends gives its slot back, and writes at most its own host.
LEMMA ReleaseIInv ==
    ASSUME DiscoveryIInv, NEW h \in targets, Probing(h), ReleaseSlot(h),
           channel' \cup found = device', UNCHANGED <<callVars, closed, found>>
    PROVE  DiscoveryIInv'
<1> USE DEF DiscoveryIInv, SweepInv
<1>1. pc = "probe" /\ targets' = targets /\ pc' = pc /\ closed' = closed
  BY DEF Probing, callVars
<1>2. ProbingHosts' = ProbingHosts \ {h} /\ h \in ProbingHosts
  BY <1>1 DEF Probing, ReleaseSlot, TaskOver, ProbingHosts
<1>3. IsFiniteSet(ProbingHosts)
  BY FS_Subset DEF ProbingHosts
<1>4. Cardinality(ProbingHosts') = Cardinality(ProbingHosts) - 1
  BY <1>2, <1>3, FS_RemoveElement
<1>5. Cardinality(ProbingHosts) \in Nat
  BY <1>3, FS_CardinalityType
<1>6. free' = free + 1
  BY DEF ReleaseSlot
<1>7. free' \in Nat /\ free' + Cardinality(ProbingHosts') = DiscoveryConcurrency
  BY <1>1, <1>4, <1>5, <1>6, Sizes
<1>8. phase' \in [targets' -> {"queued", "probing", "done"}]
  BY <1>1 DEF ReleaseSlot, TaskOver
<1>9. ~closed
  BY <1>1 DEF Probing
<1>10. channel' \cup found' = device'
  OBVIOUS
<1>11. QED
  BY <1>1, <1>7, <1>8, <1>9, <1>10 DEF callVars, ExpandInv, FoundIsComplete

LEMMA TaskIInv ==
    ASSUME DiscoveryIInv, NEW h \in targets, Task(h) PROVE DiscoveryIInv'
<1>1. CASE TakeSlot(h)
  BY <1>1, TakeSlotIInv
<1>2. ASSUME NEW p \in Protocols, ProbeEnds(h, p) PROVE DiscoveryIInv'
  BY <1>2 DEF ProbeEnds, Probing, callVars, DiscoveryIInv, ExpandInv, SweepInv, ProbingHosts, FoundIsComplete
<1>3. CASE AllProbesEnded(h) \/ CeilingReached(h)
  <2>1. Probing(h) /\ Conclude(h)
    BY <1>3 DEF AllProbesEnded, CeilingReached
  <2>2. channel' \cup found = device'
    BY <2>1 DEF Conclude, DiscoveryIInv, SweepInv, Probing
  <2>3. QED  BY <2>1, <2>2, ReleaseIInv DEF Conclude
<1>4. CASE ProbeThrows(h)
  <2>1. channel' \cup found = device'
    BY <1>4 DEF ProbeThrows, DiscoveryIInv, SweepInv, Probing
  <2>2. QED  BY <1>4, <2>1, ReleaseIInv DEF ProbeThrows
<1>5. QED  BY <1>1, <1>2, <1>3, <1>4 DEF Task

LEMMA ChannelIInv ==
    ASSUME DiscoveryIInv, CompleteChannel \/ ReadDevice \/ Return \/ Cancel PROVE DiscoveryIInv'
<1> USE DEF DiscoveryIInv, ExpandInv, SweepInv, ProbingHosts, FoundIsComplete
<1>1. CASE CompleteChannel
  BY <1>1 DEF CompleteChannel, callVars
<1>2. CASE ReadDevice
  BY <1>2 DEF ReadDevice, callVars
<1>3. CASE Return
  BY <1>3 DEF Return
<1>4. CASE Cancel
  BY <1>4 DEF Cancel
<1>5. QED  BY <1>1, <1>2, <1>3, <1>4

LEMMA DiscoveryStep == DiscoveryIInv /\ [Next]_vars => DiscoveryIInv'
<1> SUFFICES ASSUME DiscoveryIInv, [Next]_vars PROVE DiscoveryIInv'
  OBVIOUS
<1>1. CASE UNCHANGED vars
  BY <1>1 DEF vars, DiscoveryIInv, ExpandInv, SweepInv, ProbingHosts, FoundIsComplete
<1>2. CASE Next
  BY <1>2, CallIInv, ExpandIInv, TaskIInv, ChannelIInv DEF Next
<1>3. QED  BY <1>1, <1>2

\* In every state of a sweep slots and tasks add up, and no device a task has
\* produced is lost on its way to the result.
THEOREM DiscoveryInductive == Spec => []DiscoveryIInv
  BY InitDiscovery, DiscoveryStep, PTL DEF Spec

(* No ending of a probe loses a slot (the finally block of                 *)
(* ProbeTargetsAsync), for any number of hosts and slots.                  *)
THEOREM SlotsAlwaysAccounted == Spec => []SlotsAccounted
<1>1. DiscoveryIInv => SlotsAccounted
  BY DEF DiscoveryIInv, SweepInv, SlotsAccounted, ProbingHosts
<1>2. QED  BY DiscoveryInductive, <1>1, PTL

(* A sweep that returns has probed every target and returns exactly the    *)
(* devices its probes produced (ProbeTargetsAsync).                        *)
THEOREM FoundAlwaysComplete == Spec => []FoundIsComplete
<1>1. DiscoveryIInv => FoundIsComplete
  BY DEF DiscoveryIInv
<1>2. QED  BY DiscoveryInductive, <1>1, PTL

-----------------------------------------------------------------------------
(* What is probed.                                                         *)

\* The hosts of the networks that the expansion has still to come to.
Yet == IF todo = <<>> THEN {}
       ELSE {a \in HostsOf(Head(todo)) : cursor <= a} \cup AllHosts(Tail(todo))

\* What is probed, and what is still to be added to it, are the hosts of the
\* networks, which were counted before.
Expanding ==
    pc = "expand" =>
        /\ networks # <<>> /\ EstimatedHosts(networks) <= MaximumDiscoveryHosts
        /\ todo \in Seq(Network) /\ \A i \in DOMAIN todo : LoopEnds(todo[i])
        /\ todo # <<>> => FirstHost(Head(todo)) <= cursor
        /\ targets \cup Yet = AllHosts(networks)
Bounded ==
    networks # <<>> =>
        /\ networks \in Seq(Network)
        /\ targets \subseteq AllHosts(networks)
        /\ targets = {} \/ EstimatedHosts(networks) <= MaximumDiscoveryHosts
\* The part of TypeOK that the sweep above has not shown.
ScanTypes ==
    /\ outcome \in {"none", "returned", "refused", "cancelled"}
    /\ networks \in Configurations \cup {LocalNetworks, <<>>}
    /\ cursor \in 0..Space
    /\ targets \subseteq Addresses
    /\ heard \subseteq targets
    /\ pc = "probe" => answers \in [targets -> [Protocols -> {"pending", "silent", "answered"}]]
    /\ free \in 0..DiscoveryConcurrency
    /\ closed \in BOOLEAN
    /\ device \cup channel \cup found \subseteq targets
ScanIInv == ScanTypes /\ Expanding /\ Bounded /\ TargetsAreTheHosts

LEMMA InitScan == Init => ScanIInv
<1>. SUFFICES ASSUME Init PROVE ScanIInv
  OBVIOUS
<1>1. 0 \in 0..Space /\ DiscoveryConcurrency \in 0..DiscoveryConcurrency
  BY Sizes
<1>2. ScanTypes
  BY <1>1 DEF Init, ScanTypes
<1>. QED  BY <1>2 DEF Init, ScanIInv, Expanding, Bounded, TargetsAreTheHosts

\* The loop variable goes up by one, and ends after the last host.
LEMMA SuccessorIs ==
    ASSUME NEW n \in Network, LoopEnds(n), NEW c \in Nat, c <= LastHost(n)
    PROVE  Successor(n, c) = c + 1 /\ c + 1 \in 0..Space
<1>1. LastHost(n) \in -1..(Space - 1)
  BY HostsAre
<1>2. CASE n.kind = "single"
  BY <1>1, <1>2, Sizes DEF Successor
<1>3. CASE n.kind # "single"
  <2>1. c + 1 < Space
    BY <1>1, <1>3, Sizes DEF LoopEnds
  <2>2. (c + 1) % Space = c + 1
    BY <2>1, Sizes
  <2>. QED  BY <1>3, <2>1, <2>2, Sizes DEF Successor
<1>. QED  BY <1>2, <1>3

LEMMA ScanStarts ==
    ASSUME ScanIInv, NEW configured \in Configurations, Scan(configured)
    PROVE  ScanIInv'
<1>. DEFINE chosen == IF configured = <<>> THEN LocalNetworks ELSE configured
<1>1. /\ chosen \in Configurations \cup {LocalNetworks}
      /\ chosen \in Seq(Network) /\ \A i \in DOMAIN chosen : LoopEnds(chosen[i])
  BY DiscoveryAssumption
<1>2. /\ pc = "idle" /\ Reset /\ networks' = chosen /\ todo' = chosen
      /\ cursor' = IF chosen = <<>> THEN 0 ELSE FirstHost(Head(chosen))
      /\ IF chosen = <<>> THEN EndCall("returned")
         ELSE IF EstimatedHosts(chosen) > MaximumDiscoveryHosts THEN EndCall("refused")
         ELSE pc' = "expand" /\ outcome' = "none" /\ NoTargets
  BY DEF Scan
<1>. HIDE DEF chosen
<1>3. chosen # <<>> => /\ Head(chosen) \in Network /\ FirstHost(Head(chosen)) \in Addresses
                       /\ HostsOf(Head(chosen)) = FirstHost(Head(chosen))..LastHost(Head(chosen))
                       /\ LastHost(Head(chosen)) \in -1..(Space - 1)
                       /\ AllHosts(chosen) = HostsOf(Head(chosen)) \cup AllHosts(Tail(chosen))
                       /\ EstimatedHosts(chosen) \in Nat
  BY <1>1, AllHostsOf, HostsAre, EstimateSuffices
<1>4. /\ targets' = {} /\ heard' = {} /\ pc' \in {"idle", "expand"}
      /\ outcome' \in {"none", "returned", "refused", "cancelled"}
      /\ device' = {} /\ free' = DiscoveryConcurrency /\ channel' = {} /\ closed' = FALSE /\ found' = {}
  BY <1>2 DEF EndCall, NoTargets, Reset
<1>5. cursor' \in 0..Space
  BY <1>2, <1>3, Sizes
<1>6. ScanTypes'
  <2>1. free' \in 0..DiscoveryConcurrency
    BY <1>4, Sizes
  <2>. QED  BY <1>1, <1>2, <1>4, <1>5, <2>1 DEF ScanTypes
<1>7. ASSUME pc' = "expand" PROVE /\ networks' # <<>> /\ EstimatedHosts(networks') <= MaximumDiscoveryHosts
                                  /\ todo' # <<>> /\ cursor' = FirstHost(Head(todo'))
                                  /\ Yet' = AllHosts(networks')
  <2>1. chosen # <<>> /\ EstimatedHosts(chosen) <= MaximumDiscoveryHosts
    BY <1>2, <1>3, <1>7, Sizes DEF EndCall
  <2>2. {a \in HostsOf(Head(chosen)) : FirstHost(Head(chosen)) <= a} = HostsOf(Head(chosen))
    BY <1>3, <2>1, Sizes
  <2>. QED  BY <1>2, <1>3, <2>1, <2>2 DEF Yet
<1>8. Expanding'
  <2>1. pc' = "expand" => FirstHost(Head(todo')) <= cursor'
    BY <1>2, <1>3, <1>7, Sizes
  <2>. QED  BY <1>1, <1>2, <1>4, <1>7, <2>1 DEF Expanding
<1>9. Bounded' /\ TargetsAreTheHosts'
  BY <1>1, <1>2, <1>4 DEF Bounded, TargetsAreTheHosts
<1>. QED  BY <1>6, <1>8, <1>9 DEF ScanIInv

LEMMA CollectStarts ==
    ASSUME ScanIInv, NEW known \in Inventories, Collect(known)
    PROVE  ScanIInv'
<1>1. /\ networks' = <<>> /\ cursor' = 0 /\ outcome' \in {"none", "returned"}
      /\ pc' # "expand" /\ targets' = known /\ heard' \subseteq known
      /\ pc' = "probe" => answers' = [h \in known |-> Unanswered]
  BY DEF Collect, EndCall, NoTargets, StartProbes
<1>2. device' = {} /\ free' = DiscoveryConcurrency /\ channel' = {} /\ closed' = FALSE /\ found' = {}
  BY DEF Collect, Reset
<1>3. known \subseteq Addresses
  BY DiscoveryAssumption
<1>4. ScanTypes'
  <2>1. free' \in 0..DiscoveryConcurrency /\ cursor' \in 0..Space
    BY <1>1, <1>2, Sizes
  <2>2. pc' = "probe" => answers' \in [targets' -> [Protocols -> {"pending", "silent", "answered"}]]
    BY <1>1 DEF Unanswered
  <2>. QED  BY <1>1, <1>2, <1>3, <2>1, <2>2 DEF ScanTypes
<1>5. Expanding' /\ Bounded' /\ TargetsAreTheHosts'
  BY <1>1 DEF Expanding, Bounded, TargetsAreTheHosts
<1>. QED  BY <1>4, <1>5 DEF ScanIInv

LEMMA YieldScan == ASSUME ScanIInv, YieldAddress PROVE ScanIInv'
<1>1. PICK n : n = Head(todo)
  OBVIOUS
<1>2. /\ pc = "expand" /\ pc' = pc /\ todo # <<>> /\ cursor <= LastHost(n)
      /\ targets' = targets \cup {cursor} /\ cursor' = Successor(n, cursor)
      /\ UNCHANGED <<outcome, networks, todo, heard, device, free, channel, closed, found>>
  BY <1>1 DEF YieldAddress
<1>3. /\ todo \in Seq(Network) /\ networks # <<>> /\ EstimatedHosts(networks) <= MaximumDiscoveryHosts
      /\ \A i \in DOMAIN todo : LoopEnds(todo[i])
      /\ FirstHost(n) <= cursor /\ targets \cup Yet = AllHosts(networks)
  BY <1>1, <1>2 DEF ScanIInv, Expanding
<1>4. n \in Network /\ LoopEnds(n)
  BY <1>1, <1>2, <1>3, AllHostsOf
<1>5. /\ FirstHost(n) \in 0..(Space - 1) /\ LastHost(n) \in -1..(Space - 1)
      /\ HostsOf(n) = FirstHost(n)..LastHost(n)
  BY <1>4, HostsAre, Sizes
<1>6. cursor \in Nat /\ cursor \in HostsOf(n) /\ cursor \in Addresses
  BY <1>2, <1>3, <1>5, Sizes DEF ScanIInv, ScanTypes
<1>7. cursor' = cursor + 1 /\ cursor' \in 0..Space
  BY <1>2, <1>4, <1>6, SuccessorIs
<1>8. {cursor} \cup {a \in HostsOf(n) : cursor + 1 <= a} = {a \in HostsOf(n) : cursor <= a}
  BY <1>5, <1>6, Sizes
<1>9. targets' \cup Yet' = AllHosts(networks')
  <2>1. Yet = {a \in HostsOf(n) : cursor <= a} \cup AllHosts(Tail(todo))
    BY <1>1, <1>2 DEF Yet
  <2>2. Yet' = {a \in HostsOf(n) : cursor + 1 <= a} \cup AllHosts(Tail(todo))
    BY <1>1, <1>2, <1>7 DEF Yet
  <2>. QED  BY <1>2, <1>3, <1>8, <2>1, <2>2
<1>10. Expanding'
  BY <1>1, <1>2, <1>3, <1>5, <1>6, <1>7, <1>9 DEF Expanding
<1>11. ScanTypes'
  BY <1>2, <1>6, <1>7 DEF ScanIInv, ScanTypes
<1>12. Bounded' /\ TargetsAreTheHosts'
  BY <1>2, <1>3, <1>9 DEF ScanIInv, Bounded, TargetsAreTheHosts
<1>. QED  BY <1>10, <1>11, <1>12 DEF ScanIInv

LEMMA NextNetworkScan == ASSUME ScanIInv, NextNetwork PROVE ScanIInv'
<1>1. PICK n, rest : n = Head(todo) /\ rest = Tail(todo)
  OBVIOUS
<1>2. /\ pc = "expand" /\ pc' = pc /\ todo # <<>> /\ cursor > LastHost(n) /\ todo' = rest
      /\ cursor' = IF rest = <<>> THEN cursor ELSE FirstHost(Head(rest))
      /\ UNCHANGED <<outcome, networks, targets, heard, device, free, channel, closed, found>>
  BY <1>1 DEF NextNetwork
<1>3. /\ todo \in Seq(Network) /\ networks # <<>> /\ EstimatedHosts(networks) <= MaximumDiscoveryHosts
      /\ \A i \in DOMAIN todo : LoopEnds(todo[i])
      /\ targets \cup Yet = AllHosts(networks) /\ cursor \in 0..Space
  BY <1>2 DEF ScanIInv, ScanTypes, Expanding
<1>4. /\ n \in Network /\ rest \in Seq(Network) /\ \A i \in DOMAIN rest : LoopEnds(rest[i])
  BY <1>1, <1>2, <1>3, AllHostsOf
<1>5. rest # <<>> => /\ Head(rest) \in Network /\ FirstHost(Head(rest)) \in Addresses
                     /\ HostsOf(Head(rest)) = FirstHost(Head(rest))..LastHost(Head(rest))
                     /\ LastHost(Head(rest)) \in -1..(Space - 1)
                     /\ AllHosts(rest) = HostsOf(Head(rest)) \cup AllHosts(Tail(rest))
  BY <1>4, AllHostsOf, HostsAre
<1>6. Yet = AllHosts(rest)
  <2>1. HostsOf(n) = FirstHost(n)..LastHost(n) /\ FirstHost(n) \in Int /\ LastHost(n) \in Int
    BY <1>4, HostsAre, Sizes
  <2>2. {a \in HostsOf(n) : cursor <= a} = {}
    BY <1>2, <1>3, <2>1, Sizes
  <2>. QED  BY <1>1, <1>2, <2>2 DEF Yet
<1>7. Yet' = AllHosts(rest)
  <2>1. CASE rest = <<>>
    BY <1>2, <2>1, NoHosts DEF Yet
  <2>2. CASE rest # <<>>
    <3>1. {a \in HostsOf(Head(rest)) : FirstHost(Head(rest)) <= a} = HostsOf(Head(rest))
      BY <1>5, <2>2, Sizes
    <3>. QED  BY <1>2, <1>5, <2>2, <3>1 DEF Yet
  <2>. QED  BY <2>1, <2>2
<1>8. cursor' \in 0..Space /\ (rest # <<>> => FirstHost(Head(rest)) <= cursor')
  BY <1>2, <1>3, <1>5, Sizes
<1>9. Expanding'
  BY <1>2, <1>3, <1>4, <1>6, <1>7, <1>8 DEF Expanding
<1>10. ScanTypes'
  BY <1>2, <1>8 DEF ScanIInv, ScanTypes
<1>11. Bounded' /\ TargetsAreTheHosts'
  BY <1>2 DEF ScanIInv, Bounded, TargetsAreTheHosts
<1>. QED  BY <1>9, <1>10, <1>11 DEF ScanIInv

LEMMA ExpandedScan == ASSUME ScanIInv, Expanded PROVE ScanIInv'
<1>1. /\ pc = "expand" /\ todo = <<>> /\ pc' = "probe" /\ targets' = targets
      /\ heard' \subseteq targets /\ answers' = [h \in targets |-> Unanswered]
      /\ UNCHANGED <<outcome, networks, cursor, device, free, channel, closed, found>>
  BY DEF Expanded, StartProbes
<1>2. targets = AllHosts(networks)
  BY <1>1 DEF ScanIInv, Expanding, Yet
<1>3. ScanTypes'
  BY <1>1 DEF ScanIInv, ScanTypes, Unanswered
<1>4. Expanding' /\ Bounded' /\ TargetsAreTheHosts'
  BY <1>1, <1>2 DEF ScanIInv, Expanding, Bounded, TargetsAreTheHosts, AllHosts
<1>. QED  BY <1>3, <1>4 DEF ScanIInv

\* A task leaves alone what is probed; its slot is one of those there are.
LEMMA TaskScan ==
    ASSUME ScanIInv, DiscoveryIInv, DiscoveryIInv', NEW h \in targets, Task(h)
    PROVE  ScanIInv'
<1>1. pc = "probe" /\ UNCHANGED callVars /\ UNCHANGED <<closed, found>>
  BY DEF Task, TakeSlot, ProbeEnds, AllProbesEnded, CeilingReached, ProbeThrows, Probing, Conclude
<1>2. answers \in [targets -> [Protocols -> {"pending", "silent", "answered"}]]
  BY <1>1 DEF ScanIInv, ScanTypes
<1>3. answers' \in [targets -> [Protocols -> {"pending", "silent", "answered"}]]
  <2>1. \/ answers' = answers
        \/ answers' = [answers EXCEPT ![h] = Unanswered]
        \/ \E p \in Protocols, a \in {"silent", "answered"} : answers' = [answers EXCEPT ![h][p] = a]
    BY DEF Task, TakeSlot, ProbeEnds, AllProbesEnded, CeilingReached, ProbeThrows, Conclude, ReleaseSlot, TaskOver
  <2>. QED  BY <1>2, <2>1 DEF Unanswered
<1>4. device' \cup channel' \subseteq device \cup channel \cup {h}
  BY DEF Task, TakeSlot, ProbeEnds, AllProbesEnded, CeilingReached, ProbeThrows, Conclude
<1>5. free' \in 0..DiscoveryConcurrency
  <2>1. pc' = "probe" /\ IsFiniteSet(targets')
    BY <1>1 DEF callVars, DiscoveryIInv
  <2>2. free' \in Nat /\ free' + Cardinality(ProbingHosts') = DiscoveryConcurrency
    BY <2>1 DEF DiscoveryIInv, SweepInv
  <2>3. ProbingHosts' \subseteq targets'
    BY DEF ProbingHosts
  <2>4. Cardinality(ProbingHosts') \in Nat
    BY <2>1, <2>3, FS_Subset, FS_CardinalityType
  <2>. QED  BY <2>2, <2>4, Sizes
<1>6. ScanTypes'
  BY <1>1, <1>3, <1>4, <1>5 DEF ScanIInv, ScanTypes, callVars
<1>7. Expanding' /\ Bounded' /\ TargetsAreTheHosts'
  BY <1>1 DEF ScanIInv, Expanding, Bounded, TargetsAreTheHosts, callVars
<1>. QED  BY <1>6, <1>7 DEF ScanIInv

LEMMA ChannelScan ==
    ASSUME ScanIInv, CompleteChannel \/ ReadDevice \/ Return \/ Cancel PROVE ScanIInv'
<1>1. /\ UNCHANGED <<networks, cursor, targets, heard, answers, free>>
      /\ pc = "probe" /\ pc' \in {"probe", "idle"}
      /\ outcome' \in {outcome, "returned", "cancelled"}
      /\ closed' \in {closed, TRUE}
      /\ device' \cup channel' \cup found' \subseteq device \cup channel \cup found
  BY DEF CompleteChannel, ReadDevice, Return, Cancel, callVars
<1>2. ScanTypes'
  BY <1>1 DEF ScanIInv, ScanTypes
<1>3. Expanding' /\ Bounded' /\ TargetsAreTheHosts'
  BY <1>1 DEF ScanIInv, Expanding, Bounded, TargetsAreTheHosts
<1>. QED  BY <1>2, <1>3 DEF ScanIInv

LEMMA ScanStep == ScanIInv /\ DiscoveryIInv /\ DiscoveryIInv' /\ [Next]_vars => ScanIInv'
<1>. SUFFICES ASSUME ScanIInv, DiscoveryIInv, DiscoveryIInv', [Next]_vars PROVE ScanIInv'
  OBVIOUS
<1>1. CASE UNCHANGED vars
  BY <1>1 DEF vars, ScanIInv, ScanTypes, Expanding, Bounded, TargetsAreTheHosts, Yet
<1>2. CASE Next
  BY <1>2, ScanStarts, CollectStarts, YieldScan, NextNetworkScan, ExpandedScan, TaskScan, ChannelScan DEF Next
<1>. QED  BY <1>1, <1>2

\* A call works on what it should: exactly the configured hosts, never more
\* than the limit, however networks overlap, with the slots there are.
THEOREM ScansWhatItShould == Spec => []Consistent
<1>1. Spec => []ScanIInv
  BY InitScan, ScanStep, DiscoveryInductive, PTL DEF Spec
<1>2. ScanIInv /\ DiscoveryIInv => TypeOK
  BY DEF ScanIInv, ScanTypes, DiscoveryIInv, SweepInv, TypeOK
<1>3. ScanIInv => WithinLimit
  <2>. SUFFICES ASSUME ScanIInv, networks # <<>> PROVE Cardinality(targets) <= MaximumDiscoveryHosts
    BY DEF WithinLimit
  <2>1. CASE targets = {}
    BY <2>1, FS_EmptySet, Sizes
  <2>2. CASE EstimatedHosts(networks) <= MaximumDiscoveryHosts
    <3>1. networks \in Seq(Network) /\ targets \subseteq AllHosts(networks)
      BY DEF ScanIInv, Bounded
    <3>2. /\ IsFiniteSet(AllHosts(networks)) /\ EstimatedHosts(networks) \in Nat
          /\ Cardinality(AllHosts(networks)) <= EstimatedHosts(networks)
      BY <3>1, EstimateSuffices
    <3>3. /\ Cardinality(targets) \in Nat /\ Cardinality(AllHosts(networks)) \in Nat
          /\ Cardinality(targets) <= Cardinality(AllHosts(networks))
      BY <3>1, <3>2, FS_Subset, FS_CardinalityType
    <3>. QED  BY <2>2, <3>2, <3>3, Sizes
  <2>. QED  BY <2>1, <2>2 DEF ScanIInv, Bounded
<1>. QED  BY <1>1, <1>2, <1>3, DiscoveryInductive, SlotsAlwaysAccounted, PTL DEF ScanIInv, Consistent

-----------------------------------------------------------------------------
(* The stock: its balance, a fold over the movements, exists and is one.   *)

\* What the i-th movement makes of the balance f of those before it.
BalanceOf(s, f, i) ==
    IF i = 0 THEN Start
    ELSE IF s[i].type = "ADJUSTMENT" THEN s[i].amount
    ELSE f[i - 1] + (IF s[i].type = "IN" THEN 1 ELSE -1) * s[i].amount

IsBalance(s, n, f) == f = [i \in 0..n |-> BalanceOf(s, f, i)]

\* Two balances of the same movements agree.
LEMMA BalanceUnique ==
    ASSUME NEW s, NEW n \in Nat, NEW m \in Nat, NEW f, NEW g, n <= m,
           IsBalance(s, n, f), IsBalance(s, m, g)
    PROVE  \A i \in 0..n : f[i] = g[i]
<1>. DEFINE S == {i \in Nat : i <= n => f[i] = g[i]}
<1>0. /\ \A i \in 0..n : f[i] = BalanceOf(s, f, i)
      /\ \A i \in 0..m : g[i] = BalanceOf(s, g, i)
  BY DEF IsBalance
<1>1. 0 \in S
  BY <1>0 DEF BalanceOf
<1>2. ASSUME NEW i \in Nat, i \in S PROVE i + 1 \in S
  <2>. SUFFICES ASSUME i + 1 <= n PROVE f[i + 1] = g[i + 1]
    OBVIOUS
  <2>1. f[i] = g[i] /\ (i + 1) - 1 = i /\ i + 1 \in 0..n /\ i + 1 \in 0..m
    BY <1>2
  <2>2. BalanceOf(s, f, i + 1) = BalanceOf(s, g, i + 1)
    BY <2>1 DEF BalanceOf
  <2>. QED  BY <1>0, <2>1, <2>2
<1>3. Nat \subseteq S
  <2>. HIDE DEF S
  <2>. QED  BY <1>1, <1>2, NumbersAll
<1>. QED  BY <1>3

\* Every sequence of movements has a balance.
LEMMA BalanceExists ==
    ASSUME NEW s, NEW n \in Nat
    PROVE  \E f : IsBalance(s, n, f)
<1>. DEFINE S == {k \in Nat : \E f : IsBalance(s, k, f)}
<1>1. 0 \in S
  <2>. DEFINE f == [i \in 0..0 |-> Start]
  <2>1. f = [i \in 0..0 |-> BalanceOf(s, f, i)]
    BY DEF BalanceOf
  <2>. QED  BY <2>1 DEF IsBalance
<1>2. ASSUME NEW k \in Nat, k \in S PROVE k + 1 \in S
  <2>1. PICK f : IsBalance(s, k, f)
    BY <1>2
  <2>. DEFINE g == [i \in 0..(k + 1) |-> IF i = k + 1 THEN BalanceOf(s, f, i) ELSE f[i]]
  <2>2. \A i \in 0..k : f[i] = BalanceOf(s, f, i)
    BY <2>1 DEF IsBalance
  <2>3. ASSUME NEW i \in 0..(k + 1) PROVE g[i] = BalanceOf(s, g, i)
    <3>1. i # 0 => i - 1 \in 0..k /\ g[i - 1] = f[i - 1]
      OBVIOUS
    <3>2. BalanceOf(s, g, i) = BalanceOf(s, f, i)
      BY <3>1 DEF BalanceOf
    <3>3. g[i] = BalanceOf(s, f, i)
      BY <2>2
    <3>. QED  BY <3>2, <3>3
  <2>4. IsBalance(s, k + 1, g)
    <3>1. g = [i \in 0..(k + 1) |-> g[i]]
      OBVIOUS
    <3>. HIDE DEF g
    <3>. QED  BY <2>3, <3>1 DEF IsBalance
  <2>. QED  BY <2>4
<1>3. Nat \subseteq S
  <2>. HIDE DEF S
  <2>. QED  BY <1>1, <1>2, NumbersAll
<1>. QED  BY <1>3

\* Balance is one.
LEMMA BalanceIsOne ==
    ASSUME Len(movements) \in Nat
    PROVE  IsBalance(movements, Len(movements), Balance)
<1>1. \E f : IsBalance(movements, Len(movements), f)
  BY BalanceExists
<1>2. \E f : f = [i \in 0..Len(movements) |-> 
              IF i = 0 THEN Start
    ELSE IF movements[i].type = "ADJUSTMENT" THEN movements[i].amount
    ELSE f[i - 1] + (IF movements[i].type = "IN" THEN 1 ELSE -1) * movements[i].amount]
  BY <1>1 DEF IsBalance, BalanceOf
<1>3. Balance = [i \in 0..Len(movements) |-> 
              IF i = 0 THEN Start
    ELSE IF movements[i].type = "ADJUSTMENT" THEN movements[i].amount
    ELSE Balance[i - 1] + (IF movements[i].type = "IN" THEN 1 ELSE -1) * movements[i].amount]
  BY <1>2, Zenon DEF Balance
<1>. QED  BY <1>3 DEF IsBalance, BalanceOf

LEMMA BalanceIsOneNext ==
    ASSUME Len(movements') \in Nat
    PROVE  IsBalance(movements', Len(movements'), Balance')
<1>1. \E f : IsBalance(movements', Len(movements'), f)
  BY BalanceExists
<1>2. \E f : f = [i \in 0..Len(movements') |->
          IF i = 0 THEN Start
          ELSE IF movements'[i].type = "ADJUSTMENT" THEN movements'[i].amount
          ELSE f[i - 1] + (IF movements'[i].type = "IN" THEN 1 ELSE -1) * movements'[i].amount]
  BY <1>1 DEF IsBalance, BalanceOf
<1>3. Balance' = [i \in 0..Len(movements') |->
          IF i = 0 THEN Start
          ELSE IF movements'[i].type = "ADJUSTMENT" THEN movements'[i].amount
          ELSE Balance'[i - 1] + (IF movements'[i].type = "IN" THEN 1 ELSE -1) * movements'[i].amount]
  BY <1>2, Zenon DEF Balance
<1>. QED  BY <1>3 DEF IsBalance, BalanceOf

\* The balance of the same movements is the same.
LEMMA BalanceKept ==
    ASSUME movements \in Seq(Movement), UNCHANGED movements
    PROVE  Balance'[Len(movements')] = Balance[Len(movements)]
<1>1. Len(movements) \in Nat /\ Len(movements') = Len(movements)
  OBVIOUS
<1>2. IsBalance(movements, Len(movements), Balance) /\ IsBalance(movements, Len(movements), Balance')
  BY <1>1, BalanceIsOne, BalanceIsOneNext
<1>. QED  BY <1>1, <1>2, BalanceUnique

\* One more movement moves the balance.
LEMMA BalanceStep ==
    ASSUME movements \in Seq(Movement), NEW m \in Movement, movements' = Append(movements, m)
    PROVE  Balance'[Len(movements')] =
             IF m.type = "ADJUSTMENT" THEN m.amount
             ELSE Balance[Len(movements)] + (IF m.type = "IN" THEN 1 ELSE -1) * m.amount
<1>. DEFINE n == Len(movements)
<1>1. /\ n \in Nat /\ Len(movements') = n + 1 /\ movements'[n + 1] = m
      /\ \A i \in 1..n : movements'[i] = movements[i]
  BY AppendProperties
<1>. HIDE DEF n
<1>2. IsBalance(movements, n, Balance) /\ IsBalance(movements', n + 1, Balance')
  BY <1>1, BalanceIsOne, BalanceIsOneNext DEF n
<1>3. \A i \in 0..n : BalanceOf(movements', Balance, i) = BalanceOf(movements, Balance, i)
  BY <1>1 DEF BalanceOf
<1>4. IsBalance(movements', n, Balance)
  BY <1>2, <1>3 DEF IsBalance
<1>5. Balance'[n] = Balance[n]
  <2>1. n <= n + 1 /\ n + 1 \in Nat /\ n \in 0..n
    BY <1>1
  <2>2. \A i \in 0..n : Balance[i] = Balance'[i]
    BY <1>1, <1>2, <1>4, <2>1, BalanceUnique
  <2>. QED  BY <2>1, <2>2
<1>6. Balance'[n + 1] = BalanceOf(movements', Balance', n + 1)
  BY <1>1, <1>2 DEF IsBalance
<1>. QED  BY <1>1, <1>5, <1>6 DEF BalanceOf, n

-----------------------------------------------------------------------------
\* The movement of a part's request takes from the stock; while nothing has
\* been committed since a request read the item, the quantity it computed is
\* what its movement will make of the present one; a request that is about
\* to insert its part has a movement of its own.
InStep(r, steps) == moving[r].step \in steps

FromStock ==
    \A r \in Requests :
        /\ InStep(r, {"commit", "part"}) /\ moving[r].kind = "part"
             => moving[r].movement.type = "OUT" /\ moving[r].movement.amount \in Amounts
        /\ InStep(r, {"part"}) => moving[r].kind = "part"

Computed ==
    quantity # None => \A r \in Requests : InStep(r, {"commit"}) =>
        /\ moving[r].movement.type = "ADJUSTMENT" => moving[r].new = moving[r].movement.amount
        /\ moving[r].seen = Len(movements) => moving[r].new = Moved(quantity, moving[r].movement)
        /\ moving[r].seen <= Len(movements)

Placed ==
    quantity # None => \A r \in Requests : InStep(r, {"part"}) =>
        /\ moving[r].row \in DOMAIN movements
        /\ movements[moving[r].row] = moving[r].movement
        /\ \A i \in DOMAIN parts : parts[i].movement # moving[r].row
        /\ \A q \in Requests : InStep(q, {"part"}) /\ moving[q].row = moving[r].row => q = r

StockIInv == StockTypeOK /\ FromStock /\ Computed /\ Placed /\ LedgerExact /\ PartsTaken

LEMMA IdleMoving == Idle \in Moving /\ Idle.step = "idle"
BY DEF Idle, Moving, Movement, MovementType

LEMMA SpendBound ==
    ASSUME quota \in [Kinds -> Nat], NEW k \in Kinds, Spend(k)
    PROVE  quota' \in [Kinds -> Nat]
BY DEF Spend

LEMMA InitStock == StockInit => StockIInv
<1>. SUFFICES ASSUME StockInit PROVE StockIInv
  OBVIOUS
<1>1. /\ quantity = Start /\ raced = FALSE
      /\ movements = <<>> /\ Len(movements) = 0 /\ DOMAIN movements = {} /\ movements \in Seq(Movement)
      /\ parts = <<>> /\ DOMAIN parts = {} /\ parts \in Seq(Part)
  BY DEF StockInit
<1>2. /\ moving \in [Requests -> Moving]
      /\ \A r \in Requests : moving[r].step = "idle"
  BY IdleMoving DEF StockInit
<1>3. StockTypeOK
  BY <1>1, <1>2, InventoryAssumption DEF StockInit, StockTypeOK
<1>4. FromStock /\ Computed /\ Placed
  BY <1>2 DEF FromStock, Computed, Placed, InStep
<1>5. LedgerExact
  <2>1. IsBalance(movements, 0, Balance)
    BY <1>1, BalanceIsOne
  <2>2. Balance[0] = Start
    BY <2>1 DEF IsBalance, BalanceOf
  <2>. QED  BY <1>1, <2>2 DEF LedgerExact
<1>6. PartsTaken
  BY <1>1 DEF PartsTaken
<1>. QED  BY <1>3, <1>4, <1>5, <1>6 DEF StockIInv

\* A request that neither commits nor adds a part next.
LEMMA SettleStock ==
    ASSUME StockIInv, NEW r \in Requests, NEW v \in Moving, v.step \notin {"commit", "part"},
           moving' = [moving EXCEPT ![r] = v], UNCHANGED <<quantity, movements, parts, raced>>,
           quota' \in [Kinds -> Nat]
    PROVE  StockIInv'
<1>1. \A q \in Requests : moving'[q] = IF q = r THEN v ELSE moving[q]
  BY DEF StockIInv, StockTypeOK
<1>2. StockTypeOK'
  BY DEF StockIInv, StockTypeOK
<1>3. FromStock' /\ Computed' /\ Placed'
  BY <1>1 DEF StockIInv, FromStock, Computed, Placed, InStep
<1>4. LedgerExact'
  BY BalanceKept DEF StockIInv, StockTypeOK, LedgerExact
<1>5. PartsTaken'
  BY DEF StockIInv, PartsTaken
<1>. QED  BY <1>2, <1>3, <1>4, <1>5 DEF StockIInv

LEMMA UnchangedStock == ASSUME StockIInv, UNCHANGED stockVars, quota' \in [Kinds -> Nat] PROVE StockIInv'
<1>1. UNCHANGED <<quantity, movements, parts, moving, raced>>
  BY DEF stockVars
<1>2. StockTypeOK' /\ FromStock' /\ Computed' /\ Placed' /\ PartsTaken'
  BY <1>1 DEF StockIInv, StockTypeOK, FromStock, Computed, Placed, InStep, PartsTaken
<1>3. LedgerExact'
  BY <1>1, BalanceKept DEF StockIInv, StockTypeOK, LedgerExact
<1>. QED  BY <1>2, <1>3 DEF StockIInv

LEMMA ReadItemStock ==
    ASSUME StockIInv, NEW r \in Requests, NEW kind \in {"stock", "part", "replace"}, NEW m \in Movement,
           kind = "part" => m.type = "OUT" /\ m.amount \in Amounts, ReadItem(r, kind, m)
    PROVE  StockIInv'
<1>. DEFINE v == [step |-> "commit", kind |-> kind, movement |-> m,
                  new |-> Moved(quantity, m), seen |-> Len(movements), row |-> 0]
<1>1. /\ quantity # None /\ Moved(quantity, m) >= 0
      /\ moving' = [moving EXCEPT ![r] = v]
      /\ UNCHANGED <<quantity, movements, parts, raced>>
  BY DEF ReadItem, Enough
<1>2. quota' \in [Kinds -> Nat]
  BY SpendBound, InventoryAssumption DEF ReadItem, StockIInv, StockTypeOK
<1>3. quantity \in Nat /\ Len(movements) \in Nat
  BY <1>1 DEF StockIInv, StockTypeOK
<1>4. Moved(quantity, m) \in Nat /\ (m.type = "ADJUSTMENT" => Moved(quantity, m) = m.amount)
  BY <1>1, <1>3, InventoryAssumption DEF Movement, MovementType, Moved
<1>5. v \in Moving
  BY <1>3, <1>4 DEF Moving
<1>6. /\ v.step = "commit" /\ v.kind = kind /\ v.movement = m /\ v.new = Moved(quantity, m)
      /\ v.seen = Len(movements)
  OBVIOUS
<1>. HIDE DEF v
<1>7. \A q \in Requests : moving'[q] = IF q = r THEN v ELSE moving[q]
  BY <1>1 DEF StockIInv, StockTypeOK
<1>8. StockTypeOK'
  BY <1>1, <1>2, <1>5 DEF StockIInv, StockTypeOK
<1>9. FromStock'
  BY <1>6, <1>7 DEF StockIInv, FromStock, InStep
<1>10. Computed'
  <2>1. \A q \in Requests : moving'[q].step = "commit" =>
          /\ moving'[q].movement.type = "ADJUSTMENT" => moving'[q].new = moving'[q].movement.amount
          /\ moving'[q].seen = Len(movements) => moving'[q].new = Moved(quantity, moving'[q].movement)
          /\ moving'[q].seen <= Len(movements)
    BY <1>1, <1>3, <1>4, <1>6, <1>7 DEF StockIInv, Computed, InStep
  <2>. QED  BY <1>1, <2>1 DEF Computed, InStep, Moved
<1>11. Placed'
  BY <1>1, <1>6, <1>7 DEF StockIInv, Placed, InStep
<1>12. LedgerExact'
  BY <1>1, BalanceKept DEF StockIInv, StockTypeOK, LedgerExact
<1>13. PartsTaken'
  BY <1>1 DEF StockIInv, PartsTaken
<1>. QED  BY <1>8, <1>9, <1>10, <1>11, <1>12, <1>13 DEF StockIInv

LEMMA CommitMovementStock ==
    ASSUME StockIInv, NEW r \in Requests, CommitMovement(r)
    PROVE  StockIInv'
<1>. DEFINE m == moving[r].movement
            n == Len(movements)
            v == [moving[r] EXCEPT !.step = AfterMovement(moving[r].kind), !.row = n + 1]
<1>1. /\ moving[r].step = "commit" /\ quantity # None
      /\ movements' = Append(movements, m) /\ quantity' = moving[r].new
      /\ moving' = [moving EXCEPT ![r] = v]
      /\ raced' = (m.type # "ADJUSTMENT" /\ (raced \/ moving[r].seen # n))
      /\ UNCHANGED <<parts, quota>>
  BY DEF CommitMovement
<1>2. /\ moving[r] \in Moving /\ m \in Movement /\ n \in Nat /\ movements \in Seq(Movement)
      /\ quantity \in Nat /\ moving[r].new \in Nat /\ parts \in Seq(Part)
  BY <1>1 DEF StockIInv, StockTypeOK, Moving
<1>3. /\ v \in Moving /\ v.row = n + 1 /\ v.movement = m /\ v.kind = moving[r].kind
      /\ v.step # "commit" /\ (v.step = "part" => v.kind = "part")
  <2>1. /\ AfterMovement(moving[r].kind) \in {"idle", "part", "dismiss"}
        /\ AfterMovement(moving[r].kind) = "part" => moving[r].kind = "part"
    BY <1>2 DEF Moving, AfterMovement
  <2>2. n + 1 \in Nat
    BY <1>2
  <2>3. /\ v \in Moving /\ v.step = AfterMovement(moving[r].kind) /\ v.row = n + 1
        /\ v.movement = m /\ v.kind = moving[r].kind
    <3>. HIDE DEF n, m
    <3>1. moving[r].movement = m
      BY DEF m
    <3>. QED  BY <1>2, <2>1, <2>2, <3>1 DEF Moving
  <2>. QED  BY <2>1, <2>3
<1>4. /\ movements' \in Seq(Movement) /\ Len(movements') = n + 1 /\ movements'[n + 1] = m
      /\ DOMAIN movements = 1..n /\ DOMAIN movements' = 1..(n + 1)
      /\ \A i \in 1..n : movements'[i] = movements[i]
  BY <1>1, <1>2, AppendProperties
<1>5. /\ m.type = "ADJUSTMENT" => moving[r].new = m.amount
      /\ moving[r].seen = n => moving[r].new = Moved(quantity, m)
      /\ \A q \in Requests : moving[q].step = "commit" => moving[q].seen <= n
  BY <1>1 DEF StockIInv, Computed, InStep
<1>6. /\ moving[r].kind = "part" => m.type = "OUT" /\ m.amount \in Amounts
  BY <1>1 DEF StockIInv, FromStock, InStep
<1>7. \A i \in DOMAIN parts : parts[i].movement \in 1..n /\ parts[i].movement # n + 1
  <2>1. \A i \in DOMAIN parts : parts[i].movement \in DOMAIN movements
    BY <1>1 DEF StockIInv, PartsTaken
  <2>. HIDE DEF n
  <2>. QED  BY <1>2, <1>4, <2>1
<1>8. \A q \in Requests : moving[q].step = "part" => moving[q].row \in 1..n /\ moving[q].row # n + 1
  <2>1. \A q \in Requests : moving[q].step = "part" => moving[q].row \in DOMAIN movements
    BY <1>1 DEF StockIInv, Placed, InStep
  <2>. HIDE DEF n
  <2>. QED  BY <1>2, <1>4, <2>1
<1>9. LedgerExact'
  <2>. SUFFICES ASSUME ~raced' PROVE quantity' = Balance'[Len(movements')]
    BY DEF LedgerExact
  <2>1. Balance'[Len(movements')] =
          IF m.type = "ADJUSTMENT" THEN m.amount
          ELSE Balance[n] + (IF m.type = "IN" THEN 1 ELSE -1) * m.amount
    BY <1>1, <1>2, BalanceStep
  <2>2. CASE m.type = "ADJUSTMENT"
    BY <1>1, <1>5, <2>1, <2>2
  <2>3. CASE m.type # "ADJUSTMENT"
    <3>1. ~raced /\ moving[r].seen = n
      BY <1>1, <2>3
    <3>2. quantity = Balance[n]
      BY <1>1, <3>1 DEF StockIInv, LedgerExact
    <3>3. m.type \in {"IN", "OUT"} /\ m.amount \in Nat
      <4>1. m.type \in MovementType /\ m.amount \in Amounts \cup {1}
        BY <1>2 DEF Movement
      <4>2. Amounts \subseteq Nat
        BY InventoryAssumption
      <4>3. m.amount \in Nat
        <5>1. Amounts \cup {1} \subseteq Nat
          BY <4>2
        <5>. HIDE DEF m
        <5>. QED  BY <4>1, <5>1, Zenon
      <4>4. m.type \in {"IN", "OUT"}
        <5>. HIDE DEF m
        <5>. QED  BY <2>3, <4>1 DEF MovementType
      <4>. QED  BY <4>3, <4>4
    <3>. HIDE DEF m, n
    <3>4. quantity' = Moved(quantity, m)
      BY <1>1, <1>5, <3>1
    <3>. QED  BY <1>2, <2>1, <2>3, <3>2, <3>3, <3>4 DEF Moved
  <2>. QED  BY <2>2, <2>3
<1>. HIDE DEF m, n, v
<1>10. \A q \in Requests : moving'[q] = IF q = r THEN v ELSE moving[q]
  BY <1>1 DEF StockIInv, StockTypeOK
<1>11. StockTypeOK'
  <2>1. quantity' \in Nat \cup {None} /\ raced' \in BOOLEAN
    BY <1>1, <1>2 DEF StockIInv, StockTypeOK
  <2>. QED  BY <1>1, <1>3, <1>4, <2>1 DEF StockIInv, StockTypeOK
<1>12. FromStock'
  BY <1>3, <1>6, <1>10 DEF StockIInv, FromStock, InStep
<1>13. Computed'
  <2>1. \A q \in Requests : moving'[q].step = "commit" => q # r /\ moving[q].step = "commit" /\ moving'[q] = moving[q]
    BY <1>3, <1>10
  <2>2. \A q \in Requests : moving'[q].step = "commit" =>
          /\ moving'[q].movement.type = "ADJUSTMENT" => moving'[q].new = moving'[q].movement.amount
          /\ moving'[q].seen <= n
    BY <1>1, <1>5, <2>1 DEF StockIInv, Computed, InStep
  <2>3. \A q \in Requests : moving[q].seen \in Nat
    BY DEF StockIInv, StockTypeOK, Moving
  <2>4. \A q \in Requests : moving'[q].step = "commit" => moving'[q].seen # Len(movements') /\ moving'[q].seen <= Len(movements')
    BY <1>2, <1>4, <2>1, <2>2, <2>3
  <2>. QED  BY <2>2, <2>4 DEF Computed, InStep
<1>14. Placed'
  <2>1. ASSUME NEW q \in Requests, moving'[q].step = "part"
        PROVE  /\ moving'[q].row \in DOMAIN movements'
               /\ movements'[moving'[q].row] = moving'[q].movement
               /\ \A i \in DOMAIN parts : parts[i].movement # moving'[q].row
    <3>1. CASE q = r
      BY <1>2, <1>3, <1>4, <1>7, <1>10, <3>1
    <3>2. CASE q # r
      <4>1. moving'[q] = moving[q]
        BY <1>10, <3>2
      <4>. QED  BY <1>1, <1>2, <1>4, <1>8, <2>1, <4>1 DEF StockIInv, Placed, InStep
    <3>. QED  BY <3>1, <3>2
  <2>2. ASSUME NEW q \in Requests, NEW p \in Requests, moving'[q].step = "part", moving'[p].step = "part",
               moving'[p].row = moving'[q].row
        PROVE  p = q
    <3>1. CASE q = r \/ p = r
      BY <1>3, <1>8, <1>10, <2>2, <3>1
    <3>2. CASE q # r /\ p # r
      BY <1>1, <1>10, <2>2, <3>2 DEF StockIInv, Placed, InStep
    <3>. QED  BY <3>1, <3>2
  <2>. QED  BY <1>1, <2>1, <2>2 DEF Placed, InStep
<1>15. PartsTaken'
  <2>1. \A i \in DOMAIN parts : movements'[parts[i].movement] = movements[parts[i].movement]
                                /\ parts[i].movement \in DOMAIN movements'
    BY <1>2, <1>4, <1>7
  <2>. QED  BY <1>1, <2>1 DEF StockIInv, PartsTaken
<1>. QED  BY <1>9, <1>11, <1>12, <1>13, <1>14, <1>15 DEF StockIInv

LEMMA CreatePartStock ==
    ASSUME StockIInv, NEW r \in Requests, CreatePart(r)
    PROVE  StockIInv'
<1>. DEFINE c == [movement |-> moving[r].row, amount |-> moving[r].movement.amount]
            n == Len(parts)
<1>1. /\ moving[r].step = "part" /\ parts' = Append(parts, c) /\ moving' = [moving EXCEPT ![r] = Idle]
      /\ UNCHANGED <<quantity, movements, raced, quota>>
  BY DEF CreatePart, OwnMovement
<1>2. /\ moving[r].kind = "part" /\ moving[r].movement.type = "OUT" /\ moving[r].movement.amount \in Amounts
  BY <1>1 DEF StockIInv, FromStock, InStep
<1>3. moving[r].movement \in Movement /\ moving[r].row \in Nat /\ parts \in Seq(Part) /\ n \in Nat
  BY DEF StockIInv, StockTypeOK, Moving
<1>4. c \in Part /\ c.movement = moving[r].row /\ c.amount = moving[r].movement.amount
  BY <1>2, <1>3 DEF Part
<1>. HIDE DEF c
<1>5. /\ parts' \in Seq(Part) /\ DOMAIN parts = 1..n /\ DOMAIN parts' = 1..(n + 1) /\ parts'[n + 1] = c
      /\ \A i \in 1..n : parts'[i] = parts[i]
  BY <1>1, <1>3, <1>4, AppendProperties
<1>. HIDE DEF n
<1>6. \A q \in Requests : moving'[q] = IF q = r THEN Idle ELSE moving[q]
  BY <1>1 DEF StockIInv, StockTypeOK
<1>7. StockTypeOK'
  BY <1>1, <1>5, IdleMoving DEF StockIInv, StockTypeOK
<1>8. FromStock' /\ Computed'
  BY <1>1, <1>6, IdleMoving DEF StockIInv, FromStock, Computed, InStep
<1>9. LedgerExact'
  BY <1>1, BalanceKept DEF StockIInv, StockTypeOK, LedgerExact
<1>10. quantity # None =>
          /\ moving[r].row \in DOMAIN movements
          /\ movements[moving[r].row] = moving[r].movement
          /\ \A i \in DOMAIN parts : parts[i].movement # moving[r].row
          /\ \A q \in Requests : moving[q].step = "part" /\ moving[q].row = moving[r].row => q = r
  BY <1>1 DEF StockIInv, Placed, InStep
<1>11. Placed'
  <2>. SUFFICES ASSUME quantity # None, NEW q \in Requests, q # r, moving[q].step = "part"
                PROVE  \A i \in DOMAIN parts' : parts'[i].movement # moving[q].row
    BY <1>1, <1>6, IdleMoving DEF StockIInv, Placed, InStep
  <2>. QED  BY <1>3, <1>4, <1>5, <1>10 DEF StockIInv, Placed, InStep
<1>12. moving[r].movement = [type |-> "OUT", amount |-> c.amount]
  BY <1>2, <1>3, <1>4 DEF Movement
<1>13. PartsTaken'
  <2>. SUFFICES ASSUME quantity # None
                PROVE  /\ \A i \in DOMAIN parts' :
                            /\ parts'[i].movement \in DOMAIN movements
                            /\ movements[parts'[i].movement] = [type |-> "OUT", amount |-> parts'[i].amount]
                       /\ \A i, j \in DOMAIN parts' : parts'[i].movement = parts'[j].movement => i = j
    BY <1>1 DEF PartsTaken
  <2>1. /\ \A i \in DOMAIN parts :
             /\ parts[i].movement \in DOMAIN movements
             /\ movements[parts[i].movement] = [type |-> "OUT", amount |-> parts[i].amount]
        /\ \A i, j \in DOMAIN parts : parts[i].movement = parts[j].movement => i = j
    BY DEF StockIInv, PartsTaken
  <2>2. \A i \in DOMAIN parts' : i = n + 1 \/ i \in DOMAIN parts
    BY <1>3, <1>5
  <2>. QED  BY <1>3, <1>4, <1>5, <1>10, <1>12, <2>1, <2>2
<1>. QED  BY <1>7, <1>8, <1>9, <1>11, <1>13 DEF StockIInv

\* A sequence without its i-th element.
LEMMA RemoveAtProperties ==
    ASSUME NEW S, NEW s \in Seq(S), NEW i \in DOMAIN s
    PROVE  /\ RemoveAt(s, i) \in Seq(S)
           /\ \A j \in DOMAIN RemoveAt(s, i) :
                /\ j \in Nat
                /\ (IF j < i THEN j ELSE j + 1) \in DOMAIN s
                /\ RemoveAt(s, i)[j] = s[IF j < i THEN j ELSE j + 1]
<1>. DEFINE n == Len(s)
            a == SubSeq(s, 1, i - 1)
            b == SubSeq(s, i + 1, n)
<1>1. n \in Nat /\ DOMAIN s = 1..n /\ i \in 1..n /\ \A j \in 1..n : s[j] \in S
  OBVIOUS
<1>. HIDE DEF n
<1>2. a \in Seq(S) /\ Len(a) = i - 1 /\ \A j \in 1..(i - 1) : a[j] = s[j]
  <2>1. i - 1 \in Int /\ 1 \in Int /\ \A j \in 1..(i - 1) : s[j] \in S
    BY <1>1
  <2>2. /\ a \in Seq(S) /\ Len(a) = IF 1 <= i - 1 THEN (i - 1) - 1 + 1 ELSE 0
        /\ \A j \in 1..((i - 1) - 1 + 1) : a[j] = s[1 + j - 1]
    BY <2>1, SubSeqProperties
  <2>. QED  BY <1>1, <2>2
<1>3. b \in Seq(S) /\ Len(b) = n - i /\ \A j \in 1..(n - i) : b[j] = s[i + j]
  <2>1. i + 1 \in Int /\ n \in Int /\ \A j \in (i + 1)..n : s[j] \in S
    BY <1>1
  <2>2. /\ b \in Seq(S) /\ Len(b) = IF i + 1 <= n THEN n - (i + 1) + 1 ELSE 0
        /\ \A j \in 1..(n - (i + 1) + 1) : b[j] = s[(i + 1) + j - 1]
    BY <2>1, SubSeqProperties
  <2>. QED  BY <1>1, <2>2
<1>. HIDE DEF a, b
<1>4. RemoveAt(s, i) = a \o b
  BY DEF RemoveAt, a, b, n
<1>5. /\ a \o b \in Seq(S) /\ Len(a \o b) = n - 1 /\ DOMAIN (a \o b) = 1..(n - 1)
      /\ \A j \in 1..(n - 1) : (a \o b)[j] = IF j <= i - 1 THEN a[j] ELSE b[j - (i - 1)]
  <2>1. /\ a \o b \in Seq(S) /\ Len(a \o b) = Len(a) + Len(b)
        /\ \A j \in 1..(Len(a) + Len(b)) : (a \o b)[j] = IF j <= Len(a) THEN a[j] ELSE b[j - Len(a)]
    BY <1>2, <1>3, ConcatProperties
  <2>2. Len(a) + Len(b) = n - 1
    BY <1>1, <1>2, <1>3
  <2>. QED  BY <1>2, <2>1, <2>2
<1>6. ASSUME NEW j \in 1..(n - 1)
      PROVE  (IF j < i THEN j ELSE j + 1) \in 1..n /\ (a \o b)[j] = s[IF j < i THEN j ELSE j + 1]
  <2>1. CASE j < i
    BY <1>1, <1>2, <1>5, <2>1
  <2>2. CASE ~(j < i)
    <3>1. j - (i - 1) \in 1..(n - i) /\ i + (j - (i - 1)) = j + 1 /\ ~(j <= i - 1)
      BY <1>1, <2>2
    <3>2. (a \o b)[j] = b[j - (i - 1)]
      BY <1>5, <3>1
    <3>3. b[j - (i - 1)] = s[j + 1]
      <4>1. b[j - (i - 1)] = s[i + (j - (i - 1))]
        BY <1>3, <3>1
      <4>. QED  BY <3>1, <4>1
    <3>4. j + 1 \in 1..n
      BY <1>1, <2>2
    <3>. QED  BY <2>2, <3>2, <3>3, <3>4
  <2>. QED  BY <2>1, <2>2
<1>7. \A j \in DOMAIN (a \o b) :
        j \in Nat /\ (IF j < i THEN j ELSE j + 1) \in DOMAIN s /\ (a \o b)[j] = s[IF j < i THEN j ELSE j + 1]
  <2>1. \A j \in 1..(n - 1) : j \in Nat
    BY <1>1
  <2>. QED  BY <1>1, <1>5, <1>6, <2>1
<1>. QED  BY <1>4, <1>5, <1>7

LEMMA RemovePartStock ==
    ASSUME StockIInv, NEW i \in DOMAIN parts, RemovePart(i)
    PROVE  StockIInv'
<1>1. parts' = RemoveAt(parts, i) /\ UNCHANGED <<quantity, movements, moving, raced>>
  BY DEF RemovePart
<1>2. quota' \in [Kinds -> Nat]
  BY SpendBound, InventoryAssumption DEF RemovePart, StockIInv, StockTypeOK
<1>3. parts \in Seq(Part) /\ i \in Nat
  BY DEF StockIInv, StockTypeOK
<1>. DEFINE at(j) == IF j < i THEN j ELSE j + 1
<1>4. /\ parts' \in Seq(Part)
      /\ \A j \in DOMAIN parts' : j \in Nat /\ at(j) \in DOMAIN parts /\ parts'[j] = parts[at(j)]
  BY <1>1, <1>3, RemoveAtProperties
<1>5. \A j, k \in Nat : at(j) = at(k) => j = k
  BY <1>3
<1>. HIDE DEF at
<1>6. StockTypeOK'
  BY <1>1, <1>2, <1>4 DEF StockIInv, StockTypeOK
<1>7. FromStock' /\ Computed'
  BY <1>1 DEF StockIInv, FromStock, Computed, InStep
<1>8. Placed'
  BY <1>1, <1>4 DEF StockIInv, Placed, InStep
<1>9. LedgerExact'
  BY <1>1, BalanceKept DEF StockIInv, StockTypeOK, LedgerExact
<1>10. PartsTaken'
  <2>. SUFFICES ASSUME quantity # None
                PROVE  /\ \A j \in DOMAIN parts' :
                            /\ parts'[j].movement \in DOMAIN movements
                            /\ movements[parts'[j].movement] = [type |-> "OUT", amount |-> parts'[j].amount]
                       /\ \A j, k \in DOMAIN parts' : parts'[j].movement = parts'[k].movement => j = k
    BY <1>1 DEF PartsTaken
  <2>1. /\ \A j \in DOMAIN parts :
             /\ parts[j].movement \in DOMAIN movements
             /\ movements[parts[j].movement] = [type |-> "OUT", amount |-> parts[j].amount]
        /\ \A j, k \in DOMAIN parts : parts[j].movement = parts[k].movement => j = k
    BY DEF StockIInv, PartsTaken
  <2>. QED  BY <1>4, <1>5, <2>1
<1>. QED  BY <1>6, <1>7, <1>8, <1>9, <1>10 DEF StockIInv

LEMMA RemoveItemStock == ASSUME StockIInv, RemoveItem PROVE StockIInv'
<1>1. quantity' = None /\ movements' = <<>> /\ UNCHANGED <<parts, moving, raced>>
  BY DEF RemoveItem
<1>2. quota' \in [Kinds -> Nat]
  BY SpendBound, InventoryAssumption DEF RemoveItem, StockIInv, StockTypeOK
<1>3. StockTypeOK'
  <2>1. <<>> \in Seq(Movement)
    OBVIOUS
  <2>. QED  BY <1>1, <1>2, <2>1 DEF StockIInv, StockTypeOK
<1>4. FromStock' /\ Computed' /\ Placed' /\ LedgerExact' /\ PartsTaken'
  BY <1>1 DEF StockIInv, FromStock, Computed, Placed, InStep, LedgerExact, PartsTaken
<1>. QED  BY <1>3, <1>4 DEF StockIInv

LEMMA StockStep == ASSUME StockIInv, StockNext PROVE StockIInv'
<1>1. ASSUME NEW r \in Requests, NEW m \in [type : MovementType, amount : Amounts], ReadItem(r, "stock", m)
      PROVE  StockIInv'
  <2>1. m \in Movement
    BY DEF Movement
  <2>. QED  BY <1>1, <2>1, ReadItemStock
<1>2. ASSUME NEW r \in Requests, NEW n \in Amounts, ReadItem(r, "part", [type |-> "OUT", amount |-> n])
      PROVE  StockIInv'
  <2>1. [type |-> "OUT", amount |-> n] \in Movement
    BY DEF Movement, MovementType
  <2>. QED  BY <1>2, <2>1, ReadItemStock
<1>3. ASSUME NEW r \in Requests, ReadItem(r, "replace", [type |-> "OUT", amount |-> 1])
      PROVE  StockIInv'
  <2>1. [type |-> "OUT", amount |-> 1] \in Movement
    BY DEF Movement, MovementType
  <2>. QED  BY <1>3, <2>1, ReadItemStock
<1>4. ASSUME NEW r \in Requests, RequestFails(r) PROVE StockIInv'
  <2>1. /\ moving' = [moving EXCEPT ![r] = Idle] /\ UNCHANGED <<quantity, movements, parts, raced>>
        /\ quota' \in [Kinds -> Nat]
    BY <1>4 DEF RequestFails, StockIInv, StockTypeOK
  <2>. QED  BY <2>1, SettleStock, IdleMoving
<1>. QED  BY <1>1, <1>2, <1>3, <1>4, CommitMovementStock, CreatePartStock, RemovePartStock, RemoveItemStock
          DEF StockNext, CreateMovement, AddPart, TakeSupply

-----------------------------------------------------------------------------
(* The replacements of one supply.                                        *)

Writing == ingesting.step = "write"
Forecasting(f) == forecasting[f].step # "idle"
Candidates == With("CANDIDATE")
Predictions == With("PREDICTED")

SupplyTypes ==
    /\ level \in Levels
    /\ levels \in Seq(Levels \cup {None})
    /\ replacements \in Seq(Replacement)
    /\ ingesting \in Ingestion
    /\ forecasting \in [Forecasters -> Forecast]
    /\ swaps \in Nat
    /\ untrue \in BOOLEAN /\ gap \in BOOLEAN /\ overlap \in BOOLEAN

\* What an ingestion has read is still so when it writes, but that its
\* prediction may have been dismissed; one candidate waits at most.
RowsAsRead ==
    /\ Writing =>
        /\ ingesting.new \in Levels
        /\ ingesting.previous = PreviousLevel
        /\ (ingesting.candidate = 0 => Candidates = {})
        /\ (ingesting.candidate # 0 => ingesting.candidate \in Candidates)
        /\ (ingesting.predicted # 0 => ingesting.predicted \in Predictions \cup With("DISMISSED"))
    /\ \A f \in Forecasters : forecasting[f].step = "write" => forecasting[f].found \in {0} \cup DOMAIN replacements
    /\ \A i, j \in Candidates : i = j

\* Among the levels lv one at b is followed by a jump; by the last level,
\* unless there is a gap.
Jumped(lv, g, b) ==
    \E k \in DOMAIN lv :
        /\ lv[k] = b /\ b # None
        /\ k + 1 \in DOMAIN lv /\ lv[k + 1] # None /\ lv[k + 1] - b >= JumpThreshold
        /\ ~g => k + 1 = Len(lv)

CandidatesJumped == \A c \in Candidates : Jumped(levels, gap, replacements[c].baseline)

\* What a confirmed detection rests on.
Held(lv, g, b) ==
    \E k, n \in DOMAIN lv :
        /\ lv[k] = b
        /\ ~g => n = k + 2
        /\ k + 1 < n
        /\ \A j \in {k + 1, n} : lv[j] # None /\ lv[j] - b >= JumpThreshold

\* Unless forecasts and ingestions overlapped: one of them is under way.
Exclusive ==
    ~overlap =>
        /\ (Writing => \A f \in Forecasters : ~Forecasting(f))
        /\ \A f, g \in Forecasters : Forecasting(f) /\ Forecasting(g) => f = g

\* One prediction is open, none beside a candidate, and who is about to
\* insert one knows that there is none.
PredictionsAlone ==
    ~overlap /\ ~gap =>
        /\ \A i, j \in Predictions : i = j
        /\ (Candidates # {} => Predictions = {} /\ \A f \in Forecasters : ~Forecasting(f))
        /\ \A f \in Forecasters : forecasting[f].step = "write" /\ forecasting[f].found = 0 => Predictions = {}
        /\ (Writing => Predictions \subseteq {ingesting.predicted})

\* The detections, and the candidates that may become one.
Counted == {i \in DOMAIN replacements :
              replacements[i].status \in {"CANDIDATE", "CONFIRMED", "PREMATURE"} /\ ~replacements[i].user}

\* While readings are true, a rise of the level that has not been counted
\* yet still has its swap.
Rises(a, b) == a # None /\ a < b

CountedOnce ==
    ~untrue =>
        /\ Cardinality(Counted) <= swaps
        /\ (~Writing /\ Rises(PreviousLevel, level) => Cardinality(Counted) + 1 <= swaps)
        /\ (Writing /\ Rises(ingesting.previous, ingesting.new) => Cardinality(Counted) + 1 <= swaps)
        /\ (Writing /\ ingesting.new < level => Cardinality(Counted) + 1 <= swaps)
        /\ (Writing /\ ingesting.new < level /\ Rises(ingesting.previous, ingesting.new)
              => Cardinality(Counted) + 2 <= swaps)

SupplyIInv == SupplyTypes /\ RowsAsRead /\ CandidatesJumped /\ ConfirmedWhenHeld /\ Exclusive
              /\ PredictionsAlone /\ CountedOnce

-----------------------------------------------------------------------------
LEMMA LevelNumbers ==
    /\ Levels \subseteq 0..100 /\ Levels \subseteq Nat /\ Levels # {} /\ None \notin Levels
    /\ JumpThreshold \in Nat /\ JumpThreshold > 0
<1>1. Levels \subseteq 0..100 /\ Levels # {} /\ JumpThreshold \in 1..100
  BY SuppliesAssumption
<1>2. None \notin Int
  BY InventoryAssumption
<1>3. 0..100 \subseteq Nat /\ 1..100 \subseteq Nat /\ Nat \subseteq Int
  OBVIOUS
<1>4. Levels \subseteq Nat /\ None \notin Levels
  BY <1>1, <1>2, <1>3, Zenon
<1>5. JumpThreshold \in Nat /\ JumpThreshold > 0
  BY <1>1
<1>. QED  BY <1>1, <1>4, <1>5

\* The largest of some numbers.
LEMMA LargestExists ==
    ASSUME NEW n \in Nat, NEW S, S \subseteq 0..n, S # {}
    PROVE  \E i \in S : \A j \in S : j <= i
<1>. DEFINE D == {k \in Nat : n - k \in S}
<1>1. PICK s \in S : TRUE
  OBVIOUS
<1>2. n - s \in D
  <2>1. n - s \in Nat /\ n - (n - s) = s
    BY <1>1
  <2>. QED  BY <1>1, <2>1
<1>3. PICK k \in D : \A d \in D : ~(<<d, k>> \in OpToRel(<, Nat))
  BY <1>2, NatLessThanWellFounded, WFMin
<1>4. k \in Nat /\ n - k \in S /\ \A d \in D : ~(d < k)
  BY <1>3 DEF OpToRel
<1>5. ASSUME NEW j \in S PROVE j <= n - k
  <2>1. j \in 0..n /\ n - j \in Nat /\ n - (n - j) = j
    OBVIOUS
  <2>2. n - j \in D
    BY <2>1
  <2>3. ~(n - j < k)
    BY <1>4, <2>2
  <2>. QED  BY <1>4, <2>1, <2>3
<1>. QED  BY <1>4, <1>5

LEMMA FullLevel == Max(Levels) \in Levels /\ \A l \in Levels : l <= Max(Levels)
<1>1. \E m \in Levels : \A l \in Levels : l <= m
  BY LevelNumbers, LargestExists
<1>2. \E m \in Levels : \A l \in Levels : m >= l
  BY <1>1, LevelNumbers
<1>3. Max(Levels) \in Levels /\ \A l \in Levels : Max(Levels) >= l
  BY <1>2, Zenon DEF Max
<1>. QED  BY <1>3, LevelNumbers

LEMMA CountedFinite ==
    ASSUME replacements \in Seq(Replacement)
    PROVE  IsFiniteSet(Counted) /\ Cardinality(Counted) \in Nat
<1>1. Len(replacements) \in Nat /\ DOMAIN replacements = 1..Len(replacements)
  OBVIOUS
<1>2. IsFiniteSet(1..Len(replacements))
  BY <1>1, FS_Interval
<1>3. Counted \subseteq 1..Len(replacements)
  BY <1>1 DEF Counted
<1>. QED  BY <1>2, <1>3, FS_Subset, FS_CardinalityType

\* What one more level does to a jump and to a confirmation.
LEMMA AppendLevel ==
    ASSUME NEW lv \in Seq(Levels \cup {None}), NEW x \in Levels \cup {None}, NEW b, NEW g \in BOOLEAN
    PROVE  /\ Held(lv, g, b) => Held(Append(lv, x), g, b)
           /\ Jumped(lv, g, b) => Jumped(Append(lv, x), TRUE, b)
           /\ Jumped(lv, g, b) /\ x # None /\ x - b >= JumpThreshold => Held(Append(lv, x), g, b)
           /\ lv # <<>> /\ Last(lv) = b /\ b # None /\ x # None /\ x - b >= JumpThreshold => Jumped(Append(lv, x), g, b)
<1>. DEFINE m == Len(lv)
            a == Append(lv, x)
<1>1. /\ m \in Nat /\ DOMAIN lv = 1..m /\ DOMAIN a = 1..(m + 1) /\ Len(a) = m + 1 /\ a[m + 1] = x
      /\ \A i \in 1..m : a[i] = lv[i]
  BY AppendProperties
<1>2. lv # <<>> => Last(lv) = lv[m] /\ m \in 1..m
  BY DEF Last
<1>. HIDE DEF m, a
<1>3. ASSUME Held(lv, g, b) PROVE Held(a, g, b)
  <2>1. PICK k \in DOMAIN lv, n \in DOMAIN lv :
          /\ lv[k] = b /\ (~g => n = k + 2) /\ k + 1 < n
          /\ \A j \in {k + 1, n} : lv[j] # None /\ lv[j] - b >= JumpThreshold
    BY <1>3 DEF Held
  <2>2. k \in DOMAIN a /\ n \in DOMAIN a /\ k + 1 \in 1..m /\ a[k] = lv[k] /\ a[k + 1] = lv[k + 1] /\ a[n] = lv[n]
    BY <1>1, <2>1
  <2>3. \A j \in {k + 1, n} : a[j] # None /\ a[j] - b >= JumpThreshold
    BY <2>1, <2>2
  <2>. QED  BY <2>1, <2>2, <2>3 DEF Held
<1>4. ASSUME Jumped(lv, g, b) PROVE Jumped(a, TRUE, b)
  BY <1>1, <1>4 DEF Jumped
<1>5. ASSUME Jumped(lv, g, b), x # None, x - b >= JumpThreshold PROVE Held(a, g, b)
  <2>1. PICK k \in DOMAIN lv :
          /\ lv[k] = b /\ k + 1 \in DOMAIN lv /\ lv[k + 1] # None /\ lv[k + 1] - b >= JumpThreshold
          /\ (~g => k + 1 = m)
    BY <1>5 DEF Jumped, m
  <2>2. /\ k \in DOMAIN a /\ m + 1 \in DOMAIN a /\ k + 1 < m + 1 /\ (~g => m + 1 = k + 2)
        /\ a[k] = b /\ a[k + 1] = lv[k + 1]
    BY <1>1, <2>1
  <2>3. \A j \in {k + 1, m + 1} : a[j] # None /\ a[j] - b >= JumpThreshold
    BY <1>1, <1>5, <2>1, <2>2
  <2>. QED  BY <2>2, <2>3 DEF Held
<1>6. ASSUME lv # <<>>, Last(lv) = b, b # None, x # None, x - b >= JumpThreshold PROVE Jumped(a, g, b)
  <2>1. m \in DOMAIN a /\ a[m] = b /\ m + 1 \in DOMAIN a /\ a[m + 1] = x
    BY <1>1, <1>2, <1>6
  <2>. QED  BY <1>1, <1>6, <2>1 DEF Jumped
<1>. QED  BY <1>3, <1>4, <1>5, <1>6 DEF a

\* A forecast is a fall at the end: none follows a jump.
LEMMA NoFallAfterJump ==
    ASSUME levels \in Seq(Levels \cup {None}), NEW b \in Levels, Jumped(levels, FALSE, b)
    PROVE  ~Falling
<1>1. PICK k \in DOMAIN levels :
        /\ levels[k] = b /\ k + 1 \in DOMAIN levels /\ levels[k + 1] # None
        /\ levels[k + 1] - b >= JumpThreshold /\ k + 1 = Len(levels)
  BY DEF Jumped
<1>2. /\ levels[k + 1] \in Nat /\ levels[k] \in Nat /\ ~(levels[k] >= levels[k + 1])
      /\ k \in Known /\ k + 1 \in Known /\ k < k + 1 /\ k \in Nat
  <2>1. k \in Nat /\ levels[k + 1] \in Levels /\ levels[k] \in Levels
    BY <1>1
  <2>2. levels[k + 1] \in Nat /\ levels[k] \in Nat /\ levels[k] # None
    BY <2>1, LevelNumbers
  <2>3. ~(levels[k] >= levels[k + 1])
    BY <1>1, <2>2, LevelNumbers
  <2>. QED  BY <1>1, <2>1, <2>2, <2>3 DEF Known
<1>3. SUFFICES ASSUME NEW i \in Known, NEW j \in Known, i < j,
                      \A p, q \in Known : i <= p /\ p < q => levels[p] >= levels[q]
               PROVE  FALSE
  BY DEF Falling
<1>4. i <= k
  BY <1>1, <1>2, <1>3 DEF Known
<1>. QED  BY <1>2, <1>3, <1>4

-----------------------------------------------------------------------------
LEMMA InitSupplyRows == SupplyInit => SupplyIInv
<1>. SUFFICES ASSUME SupplyInit PROVE SupplyIInv
  OBVIOUS
<1>1. /\ level = Max(Levels) /\ levels = <<>> /\ replacements = <<>> /\ swaps = 0
      /\ ingesting = NoIngestion /\ forecasting = [f \in Forecasters |-> NoForecast]
      /\ untrue = FALSE /\ gap = FALSE /\ overlap = FALSE
  BY DEF SupplyInit
<1>2. ingesting.step = "idle" /\ \A f \in Forecasters : forecasting[f].step = "idle"
  BY <1>1 DEF NoIngestion, NoForecast
<1>3. SupplyTypes
  <2>1. <<>> \in Seq(Levels \cup {None}) /\ <<>> \in Seq(Replacement)
    OBVIOUS
  <2>2. NoIngestion \in Ingestion /\ NoForecast \in Forecast
    BY DEF NoIngestion, Ingestion, NoForecast, Forecast
  <2>. QED  BY <1>1, <2>1, <2>2, FullLevel DEF SupplyTypes
<1>4. \A s : With(s) = {}
  BY <1>1 DEF With
<1>5. RowsAsRead /\ CandidatesJumped /\ ConfirmedWhenHeld /\ Exclusive /\ PredictionsAlone
  BY <1>2, <1>4 DEF RowsAsRead, CandidatesJumped, ConfirmedWhenHeld, Exclusive, PredictionsAlone,
     Candidates, Predictions, Detections, Writing, Forecasting
<1>6. CountedOnce
  <2>1. Counted = {} /\ Cardinality({}) = 0
    BY <1>1, FS_EmptySet DEF Counted
  <2>2. PreviousLevel = None
    BY <1>1 DEF PreviousLevel
  <2>. QED  BY <1>1, <1>2, <2>1, <2>2 DEF CountedOnce, Writing, Rises
<1>. QED  BY <1>3, <1>5, <1>6 DEF SupplyIInv

\* ConfirmedWhenHeld over the levels, the gap and the baselines.
LEMMA ConfirmedIsHeld == ConfirmedWhenHeld <=> \A i \in Detections : Held(levels, gap, replacements[i].baseline)
BY DEF ConfirmedWhenHeld, Held

\* Steps that leave the rows and the readings alone.
LEMMA RowsKept ==
    ASSUME SupplyIInv, UNCHANGED <<replacements, levels, gap>>
    PROVE  /\ CandidatesJumped' /\ ConfirmedWhenHeld' /\ Counted' = Counted /\ PreviousLevel' = PreviousLevel
           /\ \A s : With(s)' = With(s)
           /\ Candidates' = Candidates /\ Predictions' = Predictions
<1>1. /\ \A s : With(s)' = With(s)
      /\ Candidates' = Candidates /\ Predictions' = Predictions /\ Detections' = Detections
  BY DEF With, Candidates, Predictions, Detections
<1>2. CandidatesJumped'
  BY <1>1 DEF SupplyIInv, CandidatesJumped
<1>3. ConfirmedWhenHeld'
  BY <1>1 DEF SupplyIInv, ConfirmedWhenHeld
<1>. QED  BY <1>1, <1>2, <1>3 DEF Counted, PreviousLevel

LEMMA SupplyVarsKept == ASSUME SupplyIInv, UNCHANGED supplyVars PROVE SupplyIInv'
<1>1. UNCHANGED <<level, levels, replacements, ingesting, forecasting, swaps, untrue, gap, overlap>>
  BY DEF supplyVars
<1>2. /\ CandidatesJumped' /\ ConfirmedWhenHeld' /\ Counted' = Counted /\ PreviousLevel' = PreviousLevel
      /\ With("DISMISSED")' = With("DISMISSED") /\ Candidates' = Candidates /\ Predictions' = Predictions
  BY <1>1, RowsKept
<1>3. SupplyTypes' /\ Exclusive'
  BY <1>1 DEF SupplyIInv, SupplyTypes, Exclusive, Writing, Forecasting
<1>4. RowsAsRead' /\ PredictionsAlone'
  BY <1>1, <1>2 DEF SupplyIInv, RowsAsRead, PredictionsAlone, Writing, Forecasting
<1>5. CountedOnce'
  BY <1>1, <1>2 DEF SupplyIInv, CountedOnce, Writing
<1>. QED  BY <1>2, <1>3, <1>4, <1>5 DEF SupplyIInv

\* Wear and swaps change the level alone.
LEMMA LevelStep ==
    ASSUME SupplyIInv, Wear \/ Swap
    PROVE  SupplyIInv'
<1>1. UNCHANGED <<levels, replacements, ingesting, forecasting, untrue, gap, overlap>>
  BY DEF Wear, Swap
<1>2. /\ CandidatesJumped' /\ ConfirmedWhenHeld' /\ Counted' = Counted /\ PreviousLevel' = PreviousLevel
      /\ With("DISMISSED")' = With("DISMISSED") /\ Candidates' = Candidates /\ Predictions' = Predictions
  BY <1>1, RowsKept
<1>3. level \in Levels /\ level' \in Levels /\ swaps \in Nat /\ swaps' \in Nat
  BY FullLevel DEF Wear, Swap, SupplyIInv, SupplyTypes
<1>4. SupplyTypes'
  BY <1>1, <1>3 DEF SupplyIInv, SupplyTypes
<1>5. RowsAsRead' /\ PredictionsAlone' /\ Exclusive'
  BY <1>1, <1>2 DEF SupplyIInv, RowsAsRead, PredictionsAlone, Exclusive, Writing, Forecasting
<1>6. CountedOnce'
  <2>. DEFINE N == Cardinality(Counted)
  <2>1. N \in Nat
    BY CountedFinite DEF SupplyIInv, SupplyTypes
  <2>2. ~untrue =>
          /\ N <= swaps
          /\ (~Writing /\ Rises(PreviousLevel, level) => N + 1 <= swaps)
          /\ (Writing /\ Rises(ingesting.previous, ingesting.new) => N + 1 <= swaps)
          /\ (Writing /\ ingesting.new < level => N + 1 <= swaps)
          /\ (Writing /\ ingesting.new < level /\ Rises(ingesting.previous, ingesting.new) => N + 2 <= swaps)
    BY DEF SupplyIInv, CountedOnce
  <2>3. (PreviousLevel # None => PreviousLevel \in Nat) /\ (Writing => ingesting.new \in Nat)
    <3>1. PreviousLevel # None => PreviousLevel \in Levels
      BY DEF SupplyIInv, SupplyTypes, PreviousLevel, Last
    <3>. QED  BY <3>1, LevelNumbers DEF SupplyIInv, RowsAsRead
  <2>4. level \in Nat /\ level' \in Nat
    BY <1>3, LevelNumbers
  <2>. HIDE DEF N
  <2>5. ~untrue =>
          /\ N <= swaps'
          /\ (~Writing /\ Rises(PreviousLevel, level') => N + 1 <= swaps')
          /\ (Writing /\ Rises(ingesting.previous, ingesting.new) => N + 1 <= swaps')
          /\ (Writing /\ ingesting.new < level' => N + 1 <= swaps')
          /\ (Writing /\ ingesting.new < level' /\ Rises(ingesting.previous, ingesting.new) => N + 2 <= swaps')
    <3>1. CASE Wear
      <4>1. level' < level /\ swaps' = swaps
        BY <3>1 DEF Wear
      <4>. QED  BY <1>3, <2>1, <2>2, <2>3, <2>4, <4>1 DEF Rises
    <3>2. CASE Swap
      <4>1. swaps' = swaps + 1
        BY <3>2 DEF Swap
      <4>. QED  BY <1>3, <2>1, <2>2, <2>3, <2>4, <4>1
    <3>. QED  BY <3>1, <3>2
  <2>. QED  BY <1>1, <1>2, <2>5 DEF CountedOnce, Writing, N
<1>. QED  BY <1>2, <1>4, <1>5, <1>6 DEF SupplyIInv

LEMMA ReadNothingStep == ASSUME SupplyIInv, ReadNothing PROVE SupplyIInv'
<1>1. /\ ingesting.step = "idle" /\ levels' = Append(levels, None) /\ gap' = (gap \/ Candidates # {})
      /\ UNCHANGED <<level, replacements, ingesting, forecasting, swaps, untrue, overlap>>
  BY DEF ReadNothing, Candidates
<1>2. levels \in Seq(Levels \cup {None}) /\ gap \in BOOLEAN /\ None \in Levels \cup {None} /\ gap' \in BOOLEAN
  BY <1>1 DEF SupplyIInv, SupplyTypes
<1>3. levels' \in Seq(Levels \cup {None}) /\ levels' # <<>> /\ Last(levels') = None
  BY <1>1, <1>2, AppendProperties DEF Last
<1>4. SupplyTypes'
  BY <1>1, <1>2, <1>3 DEF SupplyIInv, SupplyTypes
<1>5. /\ Candidates' = Candidates /\ Predictions' = Predictions /\ Detections' = Detections
      /\ Counted' = Counted
  BY <1>1 DEF With, Candidates, Predictions, Detections, Counted
<1>6. RowsAsRead' /\ Exclusive' /\ PredictionsAlone'
  BY <1>1, <1>5 DEF SupplyIInv, RowsAsRead, Exclusive, PredictionsAlone, Writing, Forecasting
<1>7. CandidatesJumped'
  <2>. SUFFICES ASSUME NEW c \in Candidates PROVE Jumped(levels', gap', replacements[c].baseline)
    BY <1>1, <1>5 DEF CandidatesJumped
  <2>1. gap' = TRUE /\ Jumped(levels, gap, replacements[c].baseline)
    BY <1>1, <1>2 DEF SupplyIInv, CandidatesJumped
  <2>. QED  BY <1>1, <1>2, <2>1, AppendLevel
<1>8. ConfirmedWhenHeld'
  <2>. SUFFICES ASSUME NEW i \in Detections PROVE Held(levels', gap', replacements[i].baseline)
    BY <1>1, <1>5 DEF ConfirmedWhenHeld, Held
  <2>1. Held(levels, gap, replacements[i].baseline)
    BY ConfirmedIsHeld DEF SupplyIInv
  <2>2. Held(levels', gap, replacements[i].baseline)
    BY <1>1, <1>2, <2>1, AppendLevel
  <2>. QED  BY <1>1, <2>2 DEF Held
<1>9. CountedOnce'
  <2>1. PreviousLevel' = None
    BY <1>3 DEF PreviousLevel
  <2>2. ~untrue => Cardinality(Counted) <= swaps
    BY DEF SupplyIInv, CountedOnce
  <2>. QED  BY <1>1, <1>5, <2>1, <2>2 DEF CountedOnce, Writing, Rises
<1>. QED  BY <1>4, <1>6, <1>7, <1>8, <1>9 DEF SupplyIInv

\* A reading with a level: the true one, or the model has marked it.
LEMMA DetectStep ==
    ASSUME SupplyIInv, NEW l \in Levels, Detect(l), untrue' \in BOOLEAN,
           ~untrue' => ~untrue /\ l = level
    PROVE  SupplyIInv'
<1>1. /\ ingesting.step = "idle"
      /\ overlap' = (overlap \/ \E f \in Forecasters : Forecasting(f))
      /\ UNCHANGED <<level, levels, replacements, forecasting, swaps, gap>>
  BY DEF Detect, Forecasting
<1>2. PICK c \in IF Candidates = {} THEN {0} ELSE Candidates, p \in IF Predictions = {} THEN {0} ELSE Predictions :
        ingesting' = [step |-> "write", new |-> l, previous |-> PreviousLevel, candidate |-> c, predicted |-> p]
  BY DEF Detect, Candidates, Predictions
<1>3. /\ ingesting'.step = "write" /\ ingesting'.new = l /\ ingesting'.previous = PreviousLevel
      /\ ingesting'.candidate = c /\ ingesting'.predicted = p
  BY <1>2
<1>4. Candidates \subseteq Nat \ {0} /\ Predictions \subseteq Nat \ {0} /\ PreviousLevel \in Levels \cup {None}
  <2>1. \A s : With(s) \subseteq Nat \ {0}
    BY DEF SupplyIInv, SupplyTypes, With
  <2>. QED  BY <2>1 DEF SupplyIInv, SupplyTypes, Candidates, Predictions, PreviousLevel, Last
<1>5. /\ CandidatesJumped' /\ ConfirmedWhenHeld' /\ Counted' = Counted /\ PreviousLevel' = PreviousLevel
      /\ With("DISMISSED")' = With("DISMISSED") /\ Candidates' = Candidates /\ Predictions' = Predictions
  BY <1>1, RowsKept
<1>6. SupplyTypes'
  <2>1. ingesting' \in Ingestion
    BY <1>2, <1>4 DEF Ingestion
  <2>2. overlap' \in BOOLEAN
    BY <1>1 DEF SupplyIInv, SupplyTypes
  <2>. QED  BY <1>1, <2>1, <2>2 DEF SupplyIInv, SupplyTypes
<1>7. RowsAsRead'
  <2>1. (c = 0 => Candidates = {}) /\ (c # 0 => c \in Candidates) /\ (p # 0 => p \in Predictions)
    BY <1>2, <1>4
  <2>. QED  BY <1>1, <1>3, <1>5, <2>1 DEF SupplyIInv, RowsAsRead, Writing
<1>8. Exclusive'
  BY <1>1 DEF SupplyIInv, Exclusive, Forecasting
<1>9. PredictionsAlone'
  <2>. SUFFICES ASSUME ~overlap', ~gap PROVE PredictionsAlone'
    BY <1>1 DEF PredictionsAlone
  <2>1. \A i, j \in Predictions : i = j
    BY <1>1 DEF SupplyIInv, PredictionsAlone
  <2>2. Predictions \subseteq {p}
    BY <1>2, <2>1
  <2>. QED  BY <1>1, <1>3, <1>5, <2>2 DEF SupplyIInv, PredictionsAlone, Forecasting
<1>10. CountedOnce'
  <2>. SUFFICES ASSUME ~untrue' PROVE CountedOnce'
    BY DEF CountedOnce
  <2>1. ~untrue /\ l = level /\ ~Writing /\ Writing' /\ l \in Nat
    BY <1>1, <1>3, LevelNumbers DEF Writing
  <2>2. /\ Cardinality(Counted) <= swaps
        /\ (Rises(PreviousLevel, l) => Cardinality(Counted) + 1 <= swaps)
    BY <2>1 DEF SupplyIInv, CountedOnce
  <2>3. ~(l < level)
    BY <2>1
  <2>. QED  BY <1>1, <1>3, <1>5, <2>1, <2>2, <2>3 DEF CountedOnce
<1>. QED  BY <1>5, <1>6, <1>7, <1>8, <1>9, <1>10 DEF SupplyIInv

\* What an ingestion leaves, whatever it made of the rows.
LEMMA IngestDone ==
    ASSUME SupplyIInv, Ingest, replacements' \in Seq(Replacement), DOMAIN replacements \subseteq DOMAIN replacements',
           CandidatesJumped', ConfirmedWhenHeld',
           \A i, j \in Candidates' : i = j,
           ~overlap /\ ~gap => /\ \A i, j \in Predictions' : i = j
                               /\ Candidates' # {} => Predictions' = {},
           \/ Counted' \subseteq Counted
           \/ Rises(ingesting.previous, ingesting.new) /\ \E x : Counted' \subseteq Counted \cup {x}
    PROVE  SupplyIInv'
<1>1. /\ Writing /\ levels' = Append(levels, ingesting.new) /\ ingesting' = NoIngestion
      /\ UNCHANGED <<level, forecasting, swaps, untrue, gap, overlap>>
  BY DEF Ingest, Writing
<1>2. ingesting.new \in Levels /\ levels \in Seq(Levels \cup {None}) /\ ingesting.previous = PreviousLevel
  BY <1>1 DEF SupplyIInv, SupplyTypes, RowsAsRead
<1>3. ~Writing' /\ NoIngestion \in Ingestion
  BY <1>1 DEF Writing, NoIngestion, Ingestion
<1>4. levels' \in Seq(Levels \cup {None}) /\ levels' # <<>> /\ Last(levels') = ingesting.new
  BY <1>1, <1>2, AppendProperties DEF Last
<1>5. SupplyTypes'
  BY <1>1, <1>3, <1>4 DEF SupplyIInv, SupplyTypes
<1>6. RowsAsRead'
  <2>1. \A f \in Forecasters : forecasting[f].step = "write" => forecasting[f].found \in {0} \cup DOMAIN replacements'
    BY DEF SupplyIInv, RowsAsRead
  <2>. QED  BY <1>1, <1>3, <2>1 DEF RowsAsRead
<1>7. Exclusive'
  BY <1>1, <1>3 DEF SupplyIInv, Exclusive, Forecasting
<1>8. PredictionsAlone'
  <2>. SUFFICES ASSUME ~overlap, ~gap PROVE PredictionsAlone'
    BY <1>1 DEF PredictionsAlone
  <2>1. \A f \in Forecasters : ~Forecasting(f)
    BY <1>1 DEF SupplyIInv, Exclusive
  <2>2. \A f \in Forecasters : ~Forecasting(f)' /\ forecasting'[f].step # "write"
    BY <1>1, <2>1 DEF Forecasting
  <2>. QED  BY <1>3, <2>2 DEF PredictionsAlone
<1>9. CountedOnce'
  <2>. SUFFICES ASSUME ~untrue PROVE CountedOnce'
    BY <1>1 DEF CountedOnce
  <2>. DEFINE rises == Rises(ingesting.previous, ingesting.new)
              N == Cardinality(Counted)
              M == Cardinality(Counted')
  <2>1. N \in Nat /\ IsFiniteSet(Counted) /\ swaps \in Nat
    BY CountedFinite DEF SupplyIInv, SupplyTypes
  <2>2. /\ N <= swaps /\ (rises => N + 1 <= swaps)
        /\ (ingesting.new < level => N + 1 <= swaps)
        /\ (ingesting.new < level /\ rises => N + 2 <= swaps)
    BY <1>1 DEF SupplyIInv, CountedOnce
  <2>3. M \in Nat /\ (M <= N \/ (rises /\ M <= N + 1))
    <3>1. CASE Counted' \subseteq Counted
      BY <2>1, <3>1, FS_Subset, FS_CardinalityType
    <3>2. CASE rises /\ \E x : Counted' \subseteq Counted \cup {x}
      <4>1. PICK x : Counted' \subseteq Counted \cup {x}
        BY <3>2
      <4>2. IsFiniteSet(Counted \cup {x}) /\ Cardinality(Counted \cup {x}) <= N + 1 /\ Cardinality(Counted \cup {x}) \in Nat
        <5>1. /\ IsFiniteSet(Counted \cup {x})
              /\ Cardinality(Counted \cup {x}) = IF x \in Counted THEN N ELSE N + 1
          BY <2>1, FS_AddElement
        <5>. HIDE DEF N
        <5>. QED  BY <2>1, <5>1
      <4>3. M \in Nat /\ M <= Cardinality(Counted \cup {x})
        BY <4>1, <4>2, FS_Subset, FS_CardinalityType
      <4>. QED  BY <2>1, <3>2, <4>2, <4>3
    <3>. QED  BY <3>1, <3>2
  <2>4. PreviousLevel' = ingesting.new
    BY <1>4 DEF PreviousLevel
  <2>. HIDE DEF rises, N
  <2>5. M <= swaps /\ (ingesting.new < level => M + 1 <= swaps)
    <3>. HIDE DEF M
    <3>. QED  BY <2>1, <2>2, <2>3
  <2>. QED  BY <1>1, <1>3, <2>4, <2>5 DEF CountedOnce, Rises
<1>. QED  BY <1>5, <1>6, <1>7, <1>8, <1>9 DEF SupplyIInv

\* What was confirmed before the reading stays so after it.
LEMMA StillHeld ==
    ASSUME SupplyIInv, Ingest, NEW b, Held(levels, gap, b)
    PROVE  Held(levels', gap', b)
<1>1. levels' = Append(levels, ingesting.new) /\ gap' = gap
  BY DEF Ingest
<1>2. levels \in Seq(Levels \cup {None}) /\ ingesting.new \in Levels \cup {None} /\ gap \in BOOLEAN
  BY DEF SupplyIInv, SupplyTypes, Ingestion
<1>. QED  BY <1>1, <1>2, AppendLevel

\* Nothing detected, or no previous level to compare with.
LEMMA IngestNothing ==
    ASSUME SupplyIInv, Ingest, UNCHANGED replacements,
           ingesting.previous = None \/ ingesting.candidate = 0
    PROVE  SupplyIInv'
<1>1. /\ Writing /\ levels' = Append(levels, ingesting.new) /\ gap' = gap
  BY DEF Ingest, Writing
<1>2. /\ levels \in Seq(Levels \cup {None}) /\ ingesting.new \in Levels \cup {None} /\ gap \in BOOLEAN
      /\ replacements \in Seq(Replacement) /\ ingesting.previous = PreviousLevel
  BY <1>1 DEF SupplyIInv, SupplyTypes, RowsAsRead
<1>3. /\ Candidates' = Candidates /\ Predictions' = Predictions /\ Detections' = Detections /\ Counted' = Counted
  BY DEF With, Candidates, Predictions, Detections, Counted
<1>4. CandidatesJumped'
  <2>. SUFFICES ASSUME NEW c \in Candidates PROVE Jumped(levels', gap, replacements[c].baseline)
    BY <1>1, <1>3 DEF CandidatesJumped
  <2>1. Jumped(levels, gap, replacements[c].baseline)
    BY DEF SupplyIInv, CandidatesJumped
  <2>2. ingesting.previous = None
    BY <1>1 DEF SupplyIInv, RowsAsRead
  <2>3. gap
    <3>. SUFFICES ASSUME ~gap PROVE FALSE
      OBVIOUS
    <3>1. levels # <<>> /\ Last(levels) # None
      BY <1>2, <2>1 DEF Jumped, Last
    <3>. QED  BY <1>2, <2>2, <3>1 DEF PreviousLevel
  <2>. QED  BY <1>1, <1>2, <2>1, <2>3, AppendLevel
<1>5. ConfirmedWhenHeld'
  <2>1. \A i \in Detections : Held(levels', gap', replacements[i].baseline)
    BY ConfirmedIsHeld, StillHeld DEF SupplyIInv
  <2>. QED  BY <1>3, <2>1 DEF ConfirmedWhenHeld, Held
<1>6. /\ \A i, j \in Candidates : i = j
      /\ ~overlap /\ ~gap => (\A i, j \in Predictions : i = j) /\ (Candidates # {} => Predictions = {})
  BY DEF SupplyIInv, RowsAsRead, PredictionsAlone
<1>. QED  BY <1>2, <1>3, <1>4, <1>5, <1>6, IngestDone

\* The candidate is confirmed or withdrawn.
LEMMA IngestDecides ==
    ASSUME SupplyIInv, Ingest, ingesting.candidate # 0,
           replacements' = [replacements EXCEPT ![ingesting.candidate] = Decided(@, ingesting.new)]
    PROVE  SupplyIInv'
<1>. DEFINE c == ingesting.candidate
            new == ingesting.new
            row == replacements[c]
            b == row.baseline
<1>1. /\ Writing /\ levels' = Append(levels, new) /\ gap' = gap
  BY DEF Ingest, Writing
<1>2. /\ levels \in Seq(Levels \cup {None}) /\ new \in Levels /\ gap \in BOOLEAN
      /\ replacements \in Seq(Replacement) /\ c \in DOMAIN replacements /\ row.status = "CANDIDATE"
      /\ row \in Replacement
      /\ \A i \in Candidates : i = c
  <2>1. c \in Candidates
    BY <1>1 DEF SupplyIInv, RowsAsRead
  <2>2. \A i \in Candidates : i = c
    BY <2>1 DEF SupplyIInv, RowsAsRead
  <2>3. c \in DOMAIN replacements /\ row.status = "CANDIDATE"
    BY <2>1 DEF Candidates, With
  <2>4. levels \in Seq(Levels \cup {None}) /\ new \in Levels /\ gap \in BOOLEAN /\ replacements \in Seq(Replacement)
    BY <1>1 DEF SupplyIInv, SupplyTypes, RowsAsRead
  <2>5. row \in Replacement
    BY <2>3, <2>4
  <2>. QED  BY <2>2, <2>3, <2>4, <2>5
<1>3. /\ Decided(row, new) \in Replacement /\ Decided(row, new).user = row.user
      /\ Decided(row, new).status \in {"CONFIRMED", "PREMATURE"} =>
           new - b >= JumpThreshold /\ Decided(row, new).baseline = b
      /\ Decided(row, new).status # "CANDIDATE"
  <2>. HIDE DEF row, new
  <2>1. row \in Replacement
    BY <1>2
  <2>. QED  BY <2>1 DEF Decided, Persisted, Replacement, Status
<1>4. /\ DOMAIN replacements' = DOMAIN replacements
      /\ replacements' \in Seq(Replacement)
      /\ replacements'[c] = Decided(row, new)
      /\ \A i \in DOMAIN replacements : i # c => replacements'[i] = replacements[i]
  BY <1>2, <1>3
<1>. HIDE DEF row, new, b, c
<1>5. Candidates' = {}
  BY <1>2, <1>3, <1>4 DEF Candidates, With
<1>6. CandidatesJumped'
  BY <1>5 DEF CandidatesJumped
<1>7. Jumped(levels, gap, b)
  <2>1. c \in Candidates
    BY <1>2 DEF Candidates, With, row
  <2>. QED  BY <2>1 DEF SupplyIInv, CandidatesJumped, row, b
<1>8. \A i \in Detections' : Held(levels', gap', replacements'[i].baseline)
  <2>. SUFFICES ASSUME NEW i \in Detections' PROVE Held(levels', gap', replacements'[i].baseline)
    OBVIOUS
  <2>1. i \in DOMAIN replacements /\ replacements'[i].status \in {"CONFIRMED", "PREMATURE"} /\ ~replacements'[i].user
    BY <1>4 DEF Detections, With
  <2>2. CASE i = c
    <3>1. new - b >= JumpThreshold /\ replacements'[i].baseline = b
      BY <1>3, <1>4, <2>1, <2>2
    <3>2. new # None
      BY <1>2, LevelNumbers
    <3>. QED  BY <1>1, <1>2, <1>7, <3>1, <3>2, AppendLevel
  <2>3. CASE i # c
    <3>1. replacements'[i] = replacements[i] /\ i \in Detections
      BY <1>4, <2>1, <2>3 DEF Detections, With
    <3>2. Held(levels, gap, replacements[i].baseline)
      BY <3>1, ConfirmedIsHeld DEF SupplyIInv
    <3>. QED  BY <3>1, <3>2, StillHeld
  <2>. QED  BY <2>2, <2>3
<1>9. ConfirmedWhenHeld'
  BY <1>8 DEF ConfirmedWhenHeld, Held
<1>10. Counted' \subseteq Counted
  BY <1>2, <1>3, <1>4 DEF Counted, row
<1>11. ~overlap /\ ~gap => \A i, j \in Predictions' : i = j
  <2>. SUFFICES ASSUME ~overlap, ~gap PROVE \A i \in Predictions' : i = c
    OBVIOUS
  <2>1. c \in Candidates
    BY <1>2 DEF Candidates, With, row
  <2>2. Predictions = {}
    BY <2>1 DEF SupplyIInv, PredictionsAlone
  <2>. QED  BY <1>4, <2>2 DEF Predictions, With
<1>. QED  BY <1>4, <1>5, <1>6, <1>9, <1>10, <1>11, IngestDone

\* A jump raises a candidate: out of a prediction, or a row of its own.
LEMMA IngestRaises ==
    ASSUME SupplyIInv, Ingest, ingesting.previous # None, ingesting.candidate = 0,
           ingesting.new - ingesting.previous >= JumpThreshold,
           NEW p \in DOMAIN replacements', replacements' \in Seq(Replacement),
           DOMAIN replacements' = DOMAIN replacements \cup {p},
           p \in DOMAIN replacements => replacements[p].status \in {"PREDICTED", "DISMISSED"},
           replacements'[p].status = "CANDIDATE", replacements'[p].baseline = ingesting.previous,
           \A i \in DOMAIN replacements : i # p => replacements'[i] = replacements[i],
           ~overlap /\ ~gap => Predictions \subseteq {p}
    PROVE  SupplyIInv'
<1>1. /\ Writing /\ levels' = Append(levels, ingesting.new) /\ gap' = gap
  BY DEF Ingest, Writing
<1>2. /\ levels \in Seq(Levels \cup {None}) /\ ingesting.new \in Levels /\ gap \in BOOLEAN
      /\ ingesting.previous = PreviousLevel /\ Candidates = {}
  BY <1>1 DEF SupplyIInv, SupplyTypes, RowsAsRead
<1>3. levels # <<>> /\ Last(levels) = ingesting.previous /\ ingesting.previous \in Levels
  BY <1>2 DEF PreviousLevel, Last
<1>4. Rises(ingesting.previous, ingesting.new)
  <2>1. ingesting.previous \in Nat /\ ingesting.new \in Nat
    BY <1>2, <1>3, LevelNumbers
  <2>. QED  BY <2>1, LevelNumbers DEF Rises
<1>5. Candidates' = {p}
  BY <1>2 DEF Candidates, With
<1>6. CandidatesJumped'
  <2>1. Jumped(levels', gap, ingesting.previous)
    BY <1>1, <1>2, <1>3, LevelNumbers, AppendLevel
  <2>. QED  BY <1>1, <1>5, <2>1 DEF CandidatesJumped
<1>7. ConfirmedWhenHeld'
  <2>1. \A i \in Detections' : i \in Detections /\ replacements'[i] = replacements[i]
    BY DEF Detections, With
  <2>2. \A i \in Detections' : Held(levels', gap', replacements'[i].baseline)
    BY <2>1, ConfirmedIsHeld, StillHeld DEF SupplyIInv
  <2>. QED  BY <2>2 DEF ConfirmedWhenHeld, Held
<1>8. Counted' \subseteq Counted \cup {p}
  BY DEF Counted
<1>9. ~overlap /\ ~gap => Predictions' = {}
  BY DEF Predictions, With
<1>. QED  BY <1>4, <1>5, <1>6, <1>7, <1>8, <1>9, IngestDone

LEMMA IngestStep == ASSUME SupplyIInv, Ingest PROVE SupplyIInv'
<1>. DEFINE p == ingesting.predicted
            new == ingesting.new
            prev == ingesting.previous
<1>1. Writing /\ replacements' = Detected(ingesting)
  BY DEF Ingest, Writing
<1>2. /\ replacements \in Seq(Replacement) /\ new \in Levels /\ prev \in Levels \cup {None}
      /\ p # 0 => p \in Predictions \cup With("DISMISSED")
      /\ (~overlap /\ ~gap => Predictions \subseteq {p})
  BY <1>1 DEF SupplyIInv, SupplyTypes, Ingestion, RowsAsRead, PredictionsAlone
<1>3. CASE prev = None
  <2>1. UNCHANGED replacements
    BY <1>1, <1>3 DEF Detected
  <2>. QED  BY <1>3, <2>1, IngestNothing
<1>4. CASE prev # None /\ ingesting.candidate # 0
  <2>1. replacements' = [replacements EXCEPT ![ingesting.candidate] = Decided(@, ingesting.new)]
    BY <1>1, <1>4 DEF Detected
  <2>. QED  BY <1>4, <2>1, IngestDecides
<1>5. CASE prev # None /\ ingesting.candidate = 0 /\ new - prev < JumpThreshold
  <2>1. UNCHANGED replacements
    BY <1>1, <1>5 DEF Detected
  <2>. QED  BY <1>5, <2>1, IngestNothing
<1>6. CASE prev # None /\ ingesting.candidate = 0 /\ ~(new - prev < JumpThreshold) /\ p # 0
  <2>1. replacements' = [replacements EXCEPT ![p].status = "CANDIDATE", ![p].baseline = prev]
    BY <1>1, <1>6 DEF Detected
  <2>2. p \in DOMAIN replacements /\ replacements[p].status \in {"PREDICTED", "DISMISSED"} /\ replacements[p] \in Replacement
    BY <1>2, <1>6 DEF Predictions, With
  <2>3. [replacements[p] EXCEPT !.status = "CANDIDATE", !.baseline = prev] \in Replacement
    BY <1>2, <2>2 DEF Replacement, Status
  <2>4. replacements' = [replacements EXCEPT ![p] = [replacements[p] EXCEPT !.status = "CANDIDATE", !.baseline = prev]]
    BY <2>1, <2>2, <1>2
  <2>5. /\ replacements' \in Seq(Replacement) /\ DOMAIN replacements' = DOMAIN replacements
        /\ replacements'[p] = [replacements[p] EXCEPT !.status = "CANDIDATE", !.baseline = prev]
        /\ \A i \in DOMAIN replacements : i # p => replacements'[i] = replacements[i]
    BY <1>2, <2>2, <2>3, <2>4
  <2>6. replacements'[p].status = "CANDIDATE" /\ replacements'[p].baseline = prev
    BY <2>2, <2>5 DEF Replacement
  <2>7. new - prev >= JumpThreshold
    <3>1. new \in Nat /\ prev \in Nat /\ JumpThreshold \in Nat
      BY <1>2, <1>6, LevelNumbers
    <3>. QED  BY <1>6, <3>1
  <2>8. p \in DOMAIN replacements' /\ DOMAIN replacements' = DOMAIN replacements \cup {p}
    BY <2>2, <2>5
  <2>. HIDE DEF p
  <2>. QED  BY <1>2, <1>6, <2>2, <2>5, <2>6, <2>7, <2>8, IngestRaises
<1>7. CASE prev # None /\ ingesting.candidate = 0 /\ ~(new - prev < JumpThreshold) /\ p = 0
  <2>. DEFINE row == [status |-> "CANDIDATE", predicted |-> FALSE, baseline |-> prev, user |-> FALSE]
              n == Len(replacements)
  <2>1. replacements' = Append(replacements, row)
    BY <1>1, <1>7 DEF Detected
  <2>2. row \in Replacement /\ row.status = "CANDIDATE" /\ row.baseline = prev
    BY <1>2 DEF Replacement, Status
  <2>. HIDE DEF row
  <2>3. /\ n \in Nat /\ DOMAIN replacements = 1..n /\ replacements' \in Seq(Replacement)
        /\ DOMAIN replacements' = 1..(n + 1) /\ replacements'[n + 1] = row
        /\ \A i \in 1..n : replacements'[i] = replacements[i]
    BY <1>2, <2>1, <2>2, AppendProperties
  <2>. HIDE DEF n
  <2>4. /\ n + 1 \in DOMAIN replacements' /\ n + 1 \notin DOMAIN replacements
        /\ DOMAIN replacements' = DOMAIN replacements \cup {n + 1}
    BY <2>3
  <2>5. ~overlap /\ ~gap => Predictions \subseteq {n + 1}
    BY <1>2, <1>7, <2>3 DEF Predictions, With
  <2>6. new - prev >= JumpThreshold
    <3>1. new \in Nat /\ prev \in Nat /\ JumpThreshold \in Nat
      BY <1>2, <1>7, LevelNumbers
    <3>. QED  BY <1>7, <3>1
  <2>. QED  BY <1>7, <2>2, <2>3, <2>4, <2>5, <2>6, IngestRaises
<1>. QED  BY <1>3, <1>4, <1>5, <1>6, <1>7

-----------------------------------------------------------------------------
LEMMA ReadTrendStep == ASSUME SupplyIInv, NEW f \in Forecasters, ReadTrend(f) PROVE SupplyIInv'
<1>. DEFINE v == [step |-> "find", found |-> 0]
<1>1. /\ forecasting[f].step = "idle" /\ Falling /\ forecasting' = [forecasting EXCEPT ![f] = v]
      /\ overlap' = (overlap \/ ingesting.step # "idle" \/ \E g \in Forecasters : Forecasting(g))
      /\ UNCHANGED <<level, levels, replacements, ingesting, swaps, untrue, gap>>
  BY DEF ReadTrend, Forecasting
<1>2. v \in Forecast /\ v.step = "find"
  BY DEF Forecast
<1>. HIDE DEF v
<1>3. \A g \in Forecasters : forecasting'[g] = IF g = f THEN v ELSE forecasting[g]
  BY <1>1 DEF SupplyIInv, SupplyTypes
<1>4. overlap' \in BOOLEAN
  BY <1>1 DEF SupplyIInv, SupplyTypes
<1>5. SupplyTypes'
  BY <1>1, <1>2, <1>4 DEF SupplyIInv, SupplyTypes
<1>6. /\ CandidatesJumped' /\ ConfirmedWhenHeld' /\ Counted' = Counted /\ PreviousLevel' = PreviousLevel
      /\ With("DISMISSED")' = With("DISMISSED") /\ Candidates' = Candidates /\ Predictions' = Predictions
  BY <1>1, RowsKept
<1>7. RowsAsRead'
  BY <1>1, <1>2, <1>3, <1>6 DEF SupplyIInv, RowsAsRead, Writing
<1>8. Exclusive'
  BY <1>1, <1>3 DEF Exclusive, Writing, Forecasting
<1>9. PredictionsAlone'
  <2>. SUFFICES ASSUME ~overlap', ~gap PROVE PredictionsAlone'
    BY <1>1 DEF PredictionsAlone
  <2>1. ~overlap /\ ~Writing
    BY <1>1 DEF Writing
  <2>2. Candidates = {}
    <3>. SUFFICES ASSUME NEW c \in Candidates PROVE FALSE
      OBVIOUS
    <3>1. Jumped(levels, FALSE, replacements[c].baseline)
      BY DEF SupplyIInv, CandidatesJumped, SupplyTypes, Jumped
    <3>2. replacements[c].baseline \in Levels
      <4>1. replacements[c].baseline \in Levels \cup {None}
        <5>1. replacements \in Seq(Replacement) /\ c \in DOMAIN replacements
          BY DEF SupplyIInv, SupplyTypes, Candidates, With
        <5>2. replacements[c] \in Replacement
          BY <5>1
        <5>. QED  BY <5>2 DEF Replacement
      <4>. QED  BY <3>1, <4>1 DEF Jumped
    <3>. QED  BY <1>1, <3>1, <3>2, NoFallAfterJump DEF SupplyIInv, SupplyTypes
  <2>3. /\ \A i, j \in Predictions : i = j
        /\ \A g \in Forecasters : forecasting[g].step = "write" /\ forecasting[g].found = 0 => Predictions = {}
    BY <2>1 DEF SupplyIInv, PredictionsAlone
  <2>. QED  BY <1>1, <1>2, <1>3, <1>6, <2>1, <2>2, <2>3 DEF PredictionsAlone, Writing
<1>10. CountedOnce'
  BY <1>1, <1>6 DEF SupplyIInv, CountedOnce, Writing
<1>. QED  BY <1>5, <1>6, <1>7, <1>8, <1>9, <1>10 DEF SupplyIInv

LEMMA FindPredictedStep == ASSUME SupplyIInv, NEW f \in Forecasters, FindPredicted(f) PROVE SupplyIInv'
<1>. DEFINE i == IF Predictions = {} THEN 0
                 ELSE CHOOSE i \in Predictions : \A j \in Predictions : j <= i
            v == [step |-> "write", found |-> i]
<1>1. /\ forecasting[f].step = "find" /\ forecasting' = [forecasting EXCEPT ![f] = v]
      /\ UNCHANGED <<level, levels, replacements, ingesting, swaps, untrue, gap, overlap>>
  BY DEF FindPredicted, Predictions
<1>2. i \in {0} \cup DOMAIN replacements /\ i \in Nat /\ (i = 0 => Predictions = {})
  <2>1. /\ Len(replacements) \in Nat /\ DOMAIN replacements = 1..Len(replacements)
        /\ Predictions \subseteq DOMAIN replacements /\ Predictions \subseteq 0..Len(replacements)
    BY DEF SupplyIInv, SupplyTypes, Predictions, With
  <2>2. Predictions # {} => \E k \in Predictions : \A j \in Predictions : j <= k
    BY <2>1, LargestExists
  <2>3. Predictions # {} => i \in Predictions
    BY <2>2, Zenon
  <2>4. Predictions = {} => i = 0
    OBVIOUS
  <2>. HIDE DEF i
  <2>. QED  BY <2>1, <2>3, <2>4
<1>. HIDE DEF i
<1>3. v \in Forecast /\ v.step = "write" /\ v.found = i
  BY <1>2 DEF Forecast
<1>. HIDE DEF v
<1>4. \A g \in Forecasters : forecasting'[g] = IF g = f THEN v ELSE forecasting[g]
  BY <1>1 DEF SupplyIInv, SupplyTypes
<1>5. SupplyTypes'
  BY <1>1, <1>3 DEF SupplyIInv, SupplyTypes
<1>6. /\ CandidatesJumped' /\ ConfirmedWhenHeld' /\ Counted' = Counted /\ PreviousLevel' = PreviousLevel
      /\ With("DISMISSED")' = With("DISMISSED") /\ Candidates' = Candidates /\ Predictions' = Predictions
  BY <1>1, RowsKept
<1>7. RowsAsRead'
  BY <1>1, <1>2, <1>3, <1>4, <1>6 DEF SupplyIInv, RowsAsRead, Writing
<1>8. Exclusive'
  BY <1>1, <1>3, <1>4 DEF SupplyIInv, Exclusive, Writing, Forecasting
<1>9. PredictionsAlone'
  BY <1>1, <1>2, <1>3, <1>4, <1>6 DEF SupplyIInv, PredictionsAlone, Writing, Forecasting
<1>10. CountedOnce'
  BY <1>1, <1>6 DEF SupplyIInv, CountedOnce, Writing
<1>. QED  BY <1>5, <1>6, <1>7, <1>8, <1>9, <1>10 DEF SupplyIInv

\* Rows that others than an ingestion write: no candidate and no detection
\* is among them.
LEMMA OtherRows ==
    ASSUME SupplyIInv, UNCHANGED <<level, levels, ingesting, swaps, untrue, gap, overlap>>,
           replacements' \in Seq(Replacement), forecasting' \in [Forecasters -> Forecast],
           \A f \in Forecasters : forecasting'[f] = forecasting[f] \/ forecasting'[f].step = "idle",
           \A i \in DOMAIN replacements :
             /\ i \in DOMAIN replacements'
             /\ replacements'[i].baseline = replacements[i].baseline /\ replacements'[i].user = replacements[i].user
             /\ \/ replacements'[i].status = replacements[i].status
                \/ replacements[i].status = "PREDICTED" /\ replacements'[i].status = "DISMISSED",
           \A i \in DOMAIN replacements' \ DOMAIN replacements :
             \/ replacements'[i].status = "PREDICTED"
             \/ replacements'[i].status = "CONFIRMED" /\ replacements'[i].user
    PROVE  /\ SupplyTypes' /\ RowsAsRead' /\ CandidatesJumped' /\ ConfirmedWhenHeld' /\ Exclusive' /\ CountedOnce'
           /\ Candidates' = Candidates
<1>1. SupplyTypes' /\ Exclusive'
  BY DEF SupplyIInv, SupplyTypes, Exclusive, Writing, Forecasting
<1>2. /\ Candidates' = Candidates /\ Detections' = Detections /\ Counted' = Counted
      /\ PreviousLevel' = PreviousLevel
      /\ Predictions \cup With("DISMISSED") \subseteq (Predictions \cup With("DISMISSED"))'
  <2>1. Candidates' = Candidates
    BY DEF Candidates, With
  <2>2. Detections' = Detections
    BY DEF Detections, With
  <2>3. Counted' = Counted
    BY DEF Counted
  <2>4. Predictions \cup With("DISMISSED") \subseteq (Predictions \cup With("DISMISSED"))'
    BY DEF Predictions, With
  <2>. QED  BY <2>1, <2>2, <2>3, <2>4 DEF PreviousLevel
<1>3. RowsAsRead'
  <2>1. Writing' => Writing /\ ingesting'.new \in Levels /\ ingesting'.previous = PreviousLevel'
    BY <1>2 DEF SupplyIInv, RowsAsRead, Writing
  <2>2. /\ Writing /\ ingesting.candidate = 0 => Candidates = {}
        /\ Writing /\ ingesting.candidate # 0 => ingesting.candidate \in Candidates
        /\ Writing /\ ingesting.predicted # 0 => ingesting.predicted \in (Predictions \cup With("DISMISSED"))'
    BY <1>2 DEF SupplyIInv, RowsAsRead
  <2>3. \A f \in Forecasters : forecasting'[f].step = "write" => forecasting'[f].found \in {0} \cup DOMAIN replacements'
    BY DEF SupplyIInv, RowsAsRead
  <2>4. \A i, j \in Candidates : i = j
    BY DEF SupplyIInv, RowsAsRead
  <2>. QED  BY <1>2, <2>1, <2>2, <2>3, <2>4 DEF RowsAsRead
<1>4. CandidatesJumped'
  <2>1. \A c \in Candidates : replacements'[c].baseline = replacements[c].baseline
    BY DEF Candidates, With
  <2>. QED  BY <1>2, <2>1 DEF SupplyIInv, CandidatesJumped
<1>5. ConfirmedWhenHeld'
  <2>1. \A c \in Detections : replacements'[c].baseline = replacements[c].baseline
    BY DEF Detections, With
  <2>. QED  BY <1>2, <2>1 DEF SupplyIInv, ConfirmedWhenHeld
<1>6. CountedOnce'
  BY <1>2 DEF SupplyIInv, CountedOnce, Writing
<1>. QED  BY <1>1, <1>2, <1>3, <1>4, <1>5, <1>6

\* One row more.
LEMMA AppendRow ==
    ASSUME replacements \in Seq(Replacement), NEW row \in Replacement, replacements' = Append(replacements, row)
    PROVE  \E n \in Nat :
             /\ DOMAIN replacements = 1..n /\ DOMAIN replacements' = 1..(n + 1)
             /\ n + 1 \notin DOMAIN replacements /\ DOMAIN replacements' = DOMAIN replacements \cup {n + 1}
             /\ replacements' \in Seq(Replacement) /\ replacements'[n + 1] = row
             /\ \A i \in DOMAIN replacements : replacements'[i] = replacements[i]
<1>. DEFINE n == Len(replacements)
<1>1. /\ n \in Nat /\ DOMAIN replacements = 1..n /\ DOMAIN replacements' = 1..(n + 1)
      /\ replacements' \in Seq(Replacement) /\ replacements'[n + 1] = row
      /\ \A i \in 1..n : replacements'[i] = replacements[i]
  BY AppendProperties
<1>. HIDE DEF n
<1>2. n + 1 \notin 1..n /\ 1..(n + 1) = (1..n) \cup {n + 1}
  BY <1>1
<1>. QED  BY <1>1, <1>2

LEMMA KeepPredictionStep == ASSUME SupplyIInv, NEW f \in Forecasters, KeepPrediction(f) PROVE SupplyIInv'
<1>. DEFINE k == forecasting[f].found
            row == [status |-> "PREDICTED", predicted |-> TRUE, baseline |-> None, user |-> FALSE]
<1>1. /\ forecasting[f].step = "write" /\ forecasting' = [forecasting EXCEPT ![f] = NoForecast]
      /\ k # 0 => replacements' = [replacements EXCEPT ![k].predicted = TRUE]
      /\ k = 0 => replacements' = Append(replacements, row)
      /\ UNCHANGED <<level, levels, ingesting, swaps, untrue, gap, overlap>>
  BY DEF KeepPrediction
<1>2. /\ replacements \in Seq(Replacement) /\ k \in {0} \cup DOMAIN replacements
      /\ forecasting \in [Forecasters -> Forecast]
  BY <1>1 DEF SupplyIInv, SupplyTypes, RowsAsRead
<1>3. NoForecast \in Forecast /\ NoForecast.step = "idle"
  BY DEF NoForecast, Forecast
<1>4. /\ forecasting' \in [Forecasters -> Forecast]
      /\ \A g \in Forecasters : forecasting'[g] = IF g = f THEN NoForecast ELSE forecasting[g]
  BY <1>1, <1>2, <1>3
<1>5. row \in Replacement /\ row.status = "PREDICTED"
  BY DEF Replacement, Status
<1>. HIDE DEF k, row
<1>6. CASE k # 0
  <2>1. /\ replacements' = [replacements EXCEPT ![k] = [replacements[k] EXCEPT !.predicted = TRUE]]
        /\ k \in DOMAIN replacements /\ replacements[k] \in Replacement
    BY <1>1, <1>2, <1>6
  <2>2. [replacements[k] EXCEPT !.predicted = TRUE] \in Replacement
    BY <2>1 DEF Replacement
  <2>3. /\ replacements' \in Seq(Replacement) /\ DOMAIN replacements' = DOMAIN replacements
        /\ \A i \in DOMAIN replacements :
             replacements'[i] = IF i = k THEN [replacements[i] EXCEPT !.predicted = TRUE] ELSE replacements[i]
    <3>. DEFINE new == [replacements[k] EXCEPT !.predicted = TRUE]
    <3>1. replacements' = [replacements EXCEPT ![k] = new] /\ new \in Replacement
      BY <2>1, <2>2
    <3>2. \A i \in DOMAIN replacements : i = k => [replacements[i] EXCEPT !.predicted = TRUE] = new
      OBVIOUS
    <3>. HIDE DEF new
    <3>3. replacements' \in Seq(Replacement) /\ DOMAIN replacements' = DOMAIN replacements
      <4>1. k \in 1..Len(replacements) /\ DOMAIN replacements = 1..Len(replacements)
        BY <1>2, <2>1
      <4>2. [replacements EXCEPT ![k] = new] \in Seq(Replacement)
        BY <1>2, <3>1, <4>1, ExceptSeq
      <4>3. DOMAIN [replacements EXCEPT ![k] = new] = DOMAIN replacements
        OBVIOUS
      <4>. QED  BY <3>1, <4>2, <4>3
    <3>4. \A i \in DOMAIN replacements : replacements'[i] = IF i = k THEN new ELSE replacements[i]
      BY <1>2, <2>1, <3>1
    <3>. QED  BY <3>2, <3>3, <3>4
  <2>4. \A i \in DOMAIN replacements :
          /\ replacements'[i].baseline = replacements[i].baseline /\ replacements'[i].user = replacements[i].user
          /\ replacements'[i].status = replacements[i].status
    <3>1. \A i \in DOMAIN replacements : replacements[i] \in Replacement
      BY <1>2
    <3>. QED  BY <2>3, <3>1 DEF Replacement
  <2>5. /\ SupplyTypes' /\ RowsAsRead' /\ CandidatesJumped' /\ ConfirmedWhenHeld' /\ Exclusive' /\ CountedOnce'
        /\ Candidates' = Candidates
    BY <1>1, <1>3, <1>4, <2>3, <2>4, OtherRows
  <2>6. Predictions' = Predictions
    BY <2>3, <2>4 DEF Predictions, With
  <2>7. PredictionsAlone'
    BY <1>1, <1>3, <1>4, <2>5, <2>6 DEF SupplyIInv, PredictionsAlone, Writing, Forecasting
  <2>. QED  BY <2>5, <2>7 DEF SupplyIInv
<1>7. CASE k = 0
  <2>1. PICK n \in Nat :
             /\ DOMAIN replacements = 1..n /\ DOMAIN replacements' = 1..(n + 1)
             /\ n + 1 \notin DOMAIN replacements /\ DOMAIN replacements' = DOMAIN replacements \cup {n + 1}
             /\ replacements' \in Seq(Replacement) /\ replacements'[n + 1] = row
             /\ \A i \in DOMAIN replacements : replacements'[i] = replacements[i]
    BY <1>1, <1>2, <1>5, <1>7, AppendRow
  <2>2. /\ SupplyTypes' /\ RowsAsRead' /\ CandidatesJumped' /\ ConfirmedWhenHeld' /\ Exclusive' /\ CountedOnce'
        /\ Candidates' = Candidates
    <3>1. \A i \in DOMAIN replacements' \ DOMAIN replacements : replacements'[i].status = "PREDICTED"
      BY <1>5, <2>1
    <3>. QED  BY <1>1, <1>3, <1>4, <2>1, <3>1, OtherRows
  <2>3. PredictionsAlone'
    <3>. SUFFICES ASSUME ~overlap, ~gap PROVE PredictionsAlone'
      BY <1>1 DEF PredictionsAlone
    <3>1. Forecasting(f) /\ Predictions = {}
      BY <1>1, <1>7 DEF SupplyIInv, PredictionsAlone, Forecasting, k
    <3>2. Candidates = {}
      BY <3>1 DEF SupplyIInv, PredictionsAlone
    <3>3. ~Writing /\ \A g \in Forecasters : g # f => ~Forecasting(g)
      BY <3>1 DEF SupplyIInv, Exclusive
    <3>4. \A g \in Forecasters : forecasting'[g].step # "write"
      BY <1>3, <1>4, <3>3 DEF Forecasting
    <3>5. Predictions' \subseteq {n + 1}
      BY <2>1, <3>1 DEF Predictions, With
    <3>. QED  BY <1>1, <2>2, <3>2, <3>3, <3>4, <3>5 DEF PredictionsAlone, Writing
  <2>. QED  BY <2>2, <2>3 DEF SupplyIInv
<1>. QED  BY <1>6, <1>7

LEMMA DismissPredictedStep == ASSUME SupplyIInv, NEW r \in Requests, DismissPredicted(r) PROVE SupplyIInv'
<1>1. /\ replacements' = [i \in DOMAIN replacements |->
            IF i \in Predictions THEN [replacements[i] EXCEPT !.status = "DISMISSED"] ELSE replacements[i]]
      /\ UNCHANGED <<level, levels, ingesting, forecasting, swaps, untrue, gap, overlap>>
  BY DEF DismissPredicted, Predictions
<1>2. replacements \in Seq(Replacement) /\ forecasting \in [Forecasters -> Forecast]
  BY DEF SupplyIInv, SupplyTypes
<1>3. \A i \in DOMAIN replacements :
        /\ replacements[i] \in Replacement
        /\ [replacements[i] EXCEPT !.status = "DISMISSED"] \in Replacement
  <2>1. \A i \in DOMAIN replacements : replacements[i] \in Replacement
    BY <1>2
  <2>2. ASSUME NEW row \in Replacement PROVE [row EXCEPT !.status = "DISMISSED"] \in Replacement
    BY DEF Replacement, Status
  <2>. QED  BY <2>1, <2>2
<1>4. /\ DOMAIN replacements' = DOMAIN replacements /\ replacements' \in Seq(Replacement)
      /\ \A i \in DOMAIN replacements :
           replacements'[i] = IF replacements[i].status = "PREDICTED"
                              THEN [replacements[i] EXCEPT !.status = "DISMISSED"] ELSE replacements[i]
  <2>1. \A i \in DOMAIN replacements : i \in Predictions <=> replacements[i].status = "PREDICTED"
    BY DEF Predictions, With
  <2>2. PICK n \in Nat : DOMAIN replacements = 1..n
    BY <1>2
  <2>3. replacements' \in [1..n -> Replacement]
    BY <1>1, <1>3, <2>2
  <2>. QED  BY <1>1, <2>1, <2>2, <2>3, SeqDef
<1>5. \A i \in DOMAIN replacements :
        /\ replacements'[i].baseline = replacements[i].baseline /\ replacements'[i].user = replacements[i].user
        /\ replacements'[i].status = IF replacements[i].status = "PREDICTED" THEN "DISMISSED" ELSE replacements[i].status
  BY <1>3, <1>4 DEF Replacement
<1>6. /\ SupplyTypes' /\ RowsAsRead' /\ CandidatesJumped' /\ ConfirmedWhenHeld' /\ Exclusive' /\ CountedOnce'
      /\ Candidates' = Candidates
  BY <1>1, <1>2, <1>4, <1>5, OtherRows
<1>7. Predictions' = {}
  BY <1>4, <1>5 DEF Predictions, With
<1>8. PredictionsAlone'
  BY <1>1, <1>6, <1>7 DEF SupplyIInv, PredictionsAlone, Forecasting
<1>. QED  BY <1>6, <1>8 DEF SupplyIInv

LEMMA CreateReplacementStep == ASSUME SupplyIInv, NEW r \in Requests, CreateReplacement(r) PROVE SupplyIInv'
<1>. DEFINE row == [status |-> "CONFIRMED", predicted |-> FALSE, baseline |-> None, user |-> TRUE]
<1>1. /\ replacements' = Append(replacements, row)
      /\ UNCHANGED <<level, levels, ingesting, forecasting, swaps, untrue, gap, overlap>>
  BY DEF CreateReplacement
<1>2. replacements \in Seq(Replacement) /\ forecasting \in [Forecasters -> Forecast]
  BY DEF SupplyIInv, SupplyTypes
<1>3. row \in Replacement /\ row.status = "CONFIRMED" /\ row.user
  BY DEF Replacement, Status
<1>. HIDE DEF row
<1>4. PICK n \in Nat :
             /\ DOMAIN replacements = 1..n /\ DOMAIN replacements' = 1..(n + 1)
             /\ n + 1 \notin DOMAIN replacements /\ DOMAIN replacements' = DOMAIN replacements \cup {n + 1}
             /\ replacements' \in Seq(Replacement) /\ replacements'[n + 1] = row
             /\ \A i \in DOMAIN replacements : replacements'[i] = replacements[i]
  BY <1>1, <1>2, <1>3, AppendRow
<1>5. /\ SupplyTypes' /\ RowsAsRead' /\ CandidatesJumped' /\ ConfirmedWhenHeld' /\ Exclusive' /\ CountedOnce'
      /\ Candidates' = Candidates
  BY <1>1, <1>2, <1>3, <1>4, OtherRows
<1>6. Predictions' = Predictions
  BY <1>3, <1>4 DEF Predictions, With
<1>7. PredictionsAlone'
  BY <1>1, <1>5, <1>6 DEF SupplyIInv, PredictionsAlone, Writing, Forecasting
<1>. QED  BY <1>5, <1>7 DEF SupplyIInv

-----------------------------------------------------------------------------
SuppliesIInv == StockIInv /\ SupplyIInv

LEMMA InitSupplies == SupplyInit => SuppliesIInv
BY InitStock, InitSupplyRows DEF SupplyInit, SuppliesIInv

\* What ReplaceWithoutStock and the two writes of a replacement leave of the stock.
LEMMA ReplaceStock ==
    ASSUME StockIInv, NEW r \in Requests, ReplaceWithoutStock(r) \/ DismissPredicted(r) \/ CreateReplacement(r)
    PROVE  StockIInv'
<1>1. moving \in [Requests -> Moving] /\ moving[r] \in Moving /\ quota \in [Kinds -> Nat]
  BY DEF StockIInv, StockTypeOK
<1>2. CASE ReplaceWithoutStock(r)
  <2>1. [Idle EXCEPT !.step = "dismiss", !.kind = "replace"] \in Moving
    BY IdleMoving DEF Moving
  <2>2. [Idle EXCEPT !.step = "dismiss", !.kind = "replace"].step = "dismiss"
    BY DEF Idle
  <2>3. quota' \in [Kinds -> Nat]
    BY <1>1, <1>2, SpendBound, InventoryAssumption DEF ReplaceWithoutStock
  <2>. QED  BY <1>2, <2>1, <2>2, <2>3, SettleStock DEF ReplaceWithoutStock
<1>3. CASE DismissPredicted(r)
  <2>. DEFINE v == [moving[r] EXCEPT !.step = "confirm"]
  <2>1. v \in Moving /\ v.step = "confirm"
    BY <1>1 DEF Moving
  <2>2. moving' = [moving EXCEPT ![r] = v] /\ UNCHANGED <<quantity, movements, parts, raced, quota>>
    BY <1>1, <1>3 DEF DismissPredicted
  <2>. HIDE DEF v
  <2>. QED  BY <1>1, <2>1, <2>2, SettleStock
<1>4. CASE CreateReplacement(r)
  <2>1. moving' = [moving EXCEPT ![r] = Idle] /\ UNCHANGED <<quantity, movements, parts, raced, quota>>
    BY <1>4 DEF CreateReplacement
  <2>. QED  BY <1>1, <2>1, SettleStock, IdleMoving
<1>. QED  BY <1>2, <1>3, <1>4

LEMMA SuppliesStep == SuppliesIInv /\ [SupplyNext]_stockAndSupplyVars => SuppliesIInv'
<1>. SUFFICES ASSUME StockIInv, SupplyIInv, [SupplyNext]_stockAndSupplyVars PROVE StockIInv' /\ SupplyIInv'
  BY DEF SuppliesIInv
<1>0. quota \in [Kinds -> Nat] /\ {"read", "untrue", "swap", "forecast"} \subseteq Kinds
  BY SuppliesAssumption DEF StockIInv, StockTypeOK
<1>1. CASE UNCHANGED stockAndSupplyVars
  BY <1>0, <1>1, UnchangedStock, SupplyVarsKept DEF stockAndSupplyVars
<1>2. CASE StockNext /\ UNCHANGED supplyVars
  BY <1>2, StockStep, SupplyVarsKept
<1>3. CASE Wear \/ Swap \/ ReadNothing \/ ReadLevel \/ Ingest \/ \E l \in Levels : ReadUntrue(l)
  <2>1. UNCHANGED stockVars
    BY <1>3 DEF Wear, Swap, ReadNothing, ReadLevel, Ingest, ReadUntrue, Detect
  <2>2. quota' \in [Kinds -> Nat]
    BY <1>0, <1>3, SpendBound DEF Wear, Swap, ReadNothing, ReadLevel, Ingest, ReadUntrue
  <2>3. CASE ReadLevel
    <3>1. Detect(level) /\ level \in Levels /\ untrue' = untrue /\ untrue \in BOOLEAN
      BY <2>3 DEF ReadLevel, SupplyIInv, SupplyTypes
    <3>2. SupplyIInv'
      BY <3>1, DetectStep
    <3>. QED  BY <2>1, <2>2, <3>2, UnchangedStock
  <2>4. ASSUME NEW l \in Levels, ReadUntrue(l) PROVE SupplyIInv'
    <3>1. Detect(l) /\ untrue' = TRUE
      BY <2>4 DEF ReadUntrue
    <3>. QED  BY <3>1, DetectStep
  <2>. QED  BY <1>3, <2>1, <2>2, <2>3, <2>4, UnchangedStock, LevelStep, ReadNothingStep, IngestStep
<1>4. ASSUME NEW f \in Forecasters, ReadTrend(f) \/ FindPredicted(f) \/ KeepPrediction(f)
      PROVE  StockIInv' /\ SupplyIInv'
  <2>1. UNCHANGED stockVars
    BY <1>4 DEF ReadTrend, FindPredicted, KeepPrediction
  <2>2. quota' \in [Kinds -> Nat]
    BY <1>0, <1>4, SpendBound DEF ReadTrend, FindPredicted, KeepPrediction
  <2>. QED  BY <1>4, <2>1, <2>2, UnchangedStock, ReadTrendStep, FindPredictedStep, KeepPredictionStep
<1>5. ASSUME NEW r \in Requests, ReplaceWithoutStock(r) \/ DismissPredicted(r) \/ CreateReplacement(r)
      PROVE  StockIInv' /\ SupplyIInv'
  <2>1. CASE ReplaceWithoutStock(r)
    BY <2>1, ReplaceStock, SupplyVarsKept DEF ReplaceWithoutStock
  <2>. QED  BY <1>5, <2>1, ReplaceStock, DismissPredictedStep, CreateReplacementStep
<1>. QED  BY <1>1, <1>2, <1>3, <1>4, <1>5 DEF SupplyNext

\* In every state the stock, the rows and what requests have read of both
\* agree, and there is a change of the supply for each detection.
THEOREM SuppliesInductive == SupplySpec => []SuppliesIInv
  BY InitSupplies, SuppliesStep, PTL DEF SupplySpec

(* For any stock and any number of requests, whatever fails between their  *)
(* statements: the quantity is what the movements add up to unless two     *)
(* raced, and every part has a movement of its own (createMovement,        *)
(* addPart).                                                               *)
THEOREM StockBalances == SupplySpec => []StockConsistent
<1>1. SuppliesIInv => StockConsistent
  BY DEF SuppliesIInv, StockIInv, StockConsistent
<1>2. QED  BY SuppliesInductive, <1>1, PTL

\* A set of numbers all equal has one at most.
LEMMA AtMostOne ==
    ASSUME NEW S, \A i, j \in S : i = j
    PROVE  Cardinality(S) <= 1
<1>1. CASE S = {}
  BY <1>1, FS_EmptySet
<1>2. CASE S # {}
  <2>1. PICK x \in S : S = {} \cup {x}
    BY <1>2
  <2>2. Cardinality(S) = 1
    BY <2>1, FS_EmptySet, FS_AddElement
  <2>. QED  BY <2>2
<1>. QED  BY <1>1, <1>2

(* For any levels and thresholds, any number of forecasts and requests:    *)
(* one candidate waits at a time, and one prediction is open unless        *)
(* forecasts and ingestions overlapped (detectReplacement, forecast).      *)
THEOREM RowsStayConsistent == SupplySpec => []RowsConsistent
<1>1. SuppliesIInv => RowsConsistent
  <2>. SUFFICES ASSUME SuppliesIInv PROVE SupplyTypeOK /\ OneOpen
    BY DEF RowsConsistent
  <2>1. SupplyTypeOK
    BY DEF SuppliesIInv, StockIInv, SupplyIInv, SupplyTypes, SupplyTypeOK
  <2>2. Cardinality(With("CANDIDATE")) <= 1
    BY AtMostOne DEF SuppliesIInv, SupplyIInv, RowsAsRead, Candidates
  <2>3. ~overlap /\ ~gap => Cardinality(With("PREDICTED")) <= 1
    BY AtMostOne DEF SuppliesIInv, SupplyIInv, PredictionsAlone, Predictions
  <2>. QED  BY <2>1, <2>2, <2>3 DEF OneOpen
<1>2. QED  BY SuppliesInductive, <1>1, PTL

(* For any levels, thresholds and order of events: a detection rests on a  *)
(* baseline and two levels that exceed it, and as long as the readings are *)
(* true and in order there are no more of them than swaps                  *)
(* (detectReplacement).                                                    *)
THEOREM DetectionsStayReal == SupplySpec => []DetectionsAreReal
<1>1. SuppliesIInv => DetectionsAreReal
  <2>. SUFFICES ASSUME SupplyIInv PROVE ConfirmedWhenHeld /\ SwapCountedOnce
    BY DEF SuppliesIInv, DetectionsAreReal
  <2>1. ConfirmedWhenHeld
    BY DEF SupplyIInv
  <2>2. IsFiniteSet(Counted) /\ Cardinality(Counted) \in Nat /\ swaps \in Nat
    BY CountedFinite DEF SupplyIInv, SupplyTypes
  <2>3. Detections \subseteq Counted
    BY DEF Detections, With, Counted
  <2>4. Cardinality(Detections) \in Nat /\ Cardinality(Detections) <= Cardinality(Counted)
    BY <2>2, <2>3, FS_Subset, FS_CardinalityType
  <2>5. ~untrue => Cardinality(Counted) <= swaps
    BY DEF SupplyIInv, CountedOnce
  <2>. QED  BY <2>1, <2>2, <2>4, <2>5 DEF SwapCountedOnce
<1>2. QED  BY SuppliesInductive, <1>1, PTL
=============================================================================
