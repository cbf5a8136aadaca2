--------------------------- MODULE TransferProofs ---------------------------
(***************************************************************************)
(* Proofs about module Transfer.                                           *)
(*                                                                         *)
(* Of each denomination the chains keep coins apart, in escrow here or     *)
(* locked there, for the vouchers that circulate on the other side.  The   *)
(* invariant is one equation for both directions: what is kept apart is    *)
(* what circulates, in units of the denomination, plus the flow of every   *)
(* packet, a number that depends on the state of the packet alone.  Each   *)
(* action moves one packet, and its flow changes by what the action adds   *)
(* to one side of the equation.                                            *)
(***************************************************************************)
EXTENDS Transfer, StakeProofs, SequenceTheorems

\* What a packet counts for in the equation.
FlowOut(p, d, u) == SentInFlight(p, d) - SentDust(p, d, u)
FlowIn(p, d, u)  == ReceivedInFlight(p, d) + ReceivedDust(p, d, u) - DoubledBy(p, d, u)

SentFlow(s, d, u) ==
    Total([i \in DOMAIN s |-> SentInFlight(s[i], d)])
      - Total([i \in DOMAIN s |-> SentDust(s[i], d, u)])

ReceivedFlow(r, d, u) ==
    Total([i \in DOMAIN r |-> ReceivedInFlight(r[i], d)])
      + Total([i \in DOMAIN r |-> ReceivedDust(r[i], d, u)])
      - Total([i \in DOMAIN r |-> DoubledBy(r[i], d, u)])

-----------------------------------------------------------------------------
(* The inductive invariant, in operators of the values of the variables.   *)

IsAssets(as) ==
    /\ DOMAIN as \subseteq Foreign
    /\ \A d \in DOMAIN as : as[d] \in Decimals /\ as[d][2] <= as[d][1]

UnitIn(as, d) ==
    IF d \in DOMAIN as /\ as[d][2] < as[d][1] THEN Ten ^ (as[d][1] - as[d][2]) ELSE 1

Bank == [purse : [Denoms -> Nat], escrow : [Native -> Nat], fees : Nat, authority : Nat]

SentPacket ==
    [denom : Denoms, amount : Nat, fee : Nat, commitment : BOOLEAN,
     there : {"sent", "ok", "error", "expired"}]

\* A packet that nobody has seen is committed, and it was possible to send it.
SentOK(as, p) ==
    /\ p.there = "sent" => p.commitment
    /\ p.denom \in Foreign =>
         p.denom \in DOMAIN as /\ p.amount \div UnitIn(as, p.denom) <= U64Max
    /\ p.denom \in Native => p.amount <= U64Max

ReceivedPacket ==
    [denom : Denoms, amount : Nat, memo : {"good", "bad"},
     here : {"sent", "ok", "kept", "error", "expired"}, settled : BOOLEAN]

\* Only a packet with an end is settled, and coins are given of what is minted.
ReceivedOK(as, p) ==
    /\ p.settled => p.here # "sent"
    /\ p.denom \in Foreign /\ p.here \in {"ok", "kept"} => p.denom \in DOMAIN as

PacketsOK(as, s, r) ==
    /\ s \in Seq(SentPacket) /\ \A i \in DOMAIN s : SentOK(as, s[i])
    /\ r \in Seq(ReceivedPacket) /\ \A i \in DOMAIN r : ReceivedOK(as, r[i])

\* Coins that are kept apart for vouchers, and the vouchers.
Escrowed(b, d) == IF d = WSOL THEN b.authority ELSE b.escrow[d]
Held(b, l, d) == IF d \in Foreign THEN l[d] ELSE Escrowed(b, d)
Circulating(b, ab, d) == IF d \in Foreign THEN b.purse[d] ELSE ab[d]

BalancedBy(b, ab, l, d, u, f) == Held(b, l, d) = Circulating(b, ab, d) * u + f

Flow(as, s, r, d) == SentFlow(s, d, UnitIn(as, d)) + ReceivedFlow(r, d, UnitIn(as, d))

Balanced(as, b, s, r, ab, l) ==
    \A d \in Denoms : BalancedBy(b, ab, l, d, UnitIn(as, d), Flow(as, s, r, d))

\* Nothing circulates of a denomination without a mint.
NothingUnminted(as, b) == \A d \in Foreign \ DOMAIN as : b.purse[d] = 0

\* What was paid for the packets of a sequence that are pending.
FeesOf(s) == [i \in DOMAIN s |-> s[i].fee]

\* The fee account holds what was paid for the pending packets.
Funded(b, s, h) == h.drained \/ Total(FeesOf(s)) <= b.fees

Keys == Admins \cup {NoKey}

\* A proposal is the last one that was signed, by the collector of today.
AdminOK(ad, h) ==
    /\ ad \in [fee : Nat, fee_collector : Keys, proposal : Keys]
    /\ h \in [consent : Keys \X Keys, drained : BOOLEAN]
    /\ ad.proposal # NoKey => h.consent = <<ad.fee_collector, ad.proposal>>
    /\ ad.fee_collector = NoKey => ad.proposal = NoKey

TInv ==
    /\ IsAssets(assets)
    /\ bank \in Bank /\ FitsSupply(bank)
    /\ AdminOK(admin, history)
    /\ PacketsOK(assets, sent, received)
    /\ abroad \in [Denoms -> Nat] /\ locked \in [Foreign -> Nat]
    /\ Balanced(assets, bank, sent, received, abroad, locked)
    /\ NothingUnminted(assets, bank)
    /\ Funded(bank, sent, history)

-----------------------------------------------------------------------------
(* Sums.                                                                   *)

Summable(f) == IsFiniteSet(DOMAIN f) /\ \A i \in DOMAIN f : f[i] \in Nat

Entries(f) == {[pubkey |-> i, stake |-> f[i]] : i \in DOMAIN f}

LEMMA EntriesAreValidators ==
  ASSUME NEW f, Summable(f)
  PROVE  ValidatorSet(Entries(f))
<1> DEFINE g == [i \in DOMAIN f |-> [pubkey |-> i, stake |-> f[i]]]
<1>1. g \in Surjection(DOMAIN f, Entries(f))
  BY DEF Surjection, Entries
<1>2. IsFiniteSet(Entries(f))
  BY <1>1, FS_Surjection DEF Summable
<1>3. \A v \in Entries(f) : v.stake \in Nat
  BY DEF Entries, Summable
<1>4. DistinctKeys(Entries(f))
  BY DEF Entries, DistinctKeys
<1> QED
  BY <1>2, <1>3, <1>4 DEF ValidatorSet

LEMMA TotalType ==
  ASSUME NEW f, Summable(f)
  PROVE  Total(f) \in Nat
  BY EntriesAreValidators, StakeOfType DEF Total, Entries

LEMMA TotalSame ==
  ASSUME NEW f, NEW g, DOMAIN f = DOMAIN g, \A i \in DOMAIN f : f[i] = g[i]
  PROVE  Total(f) = Total(g)
<1>1. Entries(f) = Entries(g)
  BY DEF Entries
<1> QED
  BY <1>1 DEF Total, Entries

LEMMA TotalZero ==
  ASSUME NEW f, \A i \in DOMAIN f : f[i] = 0
  PROVE  Total(f) = 0
<1>1. \A v \in Entries(f) : v.stake = 0
  BY DEF Entries
<1>2. 1 .. 0 = {}
  OBVIOUS
<1>3. \A v \in Entries(f) : UnitsOf(v) = {}
  BY <1>1, <1>2 DEF UnitsOf
<1>4. StakeUnits(Entries(f)) = {}
  BY <1>3 DEF StakeUnits
<1> QED
  BY <1>4, FS_EmptySet DEF Total, Entries, StakeOf

(* One more index adds its value.                                          *)
LEMMA TotalMore ==
  ASSUME NEW f, Summable(f), NEW g, Summable(g), NEW n, n \notin DOMAIN f,
         DOMAIN g = DOMAIN f \cup {n}, \A i \in DOMAIN f : g[i] = f[i]
  PROVE  Total(g) = Total(f) + g[n]
<1> DEFINE v == [pubkey |-> n, stake |-> g[n]]
           V == Entries(f)
<1>1. Entries(g) = V \cup {v}
  BY DEF Entries
<1>2. v \notin V
  BY DEF Entries
<1>3. ValidatorSet(V \cup {v})
  BY <1>1, EntriesAreValidators
<1>4. v.stake = g[n]
  OBVIOUS
<1> HIDE DEF v, V
<1>5. StakeOf(V \cup {v}) = StakeOf(V) + v.stake
  BY <1>2, <1>3, StakeOfAdd
<1> QED
  BY <1>1, <1>4, <1>5 DEF Total, Entries, V

(* Without the index n.                                                    *)
Without(f, n) == [i \in DOMAIN f \ {n} |-> f[i]]

LEMMA TotalLess ==
  ASSUME NEW f, Summable(f), NEW n \in DOMAIN f
  PROVE  /\ Total(f) = Total(Without(f, n)) + f[n]
         /\ Total(Without(f, n)) \in Nat
<1> DEFINE g == Without(f, n)
<1>1. DOMAIN g = DOMAIN f \ {n} /\ \A i \in DOMAIN g : g[i] = f[i]
  BY DEF Without
<1>2. Summable(g)
  BY <1>1, FS_RemoveElement DEF Summable
<1>3. n \notin DOMAIN g /\ DOMAIN f = DOMAIN g \cup {n} /\ \A i \in DOMAIN g : f[i] = g[i]
  BY <1>1
<1> HIDE DEF g
<1>4. Total(f) = Total(g) + f[n]
  BY <1>2, <1>3, TotalMore
<1> QED
  BY <1>2, <1>4, TotalType DEF g

(* The value at one index is replaced.                                     *)
LEMMA TotalChange ==
  ASSUME NEW f, Summable(f), NEW g, Summable(g), DOMAIN f = DOMAIN g,
         NEW n \in DOMAIN f, \A i \in DOMAIN f \ {n} : g[i] = f[i]
  PROVE  Total(g) = Total(f) - f[n] + g[n]
<1>1. Without(f, n) = Without(g, n)
  BY DEF Without
<1>2. /\ Total(f) = Total(Without(f, n)) + f[n]
      /\ Total(g) = Total(Without(g, n)) + g[n]
      /\ Total(Without(f, n)) \in Nat
  BY TotalLess
<1>3. f[n] \in Nat /\ g[n] \in Nat
  BY DEF Summable
<1> QED
  BY <1>1, <1>2, <1>3

LEMMA TotalAtLeast ==
  ASSUME NEW f, Summable(f), NEW n \in DOMAIN f
  PROVE  f[n] <= Total(f)
<1>1. f[n] \in Nat
  BY DEF Summable
<1> QED
  BY <1>1, TotalLess

-----------------------------------------------------------------------------
(* Flows.                                                                  *)

LEMMA Remainder ==
  ASSUME NEW a \in Nat, NEW u \in Nat \ {0}
  PROVE  /\ a % u \in Nat /\ a \div u \in Nat
         /\ a % u <= a /\ a \div u <= a
         /\ (a \div u) * u = a - (a % u)
         /\ a - (a % u) \in Nat
<1>1. a % u \in Nat /\ a \div u \in Nat
  OBVIOUS
<1>2. a % u <= a
  OBVIOUS
<1>3. a \div u <= a
  OBVIOUS
<1>4. (a \div u) * u = a - (a % u)
  OBVIOUS
<1> QED
  BY <1>1, <1>2, <1>3, <1>4

LEMMA SentParts ==
  ASSUME NEW p \in SentPacket, NEW d, NEW u \in Nat \ {0}
  PROVE  SentInFlight(p, d) \in Nat /\ SentDust(p, d, u) \in Nat
<1>1. p.amount \in Nat
  BY DEF SentPacket
<1> QED
  BY <1>1, Remainder DEF SentInFlight, SentDust, If

LEMMA ReceivedParts ==
  ASSUME NEW p \in ReceivedPacket, NEW d, NEW u \in Nat \ {0}
  PROVE  /\ ReceivedInFlight(p, d) \in Nat
         /\ ReceivedDust(p, d, u) \in Nat
         /\ DoubledBy(p, d, u) \in Nat
<1>1. p.amount \in Nat
  BY DEF ReceivedPacket
<1> QED
  BY <1>1, Remainder DEF ReceivedInFlight, ReceivedDust, DoubledBy, If

LEMMA IndicesFinite ==
  ASSUME NEW S, NEW s \in Seq(S)
  PROVE  IsFiniteSet(DOMAIN s) /\ \A i \in DOMAIN s : s[i] \in S
<1>1. Len(s) \in Nat /\ DOMAIN s = 1 .. Len(s)
  BY LenProperties
<1>2. IsFiniteSet(1 .. Len(s))
  BY <1>1, FS_Interval
<1> QED
  BY <1>1, <1>2, ElementOfSeq

\* The values of the packets of a sequence.
OutFlights(s, d)  == [i \in DOMAIN s |-> SentInFlight(s[i], d)]
OutDusts(s, d, u) == [i \in DOMAIN s |-> SentDust(s[i], d, u)]
InFlights(r, d)   == [i \in DOMAIN r |-> ReceivedInFlight(r[i], d)]
InDusts(r, d, u)  == [i \in DOMAIN r |-> ReceivedDust(r[i], d, u)]
Doubles(r, d, u)  == [i \in DOMAIN r |-> DoubledBy(r[i], d, u)]

LEMMA SentSummable ==
  ASSUME NEW s \in Seq(SentPacket), NEW d, NEW u \in Nat \ {0}
  PROVE  Summable(OutFlights(s, d)) /\ Summable(OutDusts(s, d, u))
  BY IndicesFinite, SentParts DEF Summable, OutFlights, OutDusts

LEMMA ReceivedSummable ==
  ASSUME NEW r \in Seq(ReceivedPacket), NEW d, NEW u \in Nat \ {0}
  PROVE  Summable(InFlights(r, d)) /\ Summable(InDusts(r, d, u)) /\ Summable(Doubles(r, d, u))
  BY IndicesFinite, ReceivedParts DEF Summable, InFlights, InDusts, Doubles

LEMMA SentFlowType ==
  ASSUME NEW s \in Seq(SentPacket), NEW d, NEW u \in Nat \ {0}
  PROVE  /\ SentFlow(s, d, u) \in Int
         /\ \A i \in DOMAIN s : FlowOut(s[i], d, u) \in Int
<1>1. Total(OutFlights(s, d)) \in Nat /\ Total(OutDusts(s, d, u)) \in Nat
  BY SentSummable, TotalType
<1>2. SentFlow(s, d, u) \in Int
  BY <1>1 DEF SentFlow, OutFlights, OutDusts
<1>3. ASSUME NEW i \in DOMAIN s PROVE FlowOut(s[i], d, u) \in Int
  BY IndicesFinite, SentParts DEF FlowOut
<1> QED
  BY <1>2, <1>3

LEMMA ReceivedFlowType ==
  ASSUME NEW r \in Seq(ReceivedPacket), NEW d, NEW u \in Nat \ {0}
  PROVE  /\ ReceivedFlow(r, d, u) \in Int
         /\ \A i \in DOMAIN r : FlowIn(r[i], d, u) \in Int
<1>1. /\ Total(InFlights(r, d)) \in Nat /\ Total(InDusts(r, d, u)) \in Nat
      /\ Total(Doubles(r, d, u)) \in Nat
  BY ReceivedSummable, TotalType
<1>2. ReceivedFlow(r, d, u) \in Int
  BY <1>1 DEF ReceivedFlow, InFlights, InDusts, Doubles
<1>3. ASSUME NEW i \in DOMAIN r PROVE FlowIn(r[i], d, u) \in Int
  BY IndicesFinite, ReceivedParts DEF FlowIn
<1> QED
  BY <1>2, <1>3

\* t is s with the packet q in place n.
ReplacedAt(s, t, n, q) ==
    /\ n \in DOMAIN s /\ DOMAIN t = DOMAIN s
    /\ t[n] = q /\ \A i \in DOMAIN s \ {n} : t[i] = s[i]

LEMMA ReplaceInSeq ==
  ASSUME NEW S, NEW s \in Seq(S), NEW n \in DOMAIN s, NEW q \in S
  PROVE  /\ [s EXCEPT ![n] = q] \in Seq(S)
         /\ ReplacedAt(s, [s EXCEPT ![n] = q], n, q)
<1>1. [s EXCEPT ![n] = q] \in Seq(S)
  BY ExceptSeq
<1>2. s \in [1 .. Len(s) -> S]
  BY LenProperties, ElementOfSeq
<1>3. ReplacedAt(s, [s EXCEPT ![n] = q], n, q)
  BY <1>2 DEF ReplacedAt
<1> QED
  BY <1>1, <1>3

\* t is s with the packet q after it.
AppendedTo(s, t, q) ==
    \E n : /\ n \notin DOMAIN s /\ DOMAIN t = DOMAIN s \cup {n}
           /\ t[n] = q /\ \A i \in DOMAIN s : t[i] = s[i]

LEMMA AppendInSeq ==
  ASSUME NEW S, NEW s \in Seq(S), NEW q \in S
  PROVE  Append(s, q) \in Seq(S) /\ AppendedTo(s, Append(s, q), q)
<1>1. /\ Append(s, q) \in Seq(S)
      /\ Len(Append(s, q)) = Len(s) + 1
      /\ \A i \in 1 .. Len(s) : Append(s, q)[i] = s[i]
      /\ Append(s, q)[Len(s) + 1] = q
  BY AppendProperties
<1>2. /\ Len(s) \in Nat /\ DOMAIN s = 1 .. Len(s)
      /\ DOMAIN Append(s, q) = 1 .. Len(Append(s, q))
  BY <1>1, LenProperties
<1>3. Len(s) + 1 \notin DOMAIN s /\ DOMAIN Append(s, q) = DOMAIN s \cup {Len(s) + 1}
  BY <1>1, <1>2
<1> QED
  BY <1>1, <1>2, <1>3 DEF AppendedTo

LEMMA SentFlowReplace ==
  ASSUME NEW s \in Seq(SentPacket), NEW t \in Seq(SentPacket), NEW n, NEW q,
         ReplacedAt(s, t, n, q), NEW d, NEW u \in Nat \ {0}
  PROVE  SentFlow(t, d, u) = SentFlow(s, d, u) - FlowOut(s[n], d, u) + FlowOut(q, d, u)
<1> DEFINE f1 == OutFlights(s, d)
           g1 == OutFlights(t, d)
           f2 == OutDusts(s, d, u)
           g2 == OutDusts(t, d, u)
<1>1. Summable(f1) /\ Summable(g1) /\ Summable(f2) /\ Summable(g2)
  BY SentSummable
<1>2. /\ DOMAIN f1 = DOMAIN g1 /\ DOMAIN f2 = DOMAIN g2
      /\ n \in DOMAIN f1 /\ n \in DOMAIN f2
      /\ \A i \in DOMAIN f1 \ {n} : g1[i] = f1[i]
      /\ \A i \in DOMAIN f2 \ {n} : g2[i] = f2[i]
      /\ f1[n] = SentInFlight(s[n], d) /\ g1[n] = SentInFlight(q, d)
      /\ f2[n] = SentDust(s[n], d, u) /\ g2[n] = SentDust(q, d, u)
  BY DEF OutFlights, OutDusts, ReplacedAt
<1>3. /\ SentFlow(s, d, u) = Total(f1) - Total(f2)
      /\ SentFlow(t, d, u) = Total(g1) - Total(g2)
  BY DEF SentFlow, OutFlights, OutDusts
<1> HIDE DEF f1, g1, f2, g2
<1>4. Total(g1) = Total(f1) - f1[n] + g1[n] /\ Total(g2) = Total(f2) - f2[n] + g2[n]
  BY <1>1, <1>2, TotalChange
<1>5. /\ Total(f1) \in Nat /\ Total(f2) \in Nat
      /\ f1[n] \in Nat /\ g1[n] \in Nat /\ f2[n] \in Nat /\ g2[n] \in Nat
  BY <1>1, <1>2, TotalType DEF Summable
<1>6. FlowOut(s[n], d, u) = f1[n] - f2[n] /\ FlowOut(q, d, u) = g1[n] - g2[n]
  BY <1>2 DEF FlowOut
<1>7. Total(g1) - Total(g2) = Total(f1) - Total(f2) - (f1[n] - f2[n]) + (g1[n] - g2[n])
  BY <1>4, <1>5, SMTT(30)
<1> QED
  BY <1>3, <1>6, <1>7

LEMMA SentFlowAppend ==
  ASSUME NEW s \in Seq(SentPacket), NEW t \in Seq(SentPacket), NEW q,
         AppendedTo(s, t, q), NEW d, NEW u \in Nat \ {0}
  PROVE  SentFlow(t, d, u) = SentFlow(s, d, u) + FlowOut(q, d, u)
<1> DEFINE f1 == OutFlights(s, d)
           g1 == OutFlights(t, d)
           f2 == OutDusts(s, d, u)
           g2 == OutDusts(t, d, u)
<1>1. Summable(f1) /\ Summable(g1) /\ Summable(f2) /\ Summable(g2)
  BY SentSummable
<1>2. PICK n : /\ n \notin DOMAIN s /\ DOMAIN t = DOMAIN s \cup {n}
               /\ t[n] = q /\ \A i \in DOMAIN s : t[i] = s[i]
  BY DEF AppendedTo
<1>3. /\ DOMAIN g1 = DOMAIN f1 \cup {n} /\ DOMAIN g2 = DOMAIN f2 \cup {n}
      /\ n \notin DOMAIN f1 /\ n \notin DOMAIN f2
      /\ \A i \in DOMAIN f1 : g1[i] = f1[i]
      /\ \A i \in DOMAIN f2 : g2[i] = f2[i]
      /\ g1[n] = SentInFlight(q, d) /\ g2[n] = SentDust(q, d, u)
  BY <1>2 DEF OutFlights, OutDusts
<1>4. /\ SentFlow(s, d, u) = Total(f1) - Total(f2)
      /\ SentFlow(t, d, u) = Total(g1) - Total(g2)
  BY DEF SentFlow, OutFlights, OutDusts
<1> HIDE DEF f1, g1, f2, g2
<1>5. Total(g1) = Total(f1) + g1[n] /\ Total(g2) = Total(f2) + g2[n]
  BY <1>1, <1>3, TotalMore
<1>6. /\ Total(f1) \in Nat /\ Total(f2) \in Nat
      /\ g1[n] \in Nat /\ g2[n] \in Nat
  BY <1>1, <1>3, TotalType DEF Summable
<1>7. FlowOut(q, d, u) = g1[n] - g2[n]
  BY <1>3 DEF FlowOut
<1> QED
  BY <1>4, <1>5, <1>6, <1>7

LEMMA ReceivedFlowReplace ==
  ASSUME NEW s \in Seq(ReceivedPacket), NEW t \in Seq(ReceivedPacket), NEW n, NEW q,
         ReplacedAt(s, t, n, q), NEW d, NEW u \in Nat \ {0}
  PROVE  ReceivedFlow(t, d, u) = ReceivedFlow(s, d, u) - FlowIn(s[n], d, u) + FlowIn(q, d, u)
<1> DEFINE f1 == InFlights(s, d)
           g1 == InFlights(t, d)
           f2 == InDusts(s, d, u)
           g2 == InDusts(t, d, u)
           f3 == Doubles(s, d, u)
           g3 == Doubles(t, d, u)
<1>1. /\ Summable(f1) /\ Summable(g1) /\ Summable(f2) /\ Summable(g2)
      /\ Summable(f3) /\ Summable(g3)
  BY ReceivedSummable
<1>2. /\ DOMAIN f1 = DOMAIN g1 /\ n \in DOMAIN f1
      /\ \A i \in DOMAIN f1 \ {n} : g1[i] = f1[i]
      /\ f1[n] = ReceivedInFlight(s[n], d) /\ g1[n] = ReceivedInFlight(q, d)
  BY DEF InFlights, ReplacedAt
<1>3. /\ DOMAIN f2 = DOMAIN g2 /\ n \in DOMAIN f2
      /\ \A i \in DOMAIN f2 \ {n} : g2[i] = f2[i]
      /\ f2[n] = ReceivedDust(s[n], d, u) /\ g2[n] = ReceivedDust(q, d, u)
  BY DEF InDusts, ReplacedAt
<1>4. /\ DOMAIN f3 = DOMAIN g3 /\ n \in DOMAIN f3
      /\ \A i \in DOMAIN f3 \ {n} : g3[i] = f3[i]
      /\ f3[n] = DoubledBy(s[n], d, u) /\ g3[n] = DoubledBy(q, d, u)
  BY DEF Doubles, ReplacedAt
<1>5. /\ ReceivedFlow(s, d, u) = Total(f1) + Total(f2) - Total(f3)
      /\ ReceivedFlow(t, d, u) = Total(g1) + Total(g2) - Total(g3)
  BY DEF ReceivedFlow, InFlights, InDusts, Doubles
<1> HIDE DEF f1, g1, f2, g2, f3, g3
<1>6. PICK a \in Nat, b \in Nat, c \in Nat :
        a = Total(f1) /\ b = Total(f2) /\ c = Total(f3)
  BY <1>1, TotalType
<1>7. PICK x \in Nat, y \in Nat, z \in Nat : x = f1[n] /\ y = f2[n] /\ z = f3[n]
  BY <1>1, <1>2, <1>3, <1>4 DEF Summable
<1>8. PICK k \in Nat, l \in Nat, m \in Nat : k = g1[n] /\ l = g2[n] /\ m = g3[n]
  BY <1>1, <1>2, <1>3, <1>4 DEF Summable
<1>9. Total(g1) = a - x + k /\ Total(g2) = b - y + l /\ Total(g3) = c - z + m
  <2>1. Total(g1) = a - x + k
    BY <1>1, <1>2, <1>6, <1>7, <1>8, TotalChange, SMTT(30)
  <2>2. Total(g2) = b - y + l
    BY <1>1, <1>3, <1>6, <1>7, <1>8, TotalChange, SMTT(30)
  <2>3. Total(g3) = c - z + m
    BY <1>1, <1>4, <1>6, <1>7, <1>8, TotalChange, SMTT(30)
  <2> QED
    BY <2>1, <2>2, <2>3
<1>10. FlowIn(s[n], d, u) = x + y - z /\ FlowIn(q, d, u) = k + l - m
  BY <1>2, <1>3, <1>4, <1>7, <1>8 DEF FlowIn
<1>11. /\ ReceivedFlow(s, d, u) = a + b - c
       /\ ReceivedFlow(t, d, u) = (a - x + k) + (b - y + l) - (c - z + m)
  BY <1>5, <1>6, <1>9, Zenon
<1>12. (a - x + k) + (b - y + l) - (c - z + m) = a + b - c - (x + y - z) + (k + l - m)
  OBVIOUS
<1> QED
  BY <1>10, <1>11, <1>12

LEMMA ReceivedFlowAppend ==
  ASSUME NEW s \in Seq(ReceivedPacket), NEW t \in Seq(ReceivedPacket), NEW q,
         AppendedTo(s, t, q), NEW d, NEW u \in Nat \ {0}
  PROVE  ReceivedFlow(t, d, u) = ReceivedFlow(s, d, u) + FlowIn(q, d, u)
<1> DEFINE f1 == InFlights(s, d)
           g1 == InFlights(t, d)
           f2 == InDusts(s, d, u)
           g2 == InDusts(t, d, u)
           f3 == Doubles(s, d, u)
           g3 == Doubles(t, d, u)
<1>1. /\ Summable(f1) /\ Summable(g1) /\ Summable(f2) /\ Summable(g2)
      /\ Summable(f3) /\ Summable(g3)
  BY ReceivedSummable
<1>2. PICK n : /\ n \notin DOMAIN s /\ DOMAIN t = DOMAIN s \cup {n}
               /\ t[n] = q /\ \A i \in DOMAIN s : t[i] = s[i]
  BY DEF AppendedTo
<1>3. /\ DOMAIN g1 = DOMAIN f1 \cup {n} /\ n \notin DOMAIN f1
      /\ \A i \in DOMAIN f1 : g1[i] = f1[i]
      /\ g1[n] = ReceivedInFlight(q, d)
  BY <1>2 DEF InFlights
<1>4. /\ DOMAIN g2 = DOMAIN f2 \cup {n} /\ n \notin DOMAIN f2
      /\ \A i \in DOMAIN f2 : g2[i] = f2[i]
      /\ g2[n] = ReceivedDust(q, d, u)
  BY <1>2 DEF InDusts
<1>5. /\ DOMAIN g3 = DOMAIN f3 \cup {n} /\ n \notin DOMAIN f3
      /\ \A i \in DOMAIN f3 : g3[i] = f3[i]
      /\ g3[n] = DoubledBy(q, d, u)
  BY <1>2 DEF Doubles
<1>6. /\ ReceivedFlow(s, d, u) = Total(f1) + Total(f2) - Total(f3)
      /\ ReceivedFlow(t, d, u) = Total(g1) + Total(g2) - Total(g3)
  BY DEF ReceivedFlow, InFlights, InDusts, Doubles
<1> HIDE DEF f1, g1, f2, g2, f3, g3
<1>7. /\ Total(g1) = Total(f1) + g1[n] /\ Total(g2) = Total(f2) + g2[n]
      /\ Total(g3) = Total(f3) + g3[n]
  BY <1>1, <1>3, <1>4, <1>5, TotalMore
<1>8. /\ Total(f1) \in Nat /\ Total(f2) \in Nat /\ Total(f3) \in Nat
      /\ g1[n] \in Nat /\ g2[n] \in Nat /\ g3[n] \in Nat
  BY <1>1, <1>3, <1>4, <1>5, TotalType DEF Summable
<1>9. FlowIn(q, d, u) = g1[n] + g2[n] - g3[n]
  BY <1>3, <1>4, <1>5 DEF FlowIn
<1> QED
  BY <1>6, <1>7, <1>8, <1>9, SMTT(30)

-----------------------------------------------------------------------------
(* Units and balances.                                                     *)

LEMMA Origins ==
  /\ WSOL \in Native /\ WSOL \notin Foreign
  /\ \A d \in Native : d \in Denoms /\ d \notin Foreign
  /\ \A d \in Foreign : d \in Denoms /\ d \notin Native
  /\ \A d \in Denoms : d \notin Foreign => d \in Native
  BY TransferAssumption DEF Denoms

LEMMA UnitType ==
  ASSUME NEW as, IsAssets(as), NEW d
  PROVE  /\ UnitIn(as, d) \in Nat \ {0}
         /\ d \notin Foreign => UnitIn(as, d) = 1
<1>1. CASE d \in DOMAIN as /\ as[d][2] < as[d][1]
  <2>1. as[d] \in Decimals /\ as[d][2] < as[d][1]
    BY <1>1 DEF IsAssets
  <2>2. Ten ^ (as[d][1] - as[d][2]) \in Nat \ {0}
    BY <2>1, TransferAssumption
  <2>3. UnitIn(as, d) = Ten ^ (as[d][1] - as[d][2])
    BY <1>1, Zenon DEF UnitIn
  <2>4. d \in Foreign
    BY <1>1 DEF IsAssets
  <2>5. UnitIn(as, d) \in Nat \ {0}
    BY <2>2, <2>3
  <2> QED
    BY <2>4, <2>5
<1>2. CASE ~(d \in DOMAIN as /\ as[d][2] < as[d][1])
  <2>1. UnitIn(as, d) = 1
    BY <1>2, Zenon DEF UnitIn
  <2> QED
    BY <2>1
<1> QED
  BY <1>1, <1>2

LEMMA ConvertedInUnits ==
  ASSUME IsAssets(assets), NEW d \in DOMAIN assets, NEW a \in Nat
  PROVE  Converted(d, a) = a \div UnitIn(assets, d)
<1> DEFINE x == assets[d][1]
           y == assets[d][2]
<1>1. x \in Nat /\ y \in Nat /\ y <= x
  <2>1. assets[d] \in Nat \X Nat /\ assets[d][2] <= assets[d][1]
    BY TransferAssumption DEF IsAssets
  <2> QED
    BY <2>1
<1>2. Converted(d, a) = convert_decimals(a, x, y)
  BY DEF Converted
<1>3. UnitIn(assets, d) = IF y < x THEN Ten ^ (x - y) ELSE 1
  BY DEF UnitIn
<1> HIDE DEF x, y
<1>4. CASE y < x
  <2>1. x > y /\ x # y /\ ~(x < y)
    BY <1>1, <1>4
  <2>2. convert_decimals(a, x, y) = a \div Ten ^ (x - y)
    BY <2>1, Zenon DEF convert_decimals
  <2>3. UnitIn(assets, d) = Ten ^ (x - y)
    BY <1>3, <1>4, Zenon
  <2> QED
    BY <1>2, <2>2, <2>3, Zenon
<1>5. CASE ~(y < x)
  <2>1. x = y /\ ~(x > y)
    BY <1>1, <1>5
  <2>2. convert_decimals(a, x, y) = a /\ UnitIn(assets, d) = 1
    BY <1>3, <1>5, <2>1 DEF convert_decimals
  <2>3. a \div 1 = a
    OBVIOUS
  <2> QED
    BY <1>2, <2>2, <2>3
<1> QED
  BY <1>4, <1>5

\* Coins leave the bank's keeping: out of escrow, or newly minted.
Given(b, y, d, a) ==
    /\ y \in Bank /\ y.fees = b.fees
    /\ \A e \in Native : Escrowed(y, e) = Escrowed(b, e) - If(e = d, a)
    /\ \A e \in Foreign : y.purse[e] = b.purse[e] + If(e = d, a \div UnitIn(assets, d))

\* Coins enter it: into escrow, or burnt.
Taken(b, y, d, a) ==
    /\ y \in Bank /\ y.fees = b.fees
    /\ \A e \in Native : Escrowed(y, e) = Escrowed(b, e) + If(e = d, a)
    /\ \A e \in Foreign : y.purse[e] = b.purse[e] - If(e = d, a \div UnitIn(assets, d))

LEMMA EscrowedType ==
  ASSUME NEW b \in Bank, NEW d \in Native
  PROVE  Escrowed(b, d) \in Nat
  BY DEF Bank, Escrowed

LEMMA GiveGives ==
  ASSUME IsAssets(assets), NEW b \in Bank, NEW d \in Denoms, NEW a \in Nat,
         d \in Native => a <= Escrowed(b, d),
         d \in Foreign => d \in DOMAIN assets
  PROVE  Given(b, Give(b, d, a), d, a)
<1> DEFINE y == Give(b, d, a)
<1>1. CASE d \in Foreign
  <2> DEFINE c == a \div UnitIn(assets, d)
             t == [b.purse EXCEPT ![d] = @ + c]
  <2>1. c \in Nat /\ Converted(d, a) = c
    BY <1>1, ConvertedInUnits, UnitType, Remainder
  <2>2. y = [b EXCEPT !.purse = [b.purse EXCEPT ![d] = @ + Converted(d, a)]]
    BY <1>1, Origins DEF Give, mint_coins_execute
  <2> HIDE DEF c, y
  <2>3. y = [purse |-> t, escrow |-> b.escrow, fees |-> b.fees, authority |-> b.authority]
    BY <2>1, <2>2 DEF Bank
  <2>4. /\ t \in [Denoms -> Nat]
        /\ \A e \in Foreign : t[e] = b.purse[e] + If(e = d, c)
    BY <2>1 DEF Bank, If, Denoms
  <2>5. \A e \in Native : Escrowed(y, e) = Escrowed(b, e) - If(e = d, a)
    <3>1. \A e \in Native : Escrowed(y, e) = Escrowed(b, e) /\ If(e = d, a) = 0
      BY <1>1, <2>3, Origins DEF Escrowed, If
    <3> QED
      BY <3>1, EscrowedType
  <2> QED
    BY <2>3, <2>4, <2>5 DEF Given, Bank, c, y
<1>2. CASE d = WSOL
  <2> DEFINE t == [b.purse EXCEPT ![d] = @ + a]
             n == b.authority - a
  <2>1. n \in Nat /\ t \in [Denoms -> Nat]
    BY <1>2, Origins DEF Escrowed, Bank
  <2>2. y = [purse |-> t, escrow |-> b.escrow, fees |-> b.fees, authority |-> n]
    BY <1>2, Origins DEF Give, unescrow_coins_execute, Bank
  <2>3. \A e \in Foreign : e # d /\ t[e] = b.purse[e]
    BY <1>2, Origins DEF Bank
  <2> HIDE DEF y, t
  <2>4. \A e \in Foreign : t[e] = b.purse[e] + If(e = d, a \div UnitIn(assets, d))
    <3>1. \A e \in Foreign : b.purse[e] \in Nat
      BY DEF Bank, Denoms
    <3> QED
      BY <2>3, <3>1 DEF If
  <2>5. ASSUME NEW e \in Native PROVE Escrowed(y, e) = Escrowed(b, e) - If(e = d, a)
    BY <1>2, <2>2, EscrowedType DEF Escrowed, If
  <2> QED
    BY <2>1, <2>2, <2>4, <2>5 DEF Given, Bank, y
<1>3. CASE d \in Native /\ d # WSOL
  <2> DEFINE t == [b.purse EXCEPT ![d] = @ + a]
             k == [b.escrow EXCEPT ![d] = @ - a]
  <2>1. b.escrow[d] - a \in Nat /\ t \in [Denoms -> Nat]
    BY <1>3, Origins DEF Escrowed, Bank
  <2>2. y = [purse |-> t, escrow |-> k, fees |-> b.fees, authority |-> b.authority]
    BY <1>3, Origins DEF Give, unescrow_coins_execute, Bank
  <2>3. \A e \in Foreign : e # d /\ t[e] = b.purse[e]
    BY <1>3, Origins DEF Bank
  <2>4. k \in [Native -> Nat] /\ \A e \in Native : k[e] = b.escrow[e] - If(e = d, a)
    BY <1>3, <2>1 DEF Bank, If
  <2> HIDE DEF y, t, k
  <2>5. \A e \in Foreign : t[e] = b.purse[e] + If(e = d, a \div UnitIn(assets, d))
    <3>1. \A e \in Foreign : b.purse[e] \in Nat
      BY DEF Bank, Denoms
    <3> QED
      BY <2>3, <3>1 DEF If
  <2>6. ASSUME NEW e \in Native PROVE Escrowed(y, e) = Escrowed(b, e) - If(e = d, a)
    BY <1>3, <2>2, <2>4, EscrowedType DEF Escrowed, If
  <2> QED
    BY <2>1, <2>2, <2>4, <2>5, <2>6 DEF Given, Bank, y
<1> QED
  BY <1>1, <1>2, <1>3, Origins

LEMMA TakeTakes ==
  ASSUME IsAssets(assets), NEW b \in Bank, NEW d \in Denoms, NEW a \in Nat, NEW y,
         \/ /\ d \in Native /\ a <= b.purse[d]
            /\ y = escrow_coins_execute(b, d, a)
         \/ /\ d \in Foreign /\ d \in DOMAIN assets /\ Converted(d, a) <= b.purse[d]
            /\ y = burn_coins_execute(b, d, a)
  PROVE  Taken(b, y, d, a)
<1>1. CASE d \in Foreign
  <2> DEFINE c == a \div UnitIn(assets, d)
             t == [b.purse EXCEPT ![d] = @ - c]
  <2>1. c \in Nat /\ Converted(d, a) = c
    BY <1>1, Origins, ConvertedInUnits, UnitType, Remainder
  <2>2. /\ y = [b EXCEPT !.purse = [b.purse EXCEPT ![d] = @ - Converted(d, a)]]
        /\ c <= b.purse[d]
    BY <1>1, <2>1, Origins DEF burn_coins_execute
  <2> HIDE DEF c
  <2>3. y = [purse |-> t, escrow |-> b.escrow, fees |-> b.fees, authority |-> b.authority]
    BY <2>1, <2>2 DEF Bank
  <2>4. /\ t \in [Denoms -> Nat]
        /\ \A e \in Foreign : t[e] = b.purse[e] - If(e = d, c)
    BY <2>1, <2>2 DEF Bank, If, Denoms
  <2>5. \A e \in Native : Escrowed(y, e) = Escrowed(b, e) + If(e = d, a)
    <3>1. \A e \in Native : Escrowed(y, e) = Escrowed(b, e) /\ If(e = d, a) = 0
      BY <1>1, <2>3, Origins DEF Escrowed, If
    <3> QED
      BY <3>1, EscrowedType
  <2> QED
    BY <2>3, <2>4, <2>5 DEF Taken, Bank, c
<1>2. CASE d = WSOL
  <2> DEFINE t == [b.purse EXCEPT ![d] = @ - a]
             n == b.authority + a
  <2>1. n \in Nat /\ t \in [Denoms -> Nat]
    BY <1>2, Origins DEF Bank
  <2>2. y = [purse |-> t, escrow |-> b.escrow, fees |-> b.fees, authority |-> n]
    BY <1>2, Origins DEF escrow_coins_execute, Bank
  <2>3. \A e \in Foreign : e # d /\ t[e] = b.purse[e]
    BY <1>2, Origins DEF Bank
  <2> HIDE DEF t
  <2>4. \A e \in Foreign : t[e] = b.purse[e] - If(e = d, a \div UnitIn(assets, d))
    <3>1. \A e \in Foreign : b.purse[e] \in Nat
      BY DEF Bank, Denoms
    <3> QED
      BY <2>3, <3>1 DEF If
  <2>5. ASSUME NEW e \in Native PROVE Escrowed(y, e) = Escrowed(b, e) + If(e = d, a)
    BY <1>2, <2>2, EscrowedType DEF Escrowed, If
  <2> QED
    BY <2>1, <2>2, <2>4, <2>5 DEF Taken, Bank
<1>3. CASE d \in Native /\ d # WSOL
  <2> DEFINE t == [b.purse EXCEPT ![d] = @ - a]
             k == [b.escrow EXCEPT ![d] = @ + a]
  <2>1. b.escrow[d] + a \in Nat /\ t \in [Denoms -> Nat]
    BY <1>3, Origins DEF Bank
  <2>2. y = [purse |-> t, escrow |-> k, fees |-> b.fees, authority |-> b.authority]
    BY <1>3, Origins DEF escrow_coins_execute, Bank
  <2>3. \A e \in Foreign : e # d /\ t[e] = b.purse[e]
    BY <1>3, Origins DEF Bank
  <2>4. k \in [Native -> Nat] /\ \A e \in Native : k[e] = b.escrow[e] + If(e = d, a)
    BY <1>3, <2>1 DEF Bank, If
  <2> HIDE DEF t, k
  <2>5. \A e \in Foreign : t[e] = b.purse[e] - If(e = d, a \div UnitIn(assets, d))
    <3>1. \A e \in Foreign : b.purse[e] \in Nat
      BY DEF Bank, Denoms
    <3> QED
      BY <2>3, <3>1 DEF If
  <2>6. ASSUME NEW e \in Native PROVE Escrowed(y, e) = Escrowed(b, e) + If(e = d, a)
    BY <1>3, <2>2, <2>4, EscrowedType DEF Escrowed, If
  <2> QED
    BY <2>1, <2>2, <2>4, <2>5, <2>6 DEF Taken, Bank
<1> QED
  BY <1>1, <1>2, <1>3, Origins

-----------------------------------------------------------------------------
(* The equation of one denomination e after each kind of step.  The flows  *)
(* are f before the step and g after it.                                   *)

LEMMA Distribute ==
  ASSUME NEW a \in Int, NEW b \in Int, NEW u \in Int
  PROVE  (a + b) * u = a * u + b * u /\ (a - b) * u = a * u - b * u /\ a * u \in Int
  OBVIOUS

LEMMA BalanceGiven ==
  ASSUME IsAssets(assets), NEW b \in Bank, NEW ab \in [Denoms -> Nat],
         NEW l \in [Foreign -> Nat], NEW y, NEW d \in Denoms, NEW a \in Nat,
         Given(b, y, d, a), NEW e \in Denoms, NEW f \in Int, NEW g \in Int,
         g = f - If(e = d, a - (a % UnitIn(assets, e))),
         BalancedBy(b, ab, l, e, UnitIn(assets, e), f)
  PROVE  BalancedBy(y, ab, l, e, UnitIn(assets, e), g)
<1>1. PICK u \in Nat \ {0} : u = UnitIn(assets, e)
  BY UnitType
<1>2. CASE e # d
  <2>1. g = f
    BY <1>2 DEF If
  <2>2. Held(y, l, e) = Held(b, l, e)
    <3>1. CASE e \in Foreign
      BY <3>1 DEF Held
    <3>2. CASE e \in Native
      BY <1>2, <3>2, Origins, EscrowedType DEF Held, Given, If
    <3> QED
      BY <3>1, <3>2, Origins
  <2>3. Circulating(y, ab, e) = Circulating(b, ab, e)
    <3>1. e \in Foreign => b.purse[e] \in Nat
      BY DEF Bank
    <3> QED
      BY <1>2, <3>1 DEF Circulating, Given, If
  <2> QED
    BY <2>1, <2>2, <2>3 DEF BalancedBy
<1>3. CASE e = d /\ e \in Foreign
  <2> DEFINE c == b.purse[e]
             q == a \div u
  <2>1. Held(y, l, e) = Held(b, l, e)
    BY <1>3 DEF Held
  <2>2. c \in Nat /\ q \in Nat /\ q * u = a - (a % u) /\ a - (a % u) \in Nat
    BY Remainder DEF Bank
  <2>3. Circulating(y, ab, e) = c + q /\ Circulating(b, ab, e) = c
    BY <1>1, <1>3 DEF Circulating, Given, If
  <2>4. g = f - (a - (a % u))
    BY <1>1, <1>3 DEF If
  <2> DEFINE x == a - (a % u)
  <2> HIDE DEF c, q, x
  <2>5. (c + q) * u = c * u + x /\ c * u \in Int /\ x \in Int
    BY <2>2, Distribute DEF x
  <2>6. c * u + f = (c + q) * u + g
    BY <2>4, <2>5 DEF x
  <2> QED
    BY <1>1, <2>1, <2>3, <2>6 DEF BalancedBy
<1>4. CASE e = d /\ e \in Native
  <2>1. u = 1
    BY <1>1, <1>4, Origins, UnitType
  <2>2. Held(b, l, e) \in Nat /\ Held(y, l, e) = Held(b, l, e) - a
    BY <1>4, Origins, EscrowedType DEF Held, Given, If
  <2>3. /\ Circulating(y, ab, e) = Circulating(b, ab, e)
        /\ Circulating(b, ab, e) \in Nat
    BY <1>4, Origins DEF Circulating
  <2>4. a % 1 = 0
    OBVIOUS
  <2>5. g = f - a
    BY <1>1, <1>4, <2>1, <2>4 DEF If
  <2>6. UnitIn(assets, e) = 1
    BY <1>1, <2>1
  <2>7. PICK c \in Nat : c = Circulating(b, ab, e) /\ c = Circulating(y, ab, e)
    BY <2>3
  <2>8. Held(b, l, e) = c * 1 + f
    BY <2>6, <2>7, Zenon DEF BalancedBy
  <2>9. Held(y, l, e) = c * 1 + g
    BY <2>2, <2>5, <2>8
  <2> QED
    BY <2>6, <2>7, <2>9, Zenon DEF BalancedBy
<1> QED
  BY <1>2, <1>3, <1>4, Origins

LEMMA BalanceTaken ==
  ASSUME IsAssets(assets), NEW b \in Bank, NEW ab \in [Denoms -> Nat],
         NEW l \in [Foreign -> Nat], NEW y, NEW d \in Denoms, NEW a \in Nat,
         Taken(b, y, d, a), NEW e \in Denoms, NEW f \in Int, NEW g \in Int,
         g = f + If(e = d, a - (a % UnitIn(assets, e))),
         BalancedBy(b, ab, l, e, UnitIn(assets, e), f)
  PROVE  BalancedBy(y, ab, l, e, UnitIn(assets, e), g)
<1>1. PICK u \in Nat \ {0} : u = UnitIn(assets, e)
  BY UnitType
<1>2. CASE e # d
  <2>1. g = f
    BY <1>2 DEF If
  <2>2. Held(y, l, e) = Held(b, l, e)
    <3>1. CASE e \in Foreign
      BY <3>1 DEF Held
    <3>2. CASE e \in Native
      BY <1>2, <3>2, Origins, EscrowedType DEF Held, Taken, If
    <3> QED
      BY <3>1, <3>2, Origins
  <2>3. Circulating(y, ab, e) = Circulating(b, ab, e)
    <3>1. e \in Foreign => b.purse[e] \in Nat
      BY DEF Bank
    <3> QED
      BY <1>2, <3>1 DEF Circulating, Taken, If
  <2> QED
    BY <2>1, <2>2, <2>3 DEF BalancedBy
<1>3. CASE e = d /\ e \in Foreign
  <2> DEFINE c == b.purse[e]
             q == a \div u
  <2>1. Held(y, l, e) = Held(b, l, e)
    BY <1>3 DEF Held
  <2>2. c \in Nat /\ q \in Nat /\ q * u = a - (a % u) /\ a - (a % u) \in Nat
    BY Remainder DEF Bank
  <2>3. Circulating(y, ab, e) = c - q /\ Circulating(b, ab, e) = c
    BY <1>1, <1>3 DEF Circulating, Taken, If
  <2>4. g = f + (a - (a % u))
    BY <1>1, <1>3 DEF If
  <2> DEFINE x == a - (a % u)
  <2> HIDE DEF c, q, x
  <2>5. (c - q) * u = c * u - x /\ c * u \in Int /\ x \in Int
    BY <2>2, Distribute DEF x
  <2>6. c * u + f = (c - q) * u + g
    BY <2>4, <2>5 DEF x
  <2> QED
    BY <1>1, <2>1, <2>3, <2>6 DEF BalancedBy
<1>4. CASE e = d /\ e \in Native
  <2>1. u = 1
    BY <1>1, <1>4, Origins, UnitType
  <2>2. Held(b, l, e) \in Nat /\ Held(y, l, e) = Held(b, l, e) + a
    BY <1>4, Origins, EscrowedType DEF Held, Taken, If
  <2>3. /\ Circulating(y, ab, e) = Circulating(b, ab, e)
        /\ Circulating(b, ab, e) \in Nat
    BY <1>4, Origins DEF Circulating
  <2>4. a % 1 = 0
    OBVIOUS
  <2>5. g = f + a
    BY <1>1, <1>4, <2>1, <2>4 DEF If
  <2>6. UnitIn(assets, e) = 1
    BY <1>1, <2>1
  <2>7. PICK c \in Nat : c = Circulating(b, ab, e) /\ c = Circulating(y, ab, e)
    BY <2>3
  <2>8. Held(b, l, e) = c * 1 + f
    BY <2>6, <2>7, Zenon DEF BalancedBy
  <2>9. Held(y, l, e) = c * 1 + g
    BY <2>2, <2>5, <2>8
  <2> QED
    BY <2>6, <2>7, <2>9, Zenon DEF BalancedBy
<1> QED
  BY <1>2, <1>3, <1>4, Origins

\* The other chain gives coins to a user: it unlocks or mints them.
RemoteGiven(ab, l, ab2, l2, d, a) ==
    /\ ab2 \in [Denoms -> Nat] /\ l2 \in [Foreign -> Nat]
    /\ \A e \in Denoms : ab2[e] = ab[e] + If(e = d, a)
    /\ \A e \in Foreign : l2[e] = l[e] - If(e = d, a)

\* It takes them from a user: it locks or burns them.
RemoteTaken(ab, l, ab2, l2, d, a) ==
    /\ ab2 \in [Denoms -> Nat] /\ l2 \in [Foreign -> Nat]
    /\ \A e \in Denoms : ab2[e] = ab[e] - If(e = d, a)
    /\ \A e \in Foreign : l2[e] = l[e] + If(e = d, a)

LEMMA RemoteGives ==
  ASSUME NEW ab \in [Denoms -> Nat], NEW l \in [Foreign -> Nat],
         NEW d \in Denoms, NEW a \in Nat, d \in Foreign => a <= l[d]
  PROVE  RemoteGiven(ab, l, [ab EXCEPT ![d] = @ + a],
                     IF d \in Foreign THEN [l EXCEPT ![d] = @ - a] ELSE l, d, a)
<1> DEFINE x == [ab EXCEPT ![d] = @ + a]
           y == IF d \in Foreign THEN [l EXCEPT ![d] = @ - a] ELSE l
<1>1. x \in [Denoms -> Nat] /\ \A e \in Denoms : x[e] = ab[e] + If(e = d, a)
  BY DEF If
<1>2. y \in [Foreign -> Nat] /\ \A e \in Foreign : y[e] = l[e] - If(e = d, a)
  <2>1. CASE d \in Foreign
    <3>1. l[d] - a \in Nat
      BY <2>1
    <3> QED
      BY <2>1, <3>1 DEF If
  <2>2. CASE d \notin Foreign
    BY <2>2 DEF If
  <2> QED
    BY <2>1, <2>2
<1> QED
  BY <1>1, <1>2 DEF RemoteGiven

LEMMA RemoteTakes ==
  ASSUME NEW ab \in [Denoms -> Nat], NEW l \in [Foreign -> Nat],
         NEW d \in Denoms, NEW a \in Nat, a <= ab[d]
  PROVE  RemoteTaken(ab, l, [ab EXCEPT ![d] = @ - a],
                     IF d \in Foreign THEN [l EXCEPT ![d] = @ + a] ELSE l, d, a)
<1> DEFINE x == [ab EXCEPT ![d] = @ - a]
           y == IF d \in Foreign THEN [l EXCEPT ![d] = @ + a] ELSE l
<1>1. x \in [Denoms -> Nat] /\ \A e \in Denoms : x[e] = ab[e] - If(e = d, a)
  BY DEF If
<1>2. y \in [Foreign -> Nat] /\ \A e \in Foreign : y[e] = l[e] + If(e = d, a)
  <2>1. CASE d \in Foreign
    BY <2>1 DEF If
  <2>2. CASE d \notin Foreign
    BY <2>2 DEF If
  <2> QED
    BY <2>1, <2>2
<1> QED
  BY <1>1, <1>2 DEF RemoteTaken

LEMMA BalanceRemoteGiven ==
  ASSUME IsAssets(assets), NEW b \in Bank, NEW ab \in [Denoms -> Nat],
         NEW l \in [Foreign -> Nat], NEW ab2, NEW l2, NEW d \in Denoms, NEW a \in Nat,
         RemoteGiven(ab, l, ab2, l2, d, a),
         NEW e \in Denoms, NEW f \in Int, NEW g \in Int, g = f - If(e = d, a),
         BalancedBy(b, ab, l, e, UnitIn(assets, e), f)
  PROVE  BalancedBy(b, ab2, l2, e, UnitIn(assets, e), g)
<1>1. CASE e \in Foreign
  <2>1. PICK k \in Int : k = Circulating(b, ab, e) * UnitIn(assets, e)
    <3>1. Circulating(b, ab, e) \in Nat
      BY <1>1 DEF Circulating, Bank
    <3> QED
      BY <3>1, UnitType
  <2>2. Circulating(b, ab2, e) = Circulating(b, ab, e)
    BY <1>1 DEF Circulating
  <2>3. Held(b, l2, e) = Held(b, l, e) - If(e = d, a) /\ Held(b, l, e) \in Nat
    BY <1>1 DEF Held, RemoteGiven
  <2>4. Held(b, l, e) = k + f
    BY <2>1 DEF BalancedBy
  <2>5. If(e = d, a) \in Nat
    BY DEF If
  <2>6. Held(b, l2, e) = k + g
    BY <2>3, <2>4, <2>5
  <2> QED
    BY <2>1, <2>2, <2>6 DEF BalancedBy
<1>2. CASE e \in Native
  <2>1. UnitIn(assets, e) = 1
    BY <1>2, Origins, UnitType
  <2>2. Held(b, l2, e) = Held(b, l, e)
    BY <1>2, Origins DEF Held
  <2>3. PICK c \in Nat : c = Circulating(b, ab, e)
    BY <1>2, Origins DEF Circulating
  <2>4. If(e = d, a) \in Nat
    BY DEF If
  <2>5. PICK c2 \in Nat : c2 = Circulating(b, ab2, e) /\ c2 = c + If(e = d, a)
    BY <1>2, <2>3, <2>4, Origins DEF Circulating, RemoteGiven
  <2>6. Held(b, l, e) = c * 1 + f
    BY <2>1, <2>3, Zenon DEF BalancedBy
  <2>7. Held(b, l2, e) = c2 * 1 + g
    BY <2>2, <2>4, <2>5, <2>6
  <2> QED
    BY <2>1, <2>5, <2>7, Zenon DEF BalancedBy
<1> QED
  BY <1>1, <1>2, Origins

LEMMA BalanceRemoteTaken ==
  ASSUME IsAssets(assets), NEW b \in Bank, NEW ab \in [Denoms -> Nat],
         NEW l \in [Foreign -> Nat], NEW ab2, NEW l2, NEW d \in Denoms, NEW a \in Nat,
         RemoteTaken(ab, l, ab2, l2, d, a),
         NEW e \in Denoms, NEW f \in Int, NEW g \in Int, g = f + If(e = d, a),
         BalancedBy(b, ab, l, e, UnitIn(assets, e), f)
  PROVE  BalancedBy(b, ab2, l2, e, UnitIn(assets, e), g)
<1>1. CASE e \in Foreign
  <2>1. PICK k \in Int : k = Circulating(b, ab, e) * UnitIn(assets, e)
    <3>1. Circulating(b, ab, e) \in Nat
      BY <1>1 DEF Circulating, Bank
    <3> QED
      BY <3>1, UnitType
  <2>2. Circulating(b, ab2, e) = Circulating(b, ab, e)
    BY <1>1 DEF Circulating
  <2>3. Held(b, l2, e) = Held(b, l, e) + If(e = d, a) /\ Held(b, l, e) \in Nat
    BY <1>1 DEF Held, RemoteTaken
  <2>4. Held(b, l, e) = k + f
    BY <2>1 DEF BalancedBy
  <2>5. If(e = d, a) \in Nat
    BY DEF If
  <2>6. Held(b, l2, e) = k + g
    BY <2>3, <2>4, <2>5
  <2> QED
    BY <2>1, <2>2, <2>6 DEF BalancedBy
<1>2. CASE e \in Native
  <2>1. UnitIn(assets, e) = 1
    BY <1>2, Origins, UnitType
  <2>2. Held(b, l2, e) = Held(b, l, e)
    BY <1>2, Origins DEF Held
  <2>3. PICK c \in Nat : c = Circulating(b, ab, e)
    BY <1>2, Origins DEF Circulating
  <2>4. If(e = d, a) \in Nat
    BY DEF If
  <2>5. PICK c2 \in Nat : c2 = Circulating(b, ab2, e) /\ c2 = c - If(e = d, a)
    BY <1>2, <2>3, <2>4, Origins DEF Circulating, RemoteTaken
  <2>6. Held(b, l, e) = c * 1 + f
    BY <2>1, <2>3, Zenon DEF BalancedBy
  <2>7. Held(b, l2, e) = c2 * 1 + g
    BY <2>2, <2>4, <2>5, <2>6
  <2> QED
    BY <2>1, <2>5, <2>7, Zenon DEF BalancedBy
<1> QED
  BY <1>1, <1>2, Origins

-----------------------------------------------------------------------------
(* Packets that change.                                                    *)

LEMMA FlowOutValues ==
  ASSUME NEW p \in SentPacket, NEW d, NEW u \in Nat \ {0}
  PROVE  /\ p.commitment /\ p.there # "ok" =>
              FlowOut(p, d, u) = If(d = p.denom, p.amount - (p.amount % u))
         /\ p.there = "ok" => FlowOut(p, d, u) = 0 - If(d = p.denom, p.amount % u)
         /\ ~p.commitment /\ p.there # "ok" => FlowOut(p, d, u) = 0
<1>1. PICK a \in Nat : a = p.amount
  BY DEF SentPacket
<1>2. PICK m \in Nat : m = a % u
  BY Remainder
<1>3. CASE p.denom # d
  BY <1>3 DEF FlowOut, SentInFlight, SentDust, If
<1>4. CASE p.denom = d
  BY <1>1, <1>2, <1>4 DEF FlowOut, SentInFlight, SentDust, If
<1> QED
  BY <1>3, <1>4

LEMMA FlowInValues ==
  ASSUME NEW p \in ReceivedPacket, NEW d, NEW u \in Nat \ {0}
  PROVE  /\ ~p.settled /\ p.here \notin {"ok", "kept"} =>
              FlowIn(p, d, u) = If(d = p.denom, p.amount)
         /\ p.here = "ok" \/ (p.here = "kept" /\ ~p.settled) =>
              FlowIn(p, d, u) = If(d = p.denom, p.amount % u)
         /\ p.here = "kept" /\ p.settled =>
              FlowIn(p, d, u) = 0 - If(d = p.denom, p.amount - (p.amount % u))
         /\ p.settled /\ p.here \notin {"ok", "kept"} => FlowIn(p, d, u) = 0
<1>1. PICK a \in Nat : a = p.amount
  BY DEF ReceivedPacket
<1>2. PICK m \in Nat : m = a % u
  BY Remainder
<1>3. CASE p.denom # d
  BY <1>3 DEF FlowIn, ReceivedInFlight, ReceivedDust, DoubledBy, If
<1>4. CASE p.denom = d
  BY <1>1, <1>2, <1>4 DEF FlowIn, ReceivedInFlight, ReceivedDust, DoubledBy, If
<1> QED
  BY <1>3, <1>4

LEMMA FlowType ==
  ASSUME NEW as, IsAssets(as), NEW s, NEW r, PacketsOK(as, s, r), NEW e
  PROVE  /\ Flow(as, s, r, e) \in Int
         /\ SentFlow(s, e, UnitIn(as, e)) \in Int
         /\ ReceivedFlow(r, e, UnitIn(as, e)) \in Int
<1>1. UnitIn(as, e) \in Nat \ {0}
  BY UnitType
<1>2. SentFlow(s, e, UnitIn(as, e)) \in Int /\ ReceivedFlow(r, e, UnitIn(as, e)) \in Int
  BY <1>1, SentFlowType, ReceivedFlowType DEF PacketsOK
<1>3. PICK a \in Int, b \in Int :
        a = SentFlow(s, e, UnitIn(as, e)) /\ b = ReceivedFlow(r, e, UnitIn(as, e))
  BY <1>2
<1>4. Flow(as, s, r, e) = a + b
  BY <1>3, Zenon DEF Flow
<1>5. a + b \in Int
  OBVIOUS
<1> QED
  BY <1>2, <1>4, <1>5

LEMMA SentStep ==
  ASSUME NEW as, IsAssets(as), NEW s, NEW r, PacketsOK(as, s, r),
         NEW n \in DOMAIN s, NEW q \in SentPacket, SentOK(as, q),
         NEW t \in Seq(SentPacket), ReplacedAt(s, t, n, q)
  PROVE  /\ PacketsOK(as, t, r)
         /\ s[n] \in SentPacket /\ SentOK(as, s[n])
         /\ \A e : Flow(as, t, r, e)
                     = Flow(as, s, r, e) - FlowOut(s[n], e, UnitIn(as, e))
                         + FlowOut(q, e, UnitIn(as, e))
<1>2. s \in Seq(SentPacket) /\ r \in Seq(ReceivedPacket)
  BY DEF PacketsOK
<1>4. \A i \in DOMAIN t : SentOK(as, t[i])
  BY DEF PacketsOK, ReplacedAt
<1>5. PacketsOK(as, t, r)
  BY <1>4 DEF PacketsOK
<1>6. s[n] \in SentPacket /\ SentOK(as, s[n])
  BY <1>2, IndicesFinite DEF PacketsOK
<1>7. ASSUME NEW e
      PROVE  Flow(as, t, r, e) = Flow(as, s, r, e) - FlowOut(s[n], e, UnitIn(as, e))
                                   + FlowOut(q, e, UnitIn(as, e))
  <2>1. PICK u \in Nat \ {0} : u = UnitIn(as, e)
    BY UnitType
  <2>2. SentFlow(t, e, u) = SentFlow(s, e, u) - FlowOut(s[n], e, u) + FlowOut(q, e, u)
    BY <1>2, SentFlowReplace
  <2>3. PICK a \in Int, b \in Int : a = SentFlow(s, e, u) /\ b = ReceivedFlow(r, e, u)
    BY <1>2, SentFlowType, ReceivedFlowType
  <2>4. PICK x \in Int, y \in Int : x = FlowOut(s[n], e, u) /\ y = FlowOut(q, e, u)
    BY <1>6, SentParts DEF FlowOut
  <2>5. Flow(as, t, r, e) = (a - x + y) + b /\ Flow(as, s, r, e) = a + b
    BY <2>1, <2>2, <2>3, <2>4 DEF Flow
  <2>6. (a - x + y) + b = a + b - x + y
    OBVIOUS
  <2>7. Flow(as, t, r, e) = Flow(as, s, r, e) - x + y
    BY <2>5, <2>6
  <2> QED
    BY <2>1, <2>4, <2>7, Zenon
<1> QED
  BY <1>5, <1>6, <1>7

LEMMA SentMore ==
  ASSUME NEW as, IsAssets(as), NEW s, NEW r, PacketsOK(as, s, r),
         NEW q \in SentPacket, SentOK(as, q)
  PROVE  /\ PacketsOK(as, Append(s, q), r)
         /\ AppendedTo(s, Append(s, q), q)
         /\ \A e : Flow(as, Append(s, q), r, e)
                     = Flow(as, s, r, e) + FlowOut(q, e, UnitIn(as, e))
<1>1. PICK t : t = Append(s, q)
  OBVIOUS
<1>2. s \in Seq(SentPacket) /\ r \in Seq(ReceivedPacket)
  BY DEF PacketsOK
<1>3. t \in Seq(SentPacket) /\ AppendedTo(s, t, q)
  BY <1>1, <1>2, AppendInSeq
<1>4. \A i \in DOMAIN t : SentOK(as, t[i])
  <2>1. PICK n : /\ n \notin DOMAIN s /\ DOMAIN t = DOMAIN s \cup {n}
                 /\ t[n] = q /\ \A i \in DOMAIN s : t[i] = s[i]
    BY <1>3 DEF AppendedTo
  <2> QED
    BY <2>1 DEF PacketsOK
<1>5. PacketsOK(as, t, r)
  BY <1>3, <1>4 DEF PacketsOK
<1>6. ASSUME NEW e
      PROVE  Flow(as, t, r, e) = Flow(as, s, r, e) + FlowOut(q, e, UnitIn(as, e))
  <2>1. PICK u \in Nat \ {0} : u = UnitIn(as, e)
    BY UnitType
  <2>2. SentFlow(t, e, u) = SentFlow(s, e, u) + FlowOut(q, e, u)
    BY <1>2, <1>3, SentFlowAppend
  <2>3. PICK a \in Int, b \in Int : a = SentFlow(s, e, u) /\ b = ReceivedFlow(r, e, u)
    BY <1>2, SentFlowType, ReceivedFlowType
  <2>4. PICK y \in Int : y = FlowOut(q, e, u)
    BY SentParts DEF FlowOut
  <2>5. Flow(as, t, r, e) = (a + y) + b /\ Flow(as, s, r, e) = a + b
    BY <2>1, <2>2, <2>3, <2>4 DEF Flow
  <2>6. (a + y) + b = a + b + y
    OBVIOUS
  <2> QED
    BY <2>1, <2>4, <2>5, <2>6
<1> QED
  BY <1>1, <1>3, <1>5, <1>6

LEMMA ReceivedStep ==
  ASSUME NEW as, IsAssets(as), NEW s, NEW r, PacketsOK(as, s, r),
         NEW n \in DOMAIN r, NEW q \in ReceivedPacket, ReceivedOK(as, q),
         NEW t \in Seq(ReceivedPacket), ReplacedAt(r, t, n, q)
  PROVE  /\ PacketsOK(as, s, t)
         /\ r[n] \in ReceivedPacket /\ ReceivedOK(as, r[n])
         /\ \A e : Flow(as, s, t, e)
                     = Flow(as, s, r, e) - FlowIn(r[n], e, UnitIn(as, e))
                         + FlowIn(q, e, UnitIn(as, e))
<1>2. s \in Seq(SentPacket) /\ r \in Seq(ReceivedPacket)
  BY DEF PacketsOK
<1>4. \A i \in DOMAIN t : ReceivedOK(as, t[i])
  BY DEF PacketsOK, ReplacedAt
<1>5. PacketsOK(as, s, t)
  BY <1>4 DEF PacketsOK
<1>6. r[n] \in ReceivedPacket /\ ReceivedOK(as, r[n])
  BY <1>2, IndicesFinite DEF PacketsOK
<1>7. ASSUME NEW e
      PROVE  Flow(as, s, t, e) = Flow(as, s, r, e) - FlowIn(r[n], e, UnitIn(as, e))
                                   + FlowIn(q, e, UnitIn(as, e))
  <2>1. PICK u \in Nat \ {0} : u = UnitIn(as, e)
    BY UnitType
  <2>2. ReceivedFlow(t, e, u) = ReceivedFlow(r, e, u) - FlowIn(r[n], e, u) + FlowIn(q, e, u)
    BY <1>2, ReceivedFlowReplace
  <2>3. PICK a \in Int, b \in Int : a = SentFlow(s, e, u) /\ b = ReceivedFlow(r, e, u)
    BY <1>2, SentFlowType, ReceivedFlowType
  <2>4. PICK x \in Int, y \in Int : x = FlowIn(r[n], e, u) /\ y = FlowIn(q, e, u)
    BY <1>6, ReceivedParts DEF FlowIn
  <2>5. Flow(as, s, t, e) = a + (b - x + y) /\ Flow(as, s, r, e) = a + b
    BY <2>1, <2>2, <2>3, <2>4 DEF Flow
  <2>6. a + (b - x + y) = a + b - x + y
    OBVIOUS
  <2>7. Flow(as, s, t, e) = Flow(as, s, r, e) - x + y
    BY <2>5, <2>6
  <2> QED
    BY <2>1, <2>4, <2>7, Zenon
<1> QED
  BY <1>5, <1>6, <1>7

LEMMA ReceivedMore ==
  ASSUME NEW as, IsAssets(as), NEW s, NEW r, PacketsOK(as, s, r),
         NEW q \in ReceivedPacket, ReceivedOK(as, q)
  PROVE  /\ PacketsOK(as, s, Append(r, q))
         /\ \A e : Flow(as, s, Append(r, q), e)
                     = Flow(as, s, r, e) + FlowIn(q, e, UnitIn(as, e))
<1>1. PICK t : t = Append(r, q)
  OBVIOUS
<1>2. s \in Seq(SentPacket) /\ r \in Seq(ReceivedPacket)
  BY DEF PacketsOK
<1>3. t \in Seq(ReceivedPacket) /\ AppendedTo(r, t, q)
  BY <1>1, <1>2, AppendInSeq
<1>4. \A i \in DOMAIN t : ReceivedOK(as, t[i])
  <2>1. PICK n : /\ n \notin DOMAIN r /\ DOMAIN t = DOMAIN r \cup {n}
                 /\ t[n] = q /\ \A i \in DOMAIN r : t[i] = r[i]
    BY <1>3 DEF AppendedTo
  <2> QED
    BY <2>1 DEF PacketsOK
<1>5. PacketsOK(as, s, t)
  BY <1>3, <1>4 DEF PacketsOK
<1>6. ASSUME NEW e
      PROVE  Flow(as, s, t, e) = Flow(as, s, r, e) + FlowIn(q, e, UnitIn(as, e))
  <2>1. PICK u \in Nat \ {0} : u = UnitIn(as, e)
    BY UnitType
  <2>2. ReceivedFlow(t, e, u) = ReceivedFlow(r, e, u) + FlowIn(q, e, u)
    BY <1>2, <1>3, ReceivedFlowAppend
  <2>3. PICK a \in Int, b \in Int : a = SentFlow(s, e, u) /\ b = ReceivedFlow(r, e, u)
    BY <1>2, SentFlowType, ReceivedFlowType
  <2>4. PICK y \in Int : y = FlowIn(q, e, u)
    BY ReceivedParts DEF FlowIn
  <2>5. Flow(as, s, t, e) = a + (b + y) /\ Flow(as, s, r, e) = a + b
    BY <2>1, <2>2, <2>3, <2>4 DEF Flow
  <2>6. a + (b + y) = a + b + y
    OBVIOUS
  <2> QED
    BY <2>1, <2>4, <2>5, <2>6
<1> QED
  BY <1>1, <1>3, <1>5, <1>6

-----------------------------------------------------------------------------
(* The equations of all denominations.                                     *)

LEMMA GivenBalanced ==
  ASSUME IsAssets(assets), NEW b \in Bank, NEW ab \in [Denoms -> Nat],
         NEW l \in [Foreign -> Nat], NEW y, NEW d \in Denoms, NEW a \in Nat,
         Given(b, y, d, a),
         NEW s, NEW r, PacketsOK(assets, s, r), NEW s2, NEW r2, PacketsOK(assets, s2, r2),
         \A e : Flow(assets, s2, r2, e)
                  = Flow(assets, s, r, e) - If(e = d, a - (a % UnitIn(assets, e))),
         Balanced(assets, b, s, r, ab, l)
  PROVE  Balanced(assets, y, s2, r2, ab, l)
<1>1. SUFFICES ASSUME NEW e \in Denoms
               PROVE  BalancedBy(y, ab, l, e, UnitIn(assets, e), Flow(assets, s2, r2, e))
  BY DEF Balanced
<1>2. Flow(assets, s, r, e) \in Int /\ Flow(assets, s2, r2, e) \in Int
  BY FlowType
<1>3. BalancedBy(b, ab, l, e, UnitIn(assets, e), Flow(assets, s, r, e))
  BY DEF Balanced
<1> QED
  BY <1>2, <1>3, BalanceGiven

LEMMA TakenBalanced ==
  ASSUME IsAssets(assets), NEW b \in Bank, NEW ab \in [Denoms -> Nat],
         NEW l \in [Foreign -> Nat], NEW y, NEW d \in Denoms, NEW a \in Nat,
         Taken(b, y, d, a),
         NEW s, NEW r, PacketsOK(assets, s, r), NEW s2, NEW r2, PacketsOK(assets, s2, r2),
         \A e : Flow(assets, s2, r2, e)
                  = Flow(assets, s, r, e) + If(e = d, a - (a % UnitIn(assets, e))),
         Balanced(assets, b, s, r, ab, l)
  PROVE  Balanced(assets, y, s2, r2, ab, l)
<1>1. SUFFICES ASSUME NEW e \in Denoms
               PROVE  BalancedBy(y, ab, l, e, UnitIn(assets, e), Flow(assets, s2, r2, e))
  BY DEF Balanced
<1>2. Flow(assets, s, r, e) \in Int /\ Flow(assets, s2, r2, e) \in Int
  BY FlowType
<1>3. BalancedBy(b, ab, l, e, UnitIn(assets, e), Flow(assets, s, r, e))
  BY DEF Balanced
<1> QED
  BY <1>2, <1>3, BalanceTaken

LEMMA RemoteGivenBalanced ==
  ASSUME IsAssets(assets), NEW b \in Bank, NEW ab \in [Denoms -> Nat],
         NEW l \in [Foreign -> Nat], NEW ab2, NEW l2, NEW d \in Denoms, NEW a \in Nat,
         RemoteGiven(ab, l, ab2, l2, d, a),
         NEW s, NEW r, PacketsOK(assets, s, r), NEW s2, NEW r2, PacketsOK(assets, s2, r2),
         \A e : Flow(assets, s2, r2, e) = Flow(assets, s, r, e) - If(e = d, a),
         Balanced(assets, b, s, r, ab, l)
  PROVE  Balanced(assets, b, s2, r2, ab2, l2)
<1>1. SUFFICES ASSUME NEW e \in Denoms
               PROVE  BalancedBy(b, ab2, l2, e, UnitIn(assets, e), Flow(assets, s2, r2, e))
  BY DEF Balanced
<1>2. Flow(assets, s, r, e) \in Int /\ Flow(assets, s2, r2, e) \in Int
  BY FlowType
<1>3. BalancedBy(b, ab, l, e, UnitIn(assets, e), Flow(assets, s, r, e))
  BY DEF Balanced
<1> QED
  BY <1>2, <1>3, BalanceRemoteGiven

LEMMA RemoteTakenBalanced ==
  ASSUME IsAssets(assets), NEW b \in Bank, NEW ab \in [Denoms -> Nat],
         NEW l \in [Foreign -> Nat], NEW ab2, NEW l2, NEW d \in Denoms, NEW a \in Nat,
         RemoteTaken(ab, l, ab2, l2, d, a),
         NEW s, NEW r, PacketsOK(assets, s, r), NEW s2, NEW r2, PacketsOK(assets, s2, r2),
         \A e : Flow(assets, s2, r2, e) = Flow(assets, s, r, e) + If(e = d, a),
         Balanced(assets, b, s, r, ab, l)
  PROVE  Balanced(assets, b, s2, r2, ab2, l2)
<1>1. SUFFICES ASSUME NEW e \in Denoms
               PROVE  BalancedBy(b, ab2, l2, e, UnitIn(assets, e), Flow(assets, s2, r2, e))
  BY DEF Balanced
<1>2. Flow(assets, s, r, e) \in Int /\ Flow(assets, s2, r2, e) \in Int
  BY FlowType
<1>3. BalancedBy(b, ab, l, e, UnitIn(assets, e), Flow(assets, s, r, e))
  BY DEF Balanced
<1> QED
  BY <1>2, <1>3, BalanceRemoteTaken

LEMMA SameBalanced ==
  ASSUME NEW as, NEW b, NEW ab, NEW l, NEW s, NEW r, NEW y, NEW s2, NEW r2,
         y.purse = b.purse, y.escrow = b.escrow, y.authority = b.authority,
         \A e : Flow(as, s2, r2, e) = Flow(as, s, r, e),
         Balanced(as, b, s, r, ab, l)
  PROVE  Balanced(as, y, s2, r2, ab, l)
<1>1. SUFFICES ASSUME NEW e \in Denoms
               PROVE  BalancedBy(y, ab, l, e, UnitIn(as, e), Flow(as, s2, r2, e))
  BY DEF Balanced
<1>2. BalancedBy(b, ab, l, e, UnitIn(as, e), Flow(as, s, r, e))
  BY DEF Balanced
<1>3. Held(y, l, e) = Held(b, l, e) /\ Circulating(y, ab, e) = Circulating(b, ab, e)
  BY DEF Held, Escrowed, Circulating
<1> QED
  BY <1>2, <1>3, Zenon DEF BalancedBy

\* The bank with other fees.
LEMMA WithFees ==
  ASSUME NEW b \in Bank, NEW n \in Nat
  PROVE  /\ [b EXCEPT !.fees = n] \in Bank
         /\ [b EXCEPT !.fees = n].fees = n
         /\ [b EXCEPT !.fees = n].purse = b.purse
         /\ [b EXCEPT !.fees = n].escrow = b.escrow
         /\ [b EXCEPT !.fees = n].authority = b.authority
  BY DEF Bank

LEMMA GivenUnminted ==
  ASSUME NEW b \in Bank, NEW y, NEW d, NEW a, Given(b, y, d, a),
         d \in Foreign => d \in DOMAIN assets, NothingUnminted(assets, b)
  PROVE  NothingUnminted(assets, y)
  BY DEF NothingUnminted, Given, If

LEMMA TakenBounds ==
  ASSUME IsAssets(assets), NEW b \in Bank, FitsSupply(b), NEW y, NEW d, NEW a \in Nat,
         Taken(b, y, d, a),
         d \in Foreign => d \in DOMAIN assets, NothingUnminted(assets, b)
  PROVE  NothingUnminted(assets, y) /\ FitsSupply(y)
<1>1. NothingUnminted(assets, y)
  BY DEF NothingUnminted, Taken, If
<1>2. ASSUME NEW e \in Foreign PROVE y.purse[e] <= U64Max
  <2>1. b.purse[e] \in Nat /\ b.purse[e] <= U64Max /\ U64Max \in Nat
    BY TransferAssumption DEF Bank, FitsSupply, Denoms
  <2>2. If(e = d, a \div UnitIn(assets, d)) \in Nat
    BY UnitType, Remainder DEF If
  <2>3. y.purse[e] = b.purse[e] - If(e = d, a \div UnitIn(assets, d))
    BY DEF Taken
  <2> QED
    BY <2>1, <2>2, <2>3
<1> QED
  BY <1>1, <1>2 DEF FitsSupply

-----------------------------------------------------------------------------
(* Fees.                                                                   *)

LEMMA FeesSummable ==
  ASSUME NEW s \in Seq(SentPacket)
  PROVE  Summable(FeesOf(s)) /\ Total(FeesOf(s)) \in Nat
<1>1. ASSUME NEW i \in DOMAIN s PROVE s[i].fee \in Nat
  <2>1. s[i] \in SentPacket
    BY IndicesFinite
  <2> QED
    BY <2>1 DEF SentPacket
<1>2. Summable(FeesOf(s))
  BY <1>1, IndicesFinite DEF Summable, FeesOf
<1> QED
  BY <1>2, TotalType

LEMMA FeesMore ==
  ASSUME NEW s \in Seq(SentPacket), NEW t \in Seq(SentPacket), NEW q, AppendedTo(s, t, q)
  PROVE  Total(FeesOf(t)) = Total(FeesOf(s)) + q.fee
<1>1. PICK n : /\ n \notin DOMAIN s /\ DOMAIN t = DOMAIN s \cup {n}
               /\ t[n] = q /\ \A i \in DOMAIN s : t[i] = s[i]
  BY DEF AppendedTo
<1>2. /\ n \notin DOMAIN FeesOf(s) /\ DOMAIN FeesOf(t) = DOMAIN FeesOf(s) \cup {n}
      /\ FeesOf(t)[n] = q.fee /\ \A i \in DOMAIN FeesOf(s) : FeesOf(t)[i] = FeesOf(s)[i]
  BY <1>1 DEF FeesOf
<1> QED
  BY <1>2, FeesSummable, TotalMore

LEMMA FeesChange ==
  ASSUME NEW s \in Seq(SentPacket), NEW t \in Seq(SentPacket), NEW n, NEW q,
         ReplacedAt(s, t, n, q)
  PROVE  /\ Total(FeesOf(t)) = Total(FeesOf(s)) - s[n].fee + q.fee
         /\ s[n].fee \in Nat /\ s[n].fee <= Total(FeesOf(s))
<1>1. /\ n \in DOMAIN FeesOf(s) /\ DOMAIN FeesOf(s) = DOMAIN FeesOf(t)
      /\ FeesOf(s)[n] = s[n].fee /\ FeesOf(t)[n] = q.fee
      /\ \A i \in DOMAIN FeesOf(s) \ {n} : FeesOf(t)[i] = FeesOf(s)[i]
  BY DEF ReplacedAt, FeesOf
<1>2. s[n].fee \in Nat
  BY <1>1, FeesSummable DEF Summable
<1> QED
  BY <1>1, <1>2, FeesSummable, TotalChange, TotalAtLeast

LEMMA FeesSame ==
  ASSUME NEW s, NEW t, NEW n, NEW q, ReplacedAt(s, t, n, q), s[n].fee = q.fee
  PROVE  Total(FeesOf(t)) = Total(FeesOf(s))
<1>1. /\ DOMAIN FeesOf(s) = DOMAIN FeesOf(t)
      /\ \A i \in DOMAIN FeesOf(s) : FeesOf(t)[i] = FeesOf(s)[i]
  BY DEF ReplacedAt, FeesOf
<1> QED
  BY <1>1, TotalSame

-----------------------------------------------------------------------------
(* The instructions of the fee collector.                                  *)

LEMMA InitMintFlow ==
  ASSUME NEW as, IsAssets(as), NEW s, NEW r, PacketsOK(as, s, r),
         NEW d \in Foreign, d \notin DOMAIN as, NEW u, NEW w
  PROVE  SentFlow(s, d, u) = SentFlow(s, d, w) /\ ReceivedFlow(r, d, u) = ReceivedFlow(r, d, w)
<1>1. ASSUME NEW i \in DOMAIN s PROVE SentDust(s[i], d, u) = SentDust(s[i], d, w)
  <2>1. s[i].denom # d
    BY DEF PacketsOK, SentOK
  <2> QED
    BY <2>1 DEF SentDust, If
<1>2. OutDusts(s, d, u) = OutDusts(s, d, w)
  BY <1>1 DEF OutDusts
<1>3. ASSUME NEW i \in DOMAIN r
      PROVE  /\ ReceivedDust(r[i], d, u) = ReceivedDust(r[i], d, w)
             /\ DoubledBy(r[i], d, u) = DoubledBy(r[i], d, w)
  <2>1. r[i].denom # d \/ r[i].here \notin {"ok", "kept"}
    BY DEF PacketsOK, ReceivedOK
  <2> QED
    BY <2>1 DEF ReceivedDust, DoubledBy, If
<1>4. InDusts(r, d, u) = InDusts(r, d, w) /\ Doubles(r, d, u) = Doubles(r, d, w)
  BY <1>3 DEF InDusts, Doubles
<1>5. SentFlow(s, d, u) = SentFlow(s, d, w)
  BY <1>2, Zenon DEF SentFlow, OutDusts
<1>6. ReceivedFlow(r, d, u) = ReceivedFlow(r, d, w)
  BY <1>4, Zenon DEF ReceivedFlow, InDusts, Doubles
<1> QED
  BY <1>5, <1>6

LEMMA InitMintTInv ==
  ASSUME TInv, NEW d \in Foreign, NEW pair \in Decimals, init_mint(d, pair[1], pair[2])
  PROVE  TInv'
<1>1. /\ d \notin DOMAIN assets /\ pair[2] <= pair[1]
      /\ assets' = [e \in DOMAIN assets \cup {d} |->
                      IF e = d THEN <<pair[1], pair[2]>> ELSE assets[e]]
      /\ UNCHANGED <<bank, admin, sent, received, abroad, locked, history>>
  BY DEF init_mint
<1>2. /\ IsAssets(assets) /\ bank \in Bank /\ PacketsOK(assets, sent, received)
      /\ Balanced(assets, bank, sent, received, abroad, locked)
      /\ NothingUnminted(assets, bank)
  BY DEF TInv
<1>3. pair = <<pair[1], pair[2]>>
  BY TransferAssumption
<1>4. /\ DOMAIN assets' = DOMAIN assets \cup {d} /\ assets'[d] = pair
      /\ \A e \in DOMAIN assets : assets'[e] = assets[e]
  BY <1>1, <1>3
<1>5. IsAssets(assets')
  BY <1>1, <1>2, <1>4 DEF IsAssets
<1>6. \A e : e # d => UnitIn(assets', e) = UnitIn(assets, e)
  <2>1. SUFFICES ASSUME NEW e, e # d PROVE UnitIn(assets', e) = UnitIn(assets, e)
    OBVIOUS
  <2>2. CASE e \in DOMAIN assets
    <3>1. e \in DOMAIN assets' /\ assets'[e] = assets[e]
      BY <1>4, <2>2
    <3> QED
      BY <2>2, <3>1, Zenon DEF UnitIn
  <2>3. CASE e \notin DOMAIN assets
    <3>1. e \notin DOMAIN assets'
      BY <1>4, <2>1, <2>3
    <3> QED
      BY <2>3, <3>1, Zenon DEF UnitIn
  <2> QED
    BY <2>2, <2>3
<1>7. PacketsOK(assets', sent, received)
  <2>1. ASSUME NEW i \in DOMAIN sent PROVE SentOK(assets', sent[i])
    <3>1. SentOK(assets, sent[i])
      BY <1>2 DEF PacketsOK
    <3>2. CASE sent[i].denom \in Foreign
      <4>1. sent[i].denom # d /\ sent[i].denom \in DOMAIN assets'
        BY <1>1, <1>4, <3>1, <3>2 DEF SentOK
      <4>2. UnitIn(assets', sent[i].denom) = UnitIn(assets, sent[i].denom)
        BY <1>6, <4>1
      <4> QED
        BY <3>1, <4>1, <4>2, Zenon DEF SentOK
    <3>3. CASE sent[i].denom \notin Foreign
      BY <3>1, <3>3 DEF SentOK
    <3> QED
      BY <3>2, <3>3
  <2>2. ASSUME NEW i \in DOMAIN received PROVE ReceivedOK(assets', received[i])
    BY <1>2, <1>4 DEF PacketsOK, ReceivedOK
  <2> QED
    BY <1>2, <2>1, <2>2 DEF PacketsOK
<1>8. Balanced(assets', bank, sent, received, abroad, locked)
  <2>1. SUFFICES ASSUME NEW e \in Denoms
                 PROVE  BalancedBy(bank, abroad, locked, e, UnitIn(assets', e),
                                   Flow(assets', sent, received, e))
    BY DEF Balanced
  <2>2. BalancedBy(bank, abroad, locked, e, UnitIn(assets, e),
                   Flow(assets, sent, received, e))
    BY <1>2 DEF Balanced
  <2>3. CASE e # d
    <3>1. UnitIn(assets', e) = UnitIn(assets, e)
      BY <1>6, <2>3
    <3>2. Flow(assets', sent, received, e) = Flow(assets, sent, received, e)
      BY <3>1, Zenon DEF Flow
    <3> QED
      BY <2>2, <3>1, <3>2, Zenon
  <2>4. CASE e = d
    <3>1. Flow(assets', sent, received, e) = Flow(assets, sent, received, e)
      <4>1. /\ SentFlow(sent, e, UnitIn(assets', e)) = SentFlow(sent, e, UnitIn(assets, e))
            /\ ReceivedFlow(received, e, UnitIn(assets', e))
                 = ReceivedFlow(received, e, UnitIn(assets, e))
        BY <1>1, <1>2, <2>4, InitMintFlow
      <4> QED
        BY <4>1, Zenon DEF Flow
    <3>2. Circulating(bank, abroad, e) = 0
      BY <1>1, <1>2, <2>4 DEF Circulating, NothingUnminted
    <3>3. PICK u \in Nat, w \in Nat : u = UnitIn(assets, e) /\ w = UnitIn(assets', e)
      BY <1>2, <1>5, UnitType
    <3>4. 0 * u = 0 * w
      OBVIOUS
    <3> QED
      BY <2>2, <3>1, <3>2, <3>3, <3>4, Zenon DEF BalancedBy
  <2> QED
    BY <2>3, <2>4
<1>9. NothingUnminted(assets', bank)
  BY <1>2, <1>4 DEF NothingUnminted
<1> QED
  BY <1>1, <1>5, <1>7, <1>8, <1>9 DEF TInv

LEMMA AdminTInv ==
  ASSUME TInv, AdminOK(admin', history'), history'.drained = history.drained,
         UNCHANGED <<assets, bank, sent, received, abroad, locked>>
  PROVE  TInv'
<1>1. Funded(bank, sent, history')
  BY Zenon DEF TInv, Funded
<1> QED
  BY <1>1 DEF TInv

LEMMA SetFeeTInv ==
  ASSUME TInv, NEW amount \in Fees, set_fee_amount(amount)
  PROVE  TInv'
<1>1. /\ admin' = [admin EXCEPT !.fee = amount]
      /\ UNCHANGED <<assets, bank, sent, received, abroad, locked, history>>
  BY DEF set_fee_amount
<1>2. AdminOK(admin, history) /\ amount \in Nat
  BY TransferAssumption DEF TInv
<1>3. AdminOK(admin', history')
  BY <1>1, <1>2 DEF AdminOK
<1> QED
  BY <1>1, <1>3, AdminTInv

LEMMA CollectorTInv ==
  ASSUME TInv, NEW signer \in Admins,
         \/ \E new \in Admins : setup_fee_collector(signer, new)
         \/ accept_fee_collector_change(signer)
  PROVE  TInv'
<1>1. AdminOK(admin, history) /\ signer # NoKey /\ signer \in Keys
  BY TransferAssumption DEF TInv, Keys
<1>2. UNCHANGED <<assets, bank, sent, received, abroad, locked>>
  BY DEF setup_fee_collector, accept_fee_collector_change
<1>3. AdminOK(admin', history') /\ history'.drained = history.drained
  <2>1. CASE accept_fee_collector_change(signer)
    <3>1. /\ admin' = [admin EXCEPT !.fee_collector = signer, !.proposal = NoKey]
          /\ history' = history
      BY <2>1 DEF accept_fee_collector_change
    <3>2. NoKey \in Keys
      BY DEF Keys
    <3> QED
      BY <1>1, <3>1, <3>2 DEF AdminOK
  <2>2. ASSUME NEW new \in Admins, setup_fee_collector(signer, new)
        PROVE  AdminOK(admin', history') /\ history'.drained = history.drained
    <3>1. new \in Keys /\ new # NoKey
      BY TransferAssumption DEF Keys
    <3>2. CASE admin.fee_collector = NoKey /\ admin' = [admin EXCEPT !.fee_collector = new]
               /\ history' = history
      BY <1>1, <3>1, <3>2 DEF AdminOK
    <3>3. CASE signer = admin.fee_collector /\ admin' = [admin EXCEPT !.proposal = new]
               /\ history' = [history EXCEPT !.consent = <<signer, new>>]
      BY <1>1, <3>1, <3>3 DEF AdminOK
    <3> QED
      BY <2>2, <3>2, <3>3 DEF setup_fee_collector
  <2> QED
    BY <2>1, <2>2
<1> QED
  BY <1>2, <1>3, AdminTInv

\* Whether refunds may fail for want of fees is the only thing that changes.
LEMMA DrainedOK ==
  ASSUME AdminOK(admin, history), NEW b \in BOOLEAN,
         history' = [history EXCEPT !.drained = b]
  PROVE  AdminOK(admin, history') /\ history'.drained = b
<1>1. history' = [consent |-> history.consent, drained |-> b]
  BY DEF AdminOK
<1> QED
  BY <1>1 DEF AdminOK

LEMMA CollectFeesTInv ==
  ASSUME TInv, collect_fees
  PROVE  TInv'
<1> DEFINE MIN == MINIMUM_FEE_ACCOUNT_BALANCE
<1>1. /\ bank' = [bank EXCEPT !.fees = MIN]
      /\ history' = [history EXCEPT !.drained = @ \/ PendingFees > MIN]
      /\ UNCHANGED <<assets, admin, sent, received, abroad, locked>>
  BY DEF collect_fees
<1>2. /\ IsAssets(assets) /\ bank \in Bank /\ FitsSupply(bank) /\ AdminOK(admin, history)
      /\ PacketsOK(assets, sent, received)
      /\ Balanced(assets, bank, sent, received, abroad, locked)
      /\ NothingUnminted(assets, bank)
  BY DEF TInv
<1>3. MIN \in Nat
  BY TransferAssumption
<1>4. /\ bank' \in Bank /\ bank'.fees = MIN
      /\ bank'.purse = bank.purse /\ bank'.escrow = bank.escrow
      /\ bank'.authority = bank.authority
  BY <1>1, <1>2, <1>3, WithFees
<1>5. Balanced(assets, bank', sent, received, abroad, locked)
  BY <1>2, <1>4, SameBalanced
<1>6. PendingFees = Total(FeesOf(sent)) /\ PendingFees \in Nat
  BY <1>2, FeesSummable DEF PendingFees, FeesOf, PacketsOK
<1>7. PICK b \in BOOLEAN : b = (history.drained \/ PendingFees > MIN)
  OBVIOUS
<1>8. AdminOK(admin, history') /\ history'.drained = b
  <2>1. history' = [history EXCEPT !.drained = b]
    BY <1>1, <1>7, Zenon
  <2> QED
    BY <1>2, <2>1, DrainedOK
<1>9. Funded(bank', sent, history')
  <2>1. CASE b
    BY <1>8, <2>1 DEF Funded
  <2>2. CASE ~b
    <3>1. ~(PendingFees > MIN)
      BY <1>7, <2>2, Zenon
    <3>2. PendingFees <= MIN
      BY <1>3, <1>6, <3>1
    <3> QED
      BY <1>4, <1>6, <3>2, Zenon DEF Funded
  <2> QED
    BY <2>1, <2>2
<1>10. FitsSupply(bank') /\ NothingUnminted(assets, bank')
  BY <1>2, <1>4 DEF FitsSupply, NothingUnminted
<1> QED
  BY <1>1, <1>2, <1>4, <1>5, <1>8, <1>9, <1>10 DEF TInv

-----------------------------------------------------------------------------
(* Packets from here.                                                      *)

LEMMA SendTransferTInv ==
  ASSUME TInv, NEW d \in Denoms, NEW a \in Amounts, send_transfer(d, a)
  PROVE  TInv'
<1> DEFINE q == [denom |-> d, amount |-> a, fee |-> admin.fee, commitment |-> TRUE,
                there |-> "sent"]
<1>1. PICK b : b = [bank EXCEPT !.fees = @ + admin.fee]
  OBVIOUS
<1>2. /\ \/ d \in Native /\ MayEscrow(d, a) /\ bank' = escrow_coins_execute(b, d, a)
         \/ d \in Foreign /\ MayBurn(d, a) /\ bank' = burn_coins_execute(b, d, a)
      /\ sent' = Append(sent, q)
      /\ UNCHANGED <<assets, admin, received, abroad, locked, history>>
  BY <1>1 DEF send_transfer
<1>3. /\ IsAssets(assets) /\ bank \in Bank /\ FitsSupply(bank) /\ AdminOK(admin, history)
      /\ PacketsOK(assets, sent, received)
      /\ abroad \in [Denoms -> Nat] /\ locked \in [Foreign -> Nat]
      /\ Balanced(assets, bank, sent, received, abroad, locked)
      /\ NothingUnminted(assets, bank) /\ Funded(bank, sent, history)
  BY DEF TInv
<1>4. a \in Nat
  BY TransferAssumption
<1>5. PICK fee \in Nat, fees \in Nat : fee = admin.fee /\ fees = bank.fees
  BY <1>3 DEF AdminOK, Bank
<1>6. /\ b \in Bank /\ b.fees = fees + fee
      /\ b.purse = bank.purse /\ b.escrow = bank.escrow /\ b.authority = bank.authority
  <2>1. fees + fee \in Nat /\ b = [bank EXCEPT !.fees = fees + fee]
    BY <1>1, <1>5
  <2> QED
    BY <1>3, <2>1, WithFees
<1>7. Taken(b, bank', d, a)
  <2>1. bank.purse[d] \in Nat
    BY <1>3 DEF Bank
  <2>2. \/ d \in Native /\ a <= b.purse[d] /\ bank' = escrow_coins_execute(b, d, a)
        \/ /\ d \in Foreign /\ d \in DOMAIN assets /\ Converted(d, a) <= b.purse[d]
           /\ bank' = burn_coins_execute(b, d, a)
    <3>1. CASE d \in Native
      BY <1>2, <1>4, <1>6, <2>1, <3>1, Origins DEF MayEscrow
    <3>2. CASE d \in Foreign
      <4>1. /\ d \in DOMAIN assets /\ bank.purse[d] >= Converted(d, a)
            /\ bank' = burn_coins_execute(b, d, a)
        BY <1>2, <3>2, Origins DEF MayBurn, MayMint
      <4>2. Converted(d, a) \in Nat
        BY <1>3, <1>4, <4>1, ConvertedInUnits, UnitType, Remainder
      <4> QED
        BY <1>6, <2>1, <3>2, <4>1, <4>2
    <3> QED
      BY <3>1, <3>2, Origins
  <2> QED
    BY <1>3, <1>4, <1>6, <2>2, TakeTakes
<1>8. q \in SentPacket /\ SentOK(assets, q)
  <2>1. q \in SentPacket
    BY <1>4, <1>5 DEF SentPacket
  <2>2. d \in Native => a <= U64Max
    BY <1>2, Origins DEF MayEscrow, check_amount_overflow
  <2>3. ASSUME d \in Foreign
        PROVE  d \in DOMAIN assets /\ a \div UnitIn(assets, d) <= U64Max
    <3>1. d \in DOMAIN assets /\ Converted(d, a) <= U64Max
      BY <1>2, <2>3, Origins DEF MayBurn, MayMint, check_amount_overflow
    <3> QED
      BY <1>3, <1>4, <3>1, ConvertedInUnits
  <2>4. q.denom = d /\ q.amount = a /\ q.commitment
    OBVIOUS
  <2> HIDE DEF q
  <2>5. SentOK(assets, q)
    BY <2>2, <2>3, <2>4, Zenon DEF SentOK
  <2> QED
    BY <2>1, <2>5
<1>9. /\ PacketsOK(assets, sent', received) /\ AppendedTo(sent, sent', q)
      /\ \A e : Flow(assets, sent', received, e)
                  = Flow(assets, sent, received, e) + FlowOut(q, e, UnitIn(assets, e))
  <2> HIDE DEF q
  <2> QED
    BY <1>2, <1>3, <1>8, SentMore, SMTT(30)
<1>10. \A e : FlowOut(q, e, UnitIn(assets, e)) = If(e = d, a - (a % UnitIn(assets, e)))
  <2>1. q.commitment /\ q.there # "ok" /\ q.denom = d /\ q.amount = a
    OBVIOUS
  <2>2. \A e : UnitIn(assets, e) \in Nat \ {0}
    BY <1>3, UnitType
  <2> HIDE DEF q
  <2> QED
    BY <1>8, <2>1, <2>2, FlowOutValues
<1>11. Balanced(assets, b, sent, received, abroad, locked)
  BY <1>3, <1>6, SameBalanced
<1>12. Balanced(assets, bank', sent', received, abroad, locked)
  <2>1. \A e : Flow(assets, sent', received, e)
                 = Flow(assets, sent, received, e) + If(e = d, a - (a % UnitIn(assets, e)))
    BY <1>9, <1>10, ZenonT(40)
  <2> QED
    BY <1>3, <1>4, <1>6, <1>7, <1>9, <1>11, <2>1, TakenBalanced
<1>13. NothingUnminted(assets, bank') /\ FitsSupply(bank')
  <2>1. FitsSupply(b) /\ NothingUnminted(assets, b)
    BY <1>3, <1>6 DEF FitsSupply, NothingUnminted
  <2>2. d \in Foreign => d \in DOMAIN assets
    BY <1>2, Origins DEF MayBurn, MayMint
  <2> QED
    BY <1>3, <1>4, <1>6, <1>7, <2>1, <2>2, TakenBounds
<1>14. Funded(bank', sent', history)
  <2>1. CASE history.drained
    BY <2>1 DEF Funded
  <2>2. CASE ~history.drained
    <3>1. PICK n \in Nat : n = Total(FeesOf(sent))
      BY <1>3, FeesSummable DEF PacketsOK
    <3>2. n <= fees
      BY <1>3, <1>5, <2>2, <3>1 DEF Funded
    <3>3. Total(FeesOf(sent')) = n + fee
      <4>1. q.fee = fee
        BY <1>5
      <4> HIDE DEF q
      <4> QED
        BY <1>3, <1>9, <3>1, <4>1, FeesMore DEF PacketsOK
    <3>4. n + fee <= fees + fee
      BY <3>2
    <3>5. bank'.fees = fees + fee
      BY <1>6, <1>7 DEF Taken
    <3> QED
      BY <3>3, <3>4, <3>5, Zenon DEF Funded
  <2> QED
    BY <2>1, <2>2
<1>15. bank' \in Bank
  BY <1>7 DEF Taken
<1> QED
  BY <1>2, <1>3, <1>9, <1>12, <1>13, <1>14, <1>15 DEF TInv

\* A packet whose commitment is deleted.
Settled(p) ==
    [denom |-> p.denom, amount |-> p.amount, fee |-> 0, commitment |-> FALSE, there |-> p.there]

LEMMA SettledPacket ==
  ASSUME NEW p \in SentPacket
  PROVE  /\ [p EXCEPT !.commitment = FALSE, !.fee = 0] = Settled(p)
         /\ Settled(p) \in SentPacket
<1>1. PICK z : z = [p EXCEPT !.commitment = FALSE, !.fee = 0]
  OBVIOUS
<1>2. /\ z.denom = p.denom /\ z.amount = p.amount /\ z.fee = 0
      /\ z.commitment = FALSE /\ z.there = p.there
      /\ z \in SentPacket
  BY <1>1 DEF SentPacket
<1>3. z = Settled(p)
  BY <1>2 DEF SentPacket, Settled
<1> QED
  BY <1>1, <1>2, <1>3

LEMMA SettleStep ==
  ASSUME TInv, NEW i \in DOMAIN sent, sent[i].commitment, sent[i].there # "sent",
         Settle(i)
  PROVE  /\ sent[i] \in SentPacket /\ SentOK(assets, sent[i])
         /\ Settled(sent[i]) \in SentPacket
         /\ PacketsOK(assets, sent', received)
         /\ \A e : Flow(assets, sent', received, e)
                     = Flow(assets, sent, received, e) - FlowOut(sent[i], e, UnitIn(assets, e))
                         + FlowOut(Settled(sent[i]), e, UnitIn(assets, e))
         /\ Total(FeesOf(sent')) = Total(FeesOf(sent)) - sent[i].fee
         /\ Total(FeesOf(sent)) \in Nat /\ Total(FeesOf(sent')) \in Nat
<1> DEFINE p == sent[i]
           q == Settled(p)
<1>1. IsAssets(assets) /\ PacketsOK(assets, sent, received) /\ sent \in Seq(SentPacket)
  BY DEF TInv, PacketsOK
<1>2. p \in SentPacket /\ SentOK(assets, p)
  BY <1>1, IndicesFinite DEF PacketsOK
<1>3. q \in SentPacket
  BY <1>2, SettledPacket
<1>4. SentOK(assets, q)
  BY <1>2 DEF SentOK, Settled
<1>5. sent' = [sent EXCEPT ![i] = [p EXCEPT !.commitment = FALSE, !.fee = 0]]
  <2>1. sent \in [DOMAIN sent -> SentPacket]
    BY <1>1, LenProperties, ElementOfSeq
  <2> QED
    BY <2>1 DEF Settle
<1>6. [p EXCEPT !.commitment = FALSE, !.fee = 0] = q
  BY <1>2, SettledPacket
<1>7. sent' = [sent EXCEPT ![i] = q]
  BY <1>5, <1>6
<1>8. q.fee = 0 /\ p.fee \in Nat
  BY <1>2 DEF SentPacket, Settled
<1> HIDE DEF p, q
<1>9. /\ PacketsOK(assets, sent', received) /\ ReplacedAt(sent, sent', i, q)
      /\ \A e : Flow(assets, sent', received, e)
                  = Flow(assets, sent, received, e) - FlowOut(sent[i], e, UnitIn(assets, e))
                      + FlowOut(q, e, UnitIn(assets, e))
  <2>1. sent' \in Seq(SentPacket) /\ ReplacedAt(sent, sent', i, q)
    BY <1>1, <1>3, <1>7, ReplaceInSeq
  <2> QED
    BY <1>1, <1>3, <1>4, <2>1, SentStep
<1>10. /\ Total(FeesOf(sent')) = Total(FeesOf(sent)) - p.fee + q.fee
       /\ p.fee <= Total(FeesOf(sent))
  BY <1>1, <1>9, FeesChange DEF p, PacketsOK
<1>11. Total(FeesOf(sent)) \in Nat
  BY <1>1, FeesSummable
<1>12. /\ Total(FeesOf(sent')) = Total(FeesOf(sent)) - p.fee
       /\ Total(FeesOf(sent')) \in Nat
  BY <1>8, <1>10, <1>11
<1> QED
  BY <1>2, <1>3, <1>9, <1>11, <1>12 DEF p, q

LEMMA AcknowledgedTInv ==
  ASSUME TInv, NEW i \in DOMAIN sent, sent[i].commitment, sent[i].there = "ok",
         Settle(i), UNCHANGED <<assets, bank, admin, received, abroad, locked, history>>
  PROVE  TInv'
<1> DEFINE p == sent[i]
           q == Settled(p)
<1>1. /\ p \in SentPacket /\ q \in SentPacket
      /\ PacketsOK(assets, sent', received)
      /\ \A e : Flow(assets, sent', received, e)
                  = Flow(assets, sent, received, e) - FlowOut(p, e, UnitIn(assets, e))
                      + FlowOut(q, e, UnitIn(assets, e))
      /\ Total(FeesOf(sent')) = Total(FeesOf(sent)) - p.fee
      /\ Total(FeesOf(sent)) \in Nat /\ Total(FeesOf(sent')) \in Nat
  BY SettleStep
<1>2. /\ IsAssets(assets) /\ bank \in Bank /\ AdminOK(admin, history)
      /\ PacketsOK(assets, sent, received)
      /\ Balanced(assets, bank, sent, received, abroad, locked)
      /\ Funded(bank, sent, history)
  BY DEF TInv
<1>3. p.there = "ok" /\ q.there = "ok" /\ q.denom = p.denom /\ q.amount = p.amount
  BY DEF Settled
<1> HIDE DEF p, q
<1>4. ASSUME NEW e PROVE Flow(assets, sent', received, e) = Flow(assets, sent, received, e)
  <2>1. UnitIn(assets, e) \in Nat \ {0}
    BY <1>2, UnitType
  <2>2. FlowOut(p, e, UnitIn(assets, e)) = FlowOut(q, e, UnitIn(assets, e))
    BY <1>1, <1>3, <2>1, FlowOutValues
  <2>3. PICK x \in Int : x = FlowOut(p, e, UnitIn(assets, e))
    BY <1>1, <2>1, SentParts DEF FlowOut
  <2>4. PICK f \in Int : f = Flow(assets, sent, received, e)
    BY <1>2, FlowType
  <2>5. Flow(assets, sent', received, e) = f - x + x
    BY <1>1, <2>2, <2>3, <2>4, Zenon
  <2> QED
    BY <2>4, <2>5
<1>5. Balanced(assets, bank, sent', received, abroad, locked)
  BY <1>2, <1>4, SameBalanced
<1>6. Funded(bank, sent', history)
  <2>1. CASE history.drained
    BY <2>1 DEF Funded
  <2>2. CASE ~history.drained
    <3>1. PICK n \in Nat, f \in Nat, k \in Nat :
            n = Total(FeesOf(sent)) /\ f = p.fee /\ k = bank.fees
      BY <1>1, <1>2 DEF SentPacket, Bank
    <3>2. n <= k
      BY <1>2, <2>2, <3>1 DEF Funded
    <3>3. Total(FeesOf(sent')) = n - f
      BY <1>1, <3>1, Zenon
    <3>4. n - f <= k
      BY <3>2
    <3> QED
      BY <3>1, <3>3, <3>4, Zenon DEF Funded
  <2> QED
    BY <2>1, <2>2
<1> QED
  BY <1>1, <1>5, <1>6 DEF TInv

\* Coins that leave an escrow were in it.
LEMMA EscrowHeld ==
  ASSUME NEW b \in Bank, NEW d \in Native, NEW a \in Nat, NotOverdrawn(Give(b, d, a))
  PROVE  a <= Escrowed(b, d)
<1>1. CASE d = WSOL
  <2>1. Give(b, d, a).authority = b.authority - a /\ b.authority \in Nat
    BY <1>1 DEF Give, unescrow_coins_execute, Bank
  <2> QED
    BY <1>1, <2>1 DEF NotOverdrawn, Escrowed
<1>2. CASE d # WSOL
  <2>1. Give(b, d, a).escrow[d] = b.escrow[d] - a /\ b.escrow[d] \in Nat
    BY <1>2 DEF Give, unescrow_coins_execute, Bank
  <2> QED
    BY <1>2, <2>1 DEF NotOverdrawn, Escrowed
<1> QED
  BY <1>1, <1>2

LEMMA RefundTInv ==
  ASSUME TInv, NEW i \in DOMAIN sent, sent[i].commitment, sent[i].there \in {"error", "expired"},
         Refund(sent[i]), Settle(i), UNCHANGED <<assets, admin, received, abroad, locked>>
  PROVE  TInv'
<1> DEFINE p == sent[i]
           q == Settled(p)
           d == p.denom
           a == p.amount
<1>1. /\ p \in SentPacket /\ q \in SentPacket /\ SentOK(assets, p)
      /\ PacketsOK(assets, sent', received)
      /\ \A e : Flow(assets, sent', received, e)
                  = Flow(assets, sent, received, e) - FlowOut(p, e, UnitIn(assets, e))
                      + FlowOut(q, e, UnitIn(assets, e))
      /\ Total(FeesOf(sent')) = Total(FeesOf(sent)) - p.fee
      /\ Total(FeesOf(sent)) \in Nat /\ Total(FeesOf(sent')) \in Nat
  BY SettleStep
<1>2. /\ IsAssets(assets) /\ bank \in Bank /\ AdminOK(admin, history)
      /\ PacketsOK(assets, sent, received)
      /\ abroad \in [Denoms -> Nat] /\ locked \in [Foreign -> Nat]
      /\ Balanced(assets, bank, sent, received, abroad, locked)
      /\ NothingUnminted(assets, bank)
      /\ Funded(bank, sent, history)
  BY DEF TInv
<1>3. d \in Denoms /\ a \in Nat
  BY <1>1 DEF SentPacket
<1>4. PICK fee \in Nat, fees \in Nat : fee = admin.fee /\ fees = bank.fees /\ fees >= fee
  BY <1>2 DEF AdminOK, Bank, Refund, MayRefund
<1>5. PICK b : b = [bank EXCEPT !.fees = @ - admin.fee]
  OBVIOUS
<1>6. /\ b \in Bank /\ b.fees = fees - fee
      /\ b.purse = bank.purse /\ b.escrow = bank.escrow /\ b.authority = bank.authority
  <2>1. fees - fee \in Nat /\ b = [bank EXCEPT !.fees = fees - fee]
    BY <1>4, <1>5
  <2> QED
    BY <1>2, <2>1, WithFees
<1>7. d \in Foreign => d \in DOMAIN assets
  BY <1>1 DEF SentOK
<1>8. bank' = Give(b, d, a) /\ FitsSupply(bank') /\ NotOverdrawn(bank')
  BY <1>5 DEF Refund, Refunded, MayRefund, Allowed
<1>9. Given(b, bank', d, a)
  <2> HIDE DEF p, q, d, a
  <2>1. d \in Native => a <= Escrowed(b, d)
    BY <1>3, <1>6, <1>8, EscrowHeld
  <2> QED
    BY <1>2, <1>3, <1>6, <1>7, <1>8, <2>1, GiveGives
<1>10. Balanced(assets, b, sent, received, abroad, locked)
  BY <1>2, <1>6, SameBalanced
<1>11. /\ p.commitment /\ p.there # "ok"
       /\ ~q.commitment /\ q.there # "ok"
  BY DEF Settled
<1> HIDE DEF p, q
<1>12. ASSUME NEW e
       PROVE  Flow(assets, sent', received, e)
                = Flow(assets, sent, received, e) - If(e = d, a - (a % UnitIn(assets, e)))
  <2>1. UnitIn(assets, e) \in Nat \ {0}
    BY <1>2, UnitType
  <2>2. /\ FlowOut(p, e, UnitIn(assets, e)) = If(e = d, a - (a % UnitIn(assets, e)))
        /\ FlowOut(q, e, UnitIn(assets, e)) = 0
    BY <1>1, <1>11, <2>1, FlowOutValues
  <2> HIDE DEF d, a
  <2>6. a - (a % UnitIn(assets, e)) \in Nat
    BY <1>3, <2>1, Remainder
  <2>3. PICK x \in Int : x = If(e = d, a - (a % UnitIn(assets, e)))
    BY <2>6 DEF If
  <2>4. PICK f \in Int : f = Flow(assets, sent, received, e)
    BY <1>2, FlowType
  <2>5. Flow(assets, sent', received, e) = f - x + 0
    BY <1>1, <2>2, <2>3, <2>4, Zenon
  <2> QED
    BY <2>3, <2>4, <2>5
<1> HIDE DEF d, a
<1>13. Balanced(assets, bank', sent', received, abroad, locked)
  BY <1>1, <1>2, <1>3, <1>6, <1>9, <1>10, <1>12, GivenBalanced
<1>14. NothingUnminted(assets, bank')
  <2>1. NothingUnminted(assets, b)
    BY <1>2, <1>6 DEF NothingUnminted
  <2> QED
    BY <1>6, <1>7, <1>9, <2>1, GivenUnminted
<1>15. PICK paid \in Nat : paid = p.fee
  BY <1>1 DEF SentPacket
<1>16. PICK c \in BOOLEAN : c = (history.drained \/ fee > paid)
  OBVIOUS
<1>17. AdminOK(admin, history') /\ history'.drained = c
  <2>1. history' = [history EXCEPT !.drained = c]
    BY <1>4, <1>15, <1>16, Zenon DEF Refund, p
  <2> QED
    BY <1>2, <2>1, DrainedOK
<1>18. Funded(bank', sent', history')
  <2>1. CASE c
    BY <1>17, <2>1 DEF Funded
  <2>2. CASE ~c
    <3>6. ~history.drained /\ ~(fee > paid)
      BY <1>16, <2>2, Zenon
    <3>1. PICK n \in Nat : n = Total(FeesOf(sent))
      BY <1>1
    <3>2. n <= fees
      BY <1>2, <1>4, <3>1, <3>6 DEF Funded
    <3>3. Total(FeesOf(sent')) = n - paid
      BY <1>1, <1>15, <3>1, Zenon
    <3>4. n - paid <= fees - fee
      BY <3>2, <3>6
    <3>5. bank'.fees = fees - fee
      BY <1>6, <1>9 DEF Given
    <3> QED
      BY <3>3, <3>4, <3>5, Zenon DEF Funded
  <2> QED
    BY <2>1, <2>2
<1>19. bank' \in Bank
  BY <1>9 DEF Given
<1> QED
  BY <1>1, <1>2, <1>8, <1>13, <1>14, <1>17, <1>18, <1>19 DEF TInv

-----------------------------------------------------------------------------
(* What becomes of packets: here, there, and in the knowledge of the other *)
(* chain.                                                                  *)

AsThere(p, v) ==
    [denom |-> p.denom, amount |-> p.amount, fee |-> p.fee, commitment |-> p.commitment,
     there |-> v]
AsHere(p, v) ==
    [denom |-> p.denom, amount |-> p.amount, memo |-> p.memo, here |-> v, settled |-> p.settled]
AsSettled(p) ==
    [denom |-> p.denom, amount |-> p.amount, memo |-> p.memo, here |-> p.here, settled |-> TRUE]

MarkThere(i, v) == sent' = [sent EXCEPT ![i].there = v]
MarkHere(i, v)  == received' = [received EXCEPT ![i].here = v]
MarkSettled(i)  == received' = [received EXCEPT ![i].settled = TRUE]

LEMMA ThereStep ==
  ASSUME TInv, NEW i \in DOMAIN sent, NEW v \in {"ok", "error", "expired"},
         MarkThere(i, v)
  PROVE  /\ sent[i] \in SentPacket /\ SentOK(assets, sent[i])
         /\ AsThere(sent[i], v) \in SentPacket
         /\ PacketsOK(assets, sent', received)
         /\ \A e : Flow(assets, sent', received, e)
                     = Flow(assets, sent, received, e) - FlowOut(sent[i], e, UnitIn(assets, e))
                         + FlowOut(AsThere(sent[i], v), e, UnitIn(assets, e))
         /\ Total(FeesOf(sent')) = Total(FeesOf(sent))
<1>1. IsAssets(assets) /\ PacketsOK(assets, sent, received) /\ sent \in Seq(SentPacket)
  BY DEF TInv, PacketsOK
<1>2. PICK p : p = sent[i]
  OBVIOUS
<1>3. p \in SentPacket /\ SentOK(assets, p)
  BY <1>1, <1>2, IndicesFinite DEF PacketsOK
<1>4. PICK z : z = [p EXCEPT !.there = v]
  OBVIOUS
<1>5. sent' = [sent EXCEPT ![i] = z]
  BY <1>2, <1>4 DEF MarkThere
<1>6. /\ z \in SentPacket /\ z.denom = p.denom /\ z.amount = p.amount /\ z.fee = p.fee
      /\ z.commitment = p.commitment /\ z.there = v
  BY <1>3, <1>4 DEF SentPacket
<1>7. z = AsThere(p, v)
  BY <1>6 DEF SentPacket, AsThere
<1>8. SentOK(assets, z)
  BY <1>3, <1>6 DEF SentOK
<1>9. sent' \in Seq(SentPacket) /\ ReplacedAt(sent, sent', i, z)
  BY <1>1, <1>5, <1>6, ReplaceInSeq
<1>10. /\ PacketsOK(assets, sent', received)
       /\ \A e : Flow(assets, sent', received, e)
                   = Flow(assets, sent, received, e) - FlowOut(sent[i], e, UnitIn(assets, e))
                       + FlowOut(z, e, UnitIn(assets, e))
  BY <1>1, <1>6, <1>8, <1>9, SentStep
<1>11. Total(FeesOf(sent')) = Total(FeesOf(sent))
  BY <1>2, <1>6, <1>9, FeesSame
<1> QED
  BY <1>2, <1>3, <1>6, <1>7, <1>10, <1>11

LEMMA SentType ==
  ASSUME TInv, NEW i \in DOMAIN sent
  PROVE  sent[i] \in SentPacket
<1>1. sent \in Seq(SentPacket)
  BY DEF TInv, PacketsOK
<1> QED
  BY <1>1, IndicesFinite

LEMMA ReceivedType ==
  ASSUME TInv, NEW i \in DOMAIN received
  PROVE  received[i] \in ReceivedPacket /\ ReceivedOK(assets, received[i])
<1>1. PacketsOK(assets, sent, received) /\ received \in Seq(ReceivedPacket)
  BY DEF TInv, PacketsOK
<1> QED
  BY <1>1, IndicesFinite DEF PacketsOK

LEMMA HereStep ==
  ASSUME TInv, NEW i \in DOMAIN received, received[i].here = "sent",
         NEW v \in {"ok", "kept", "error", "expired"},
         v \in {"ok", "kept"} /\ received[i].denom \in Foreign
           => received[i].denom \in DOMAIN assets,
         MarkHere(i, v)
  PROVE  /\ received[i] \in ReceivedPacket /\ ~received[i].settled
         /\ AsHere(received[i], v) \in ReceivedPacket
         /\ PacketsOK(assets, sent, received')
         /\ \A e : Flow(assets, sent, received', e)
                     = Flow(assets, sent, received, e)
                         - FlowIn(received[i], e, UnitIn(assets, e))
                         + FlowIn(AsHere(received[i], v), e, UnitIn(assets, e))
<1>2. PICK p : p = received[i]
  OBVIOUS
<1>3. p \in ReceivedPacket /\ ReceivedOK(assets, p) /\ p.here = "sent"
  BY <1>2, ReceivedType
<1>4. PICK z : z = [p EXCEPT !.here = v]
  OBVIOUS
<1>5. received' = [received EXCEPT ![i] = z]
  BY <1>2, <1>4 DEF MarkHere
<1>6. /\ z \in ReceivedPacket /\ z.denom = p.denom /\ z.amount = p.amount /\ z.memo = p.memo
      /\ z.settled = p.settled /\ z.here = v
  BY <1>3, <1>4 DEF ReceivedPacket
<1>7. z = AsHere(p, v)
  BY <1>6 DEF ReceivedPacket, AsHere
<1>8. ~p.settled
  BY <1>3 DEF ReceivedOK
<1>9. ReceivedOK(assets, z)
  BY <1>2, <1>6, <1>8 DEF ReceivedOK
<1>10. /\ PacketsOK(assets, sent, received')
       /\ \A e : Flow(assets, sent, received', e)
                   = Flow(assets, sent, received, e)
                       - FlowIn(received[i], e, UnitIn(assets, e))
                       + FlowIn(z, e, UnitIn(assets, e))
  <2>1. IsAssets(assets) /\ PacketsOK(assets, sent, received) /\ received \in Seq(ReceivedPacket)
    BY DEF TInv, PacketsOK
  <2>2. received' \in Seq(ReceivedPacket) /\ ReplacedAt(received, received', i, z)
    BY <1>5, <1>6, <2>1, ReplaceInSeq
  <2> QED
    BY <1>6, <1>9, <2>1, <2>2, ReceivedStep
<1> QED
  BY <1>2, <1>3, <1>6, <1>7, <1>8, <1>10

LEMMA SettledStep ==
  ASSUME TInv, NEW i \in DOMAIN received, received[i].here # "sent",
         MarkSettled(i)
  PROVE  /\ received[i] \in ReceivedPacket
         /\ AsSettled(received[i]) \in ReceivedPacket
         /\ PacketsOK(assets, sent, received')
         /\ \A e : Flow(assets, sent, received', e)
                     = Flow(assets, sent, received, e)
                         - FlowIn(received[i], e, UnitIn(assets, e))
                         + FlowIn(AsSettled(received[i]), e, UnitIn(assets, e))
<1>2. PICK p : p = received[i]
  OBVIOUS
<1>3. p \in ReceivedPacket /\ ReceivedOK(assets, p) /\ p.here # "sent"
  BY <1>2, ReceivedType
<1>4. PICK z : z = [p EXCEPT !.settled = TRUE]
  OBVIOUS
<1>5. received' = [received EXCEPT ![i] = z]
  BY <1>2, <1>4 DEF MarkSettled
<1>6. /\ z \in ReceivedPacket /\ z.denom = p.denom /\ z.amount = p.amount /\ z.memo = p.memo
      /\ z.settled = TRUE /\ z.here = p.here
  BY <1>3, <1>4 DEF ReceivedPacket
<1>7. z = AsSettled(p)
  BY <1>6 DEF ReceivedPacket, AsSettled
<1>9. ReceivedOK(assets, z)
  BY <1>3, <1>6 DEF ReceivedOK
<1>10. /\ PacketsOK(assets, sent, received')
       /\ \A e : Flow(assets, sent, received', e)
                   = Flow(assets, sent, received, e)
                       - FlowIn(received[i], e, UnitIn(assets, e))
                       + FlowIn(z, e, UnitIn(assets, e))
  <2>1. IsAssets(assets) /\ PacketsOK(assets, sent, received) /\ received \in Seq(ReceivedPacket)
    BY DEF TInv, PacketsOK
  <2>2. received' \in Seq(ReceivedPacket) /\ ReplacedAt(received, received', i, z)
    BY <1>5, <1>6, <2>1, ReplaceInSeq
  <2> QED
    BY <1>6, <1>9, <2>1, <2>2, ReceivedStep
<1> QED
  BY <1>2, <1>3, <1>6, <1>7, <1>10


\* What the actions of the other chain leave alone.
LEMMA RemoteTInv ==
  ASSUME TInv, UNCHANGED <<assets, bank, admin, history>>,
         abroad' \in [Denoms -> Nat], locked' \in [Foreign -> Nat],
         PacketsOK(assets, sent', received'),
         Balanced(assets, bank, sent', received', abroad', locked'),
         Total(FeesOf(sent')) = Total(FeesOf(sent))
  PROVE  TInv'
<1>1. Funded(bank, sent', history)
  BY DEF TInv, Funded
<1> QED
  BY <1>1 DEF TInv

LEMMA RemoteSendTInv ==
  ASSUME TInv, NEW d \in Denoms, NEW a \in Amounts, NEW memo \in {"good", "bad"},
         RemoteSend(d, a, memo)
  PROVE  TInv'
<1>1. PICK q : q = [denom |-> d, amount |-> a, memo |-> memo, here |-> "sent", settled |-> FALSE]
  OBVIOUS
<1>2. /\ abroad[d] >= a
      /\ abroad' = [abroad EXCEPT ![d] = @ - a]
      /\ locked' = IF d \in Foreign THEN [locked EXCEPT ![d] = @ + a] ELSE locked
      /\ received' = Append(received, q)
      /\ UNCHANGED <<assets, bank, admin, sent, history>>
  BY <1>1 DEF RemoteSend
<1>3. /\ IsAssets(assets) /\ bank \in Bank /\ PacketsOK(assets, sent, received)
      /\ abroad \in [Denoms -> Nat] /\ locked \in [Foreign -> Nat]
      /\ Balanced(assets, bank, sent, received, abroad, locked)
  BY DEF TInv
<1>4. a \in Nat
  BY TransferAssumption
<1>5. RemoteTaken(abroad, locked, abroad', locked', d, a)
  <2>1. a <= abroad[d]
    BY <1>2, <1>3, <1>4
  <2> QED
    BY <1>2, <1>3, <1>4, <2>1, RemoteTakes
<1>6. /\ q \in ReceivedPacket /\ q.denom = d /\ q.amount = a
      /\ q.here = "sent" /\ q.settled = FALSE
  BY <1>1, <1>4 DEF ReceivedPacket
<1>7. ReceivedOK(assets, q)
  BY <1>6 DEF ReceivedOK
<1>8. /\ PacketsOK(assets, sent, received')
      /\ \A e : Flow(assets, sent, received', e)
                  = Flow(assets, sent, received, e) + FlowIn(q, e, UnitIn(assets, e))
  BY <1>2, <1>3, <1>6, <1>7, ReceivedMore
<1>9. \A e : Flow(assets, sent, received', e) = Flow(assets, sent, received, e) + If(e = d, a)
  <2>1. ASSUME NEW e PROVE FlowIn(q, e, UnitIn(assets, e)) = If(e = d, a)
    <3>1. UnitIn(assets, e) \in Nat \ {0}
      BY <1>3, UnitType
    <3> QED
      BY <1>6, <3>1, FlowInValues
  <2> QED
    BY <1>8, <2>1, ZenonT(40)
<1>10. Balanced(assets, bank, sent, received', abroad', locked')
  BY <1>3, <1>4, <1>5, <1>8, <1>9, RemoteTakenBalanced
<1> QED
  BY <1>2, <1>5, <1>8, <1>10, RemoteTInv DEF RemoteTaken

\* The other chain gives the coins of a packet to a user.
RemotePays(d, a) ==
    /\ d \in Foreign => locked[d] >= a
    /\ abroad' = [abroad EXCEPT ![d] = @ + a]
    /\ locked' = IF d \in Foreign THEN [locked EXCEPT ![d] = @ - a] ELSE locked

LEMMA RemotePaysGives ==
  ASSUME TInv, NEW d \in Denoms, NEW a \in Nat, RemotePays(d, a)
  PROVE  RemoteGiven(abroad, locked, abroad', locked', d, a)
<1>1. abroad \in [Denoms -> Nat] /\ locked \in [Foreign -> Nat]
  BY DEF TInv
<1>2. /\ d \in Foreign => a <= locked[d]
      /\ abroad' = [abroad EXCEPT ![d] = @ + a]
      /\ locked' = IF d \in Foreign THEN [locked EXCEPT ![d] = @ - a] ELSE locked
  BY <1>1 DEF RemotePays
<1> QED
  BY <1>1, <1>2, RemoteGives

LEMMA DeliveredTInv ==
  ASSUME TInv, NEW i \in DOMAIN sent, sent[i].there = "sent", MarkThere(i, "ok"),
         RemotePays(sent[i].denom, sent[i].amount),
         UNCHANGED <<assets, bank, admin, received, history>>
  PROVE  TInv'
<1>1. PICK p : p = sent[i]
  OBVIOUS
<1>2. PICK q : q = AsThere(p, "ok")
  OBVIOUS
<1>3. /\ p \in SentPacket /\ SentOK(assets, p) /\ q \in SentPacket
      /\ PacketsOK(assets, sent', received)
      /\ \A e : Flow(assets, sent', received, e)
                  = Flow(assets, sent, received, e) - FlowOut(p, e, UnitIn(assets, e))
                      + FlowOut(q, e, UnitIn(assets, e))
      /\ Total(FeesOf(sent')) = Total(FeesOf(sent))
  BY <1>1, <1>2, ThereStep
<1>4. /\ IsAssets(assets) /\ bank \in Bank /\ PacketsOK(assets, sent, received)
      /\ abroad \in [Denoms -> Nat] /\ locked \in [Foreign -> Nat]
      /\ Balanced(assets, bank, sent, received, abroad, locked)
  BY DEF TInv
<1>5. PICK d \in Denoms, a \in Nat : d = p.denom /\ a = p.amount
  BY <1>3 DEF SentPacket
<1>6. /\ p.there = "sent" /\ p.commitment /\ q.there = "ok"
      /\ q.denom = d /\ q.amount = a
  BY <1>1, <1>2, <1>3, <1>5 DEF SentOK, AsThere
<1>7. RemoteGiven(abroad, locked, abroad', locked', d, a)
  BY <1>1, <1>5, RemotePaysGives
<1>8. ASSUME NEW e
      PROVE  Flow(assets, sent', received, e) = Flow(assets, sent, received, e) - If(e = d, a)
  <2>1. PICK u \in Nat \ {0} : u = UnitIn(assets, e)
    BY <1>4, UnitType
  <2>2. PICK m \in Int : m = a % u
    BY Remainder
  <2>3. PICK f \in Int : f = Flow(assets, sent, received, e)
    BY <1>4, FlowType
  <2>4. FlowOut(p, e, u) = If(e = d, a - m)
    BY <1>3, <1>5, <1>6, <2>2, FlowOutValues
  <2>5. FlowOut(q, e, u) = 0 - If(e = d, m)
    BY <1>3, <1>6, <2>2, FlowOutValues
  <2>6. Flow(assets, sent', received, e) = f - If(e = d, a - m) + (0 - If(e = d, m))
    BY <1>3, <2>1, <2>3, <2>4, <2>5, Zenon
  <2>7. f - If(e = d, a - m) + (0 - If(e = d, m)) = f - If(e = d, a)
    <3>1. CASE e = d
      BY <3>1 DEF If
    <3>2. CASE e # d
      BY <3>2 DEF If
    <3> QED
      BY <3>1, <3>2
  <2> QED
    BY <2>3, <2>6, <2>7, Zenon
<1>9. Balanced(assets, bank, sent', received, abroad', locked')
  BY <1>3, <1>4, <1>7, <1>8, RemoteGivenBalanced
<1> QED
  BY <1>3, <1>7, <1>9, RemoteTInv DEF RemoteGiven


\* A packet that is refused or expires is still on its way back.
LEMMA RefusedTInv ==
  ASSUME TInv, NEW i \in DOMAIN sent, sent[i].there = "sent",
         NEW v \in {"error", "expired"}, MarkThere(i, v),
         UNCHANGED <<assets, bank, admin, received, abroad, locked, history>>
  PROVE  TInv'
<1>1. PICK p : p = sent[i]
  OBVIOUS
<1>2. PICK q : q = AsThere(p, v)
  OBVIOUS
<1>3. /\ p \in SentPacket /\ SentOK(assets, p) /\ q \in SentPacket
      /\ PacketsOK(assets, sent', received)
      /\ \A e : Flow(assets, sent', received, e)
                  = Flow(assets, sent, received, e) - FlowOut(p, e, UnitIn(assets, e))
                      + FlowOut(q, e, UnitIn(assets, e))
      /\ Total(FeesOf(sent')) = Total(FeesOf(sent))
  BY <1>1, <1>2, ThereStep
<1>4. /\ IsAssets(assets) /\ bank \in Bank /\ PacketsOK(assets, sent, received)
      /\ abroad \in [Denoms -> Nat] /\ locked \in [Foreign -> Nat]
      /\ Balanced(assets, bank, sent, received, abroad, locked)
  BY DEF TInv
<1>5. /\ p.there = "sent" /\ p.commitment /\ q.there # "ok" /\ q.commitment
      /\ q.denom = p.denom /\ q.amount = p.amount
  BY <1>1, <1>2, <1>3 DEF SentOK, AsThere
<1>6. ASSUME NEW e PROVE Flow(assets, sent', received, e) = Flow(assets, sent, received, e)
  <2>1. PICK u \in Nat \ {0} : u = UnitIn(assets, e)
    BY <1>4, UnitType
  <2>2. PICK x \in Int : x = FlowOut(p, e, u)
    BY <1>3, SentParts DEF FlowOut
  <2>3. PICK f \in Int : f = Flow(assets, sent, received, e)
    BY <1>4, FlowType
  <2>4. FlowOut(q, e, u) = x
    BY <1>3, <1>5, <2>2, FlowOutValues
  <2>5. Flow(assets, sent', received, e) = f - x + x
    BY <1>3, <2>1, <2>2, <2>3, <2>4, Zenon
  <2> QED
    BY <2>3, <2>5
<1>7. Balanced(assets, bank, sent', received, abroad, locked)
  BY <1>4, <1>6, SameBalanced
<1> QED
  BY <1>3, <1>4, <1>7, RemoteTInv

LEMMA RemoteRecvTInv ==
  ASSUME TInv, NEW i \in DOMAIN sent, RemoteRecv(i)
  PROVE  TInv'
<1>1. /\ sent[i].there = "sent"
      /\ \/ RemotePays(sent[i].denom, sent[i].amount) /\ MarkThere(i, "ok")
         \/ UNCHANGED <<abroad, locked>> /\ MarkThere(i, "error")
      /\ UNCHANGED <<assets, bank, admin, received, history>>
  BY DEF RemoteRecv, RemotePays, MarkThere
<1>2. CASE RemotePays(sent[i].denom, sent[i].amount) /\ MarkThere(i, "ok")
  BY <1>1, <1>2, DeliveredTInv
<1>3. CASE UNCHANGED <<abroad, locked>> /\ MarkThere(i, "error")
  BY <1>1, <1>3, RefusedTInv
<1> QED
  BY <1>1, <1>2, <1>3

\* So is one to here that is refused or expires here.
LEMMA ReturnedTInv ==
  ASSUME TInv, NEW i \in DOMAIN received, received[i].here = "sent",
         NEW v \in {"error", "expired"}, MarkHere(i, v),
         UNCHANGED <<assets, bank, admin, sent, abroad, locked, history>>
  PROVE  TInv'
<1>1. PICK p : p = received[i]
  OBVIOUS
<1>2. PICK q : q = AsHere(p, v)
  OBVIOUS
<1>3. /\ p \in ReceivedPacket /\ ~p.settled /\ q \in ReceivedPacket
      /\ PacketsOK(assets, sent, received')
      /\ \A e : Flow(assets, sent, received', e)
                  = Flow(assets, sent, received, e) - FlowIn(p, e, UnitIn(assets, e))
                      + FlowIn(q, e, UnitIn(assets, e))
  BY <1>1, <1>2, HereStep
<1>4. /\ IsAssets(assets) /\ bank \in Bank /\ PacketsOK(assets, sent, received)
      /\ abroad \in [Denoms -> Nat] /\ locked \in [Foreign -> Nat]
      /\ Balanced(assets, bank, sent, received, abroad, locked)
  BY DEF TInv
<1>5. /\ p.here \notin {"ok", "kept"} /\ q.here \notin {"ok", "kept"} /\ ~q.settled
      /\ q.denom = p.denom /\ q.amount = p.amount
  BY <1>1, <1>2, <1>3 DEF AsHere
<1>6. ASSUME NEW e PROVE Flow(assets, sent, received', e) = Flow(assets, sent, received, e)
  <2>1. PICK u \in Nat \ {0} : u = UnitIn(assets, e)
    BY <1>4, UnitType
  <2>2. PICK x \in Int : x = FlowIn(p, e, u)
    BY <1>3, ReceivedParts DEF FlowIn
  <2>3. PICK f \in Int : f = Flow(assets, sent, received, e)
    BY <1>4, FlowType
  <2>4. FlowIn(q, e, u) = x
    BY <1>3, <1>5, <2>2, FlowInValues
  <2>5. Flow(assets, sent, received', e) = f - x + x
    BY <1>3, <2>1, <2>2, <2>3, <2>4, Zenon
  <2> QED
    BY <2>3, <2>5
<1>7. Balanced(assets, bank, sent, received', abroad, locked)
  BY <1>4, <1>6, SameBalanced
<1> QED
  BY <1>3, <1>4, <1>7, RemoteTInv

LEMMA ExpireTInv ==
  ASSUME TInv, Expire
  PROVE  TInv'
<1>1. /\ \/ \E i \in DOMAIN sent :
              sent[i].there = "sent" /\ MarkThere(i, "expired") /\ UNCHANGED received
         \/ \E i \in DOMAIN received :
              received[i].here = "sent" /\ MarkHere(i, "expired") /\ UNCHANGED sent
      /\ UNCHANGED <<assets, bank, admin, abroad, locked, history>>
  BY DEF Expire, MarkThere, MarkHere
<1> QED
  BY <1>1, RefusedTInv, ReturnedTInv

\* Coins that were given here are no longer in flight, but for the remainder.
LEMMA GivenTInv ==
  ASSUME TInv, NEW i \in DOMAIN received, received[i].here = "sent",
         NEW v \in {"ok", "kept"}, MarkHere(i, v),
         MayGive(received[i].denom, received[i].amount),
         bank' = Give(bank, received[i].denom, received[i].amount), Allowed(bank'),
         UNCHANGED <<assets, admin, sent, abroad, locked, history>>
  PROVE  TInv'
<1>1. PICK p : p = received[i]
  OBVIOUS
<1>2. PICK q : q = AsHere(p, v)
  OBVIOUS
<1>3. p \in ReceivedPacket /\ p.here = "sent"
  BY <1>1, ReceivedType
<1>4. PICK d \in Denoms, a \in Nat : d = p.denom /\ a = p.amount
  BY <1>3 DEF ReceivedPacket
<1>5. /\ IsAssets(assets) /\ bank \in Bank /\ PacketsOK(assets, sent, received)
      /\ abroad \in [Denoms -> Nat] /\ locked \in [Foreign -> Nat]
      /\ Balanced(assets, bank, sent, received, abroad, locked)
      /\ NothingUnminted(assets, bank) /\ Funded(bank, sent, history)
  BY DEF TInv
<1>6. /\ d \in Native => a <= Escrowed(bank, d)
      /\ d \in Foreign => d \in DOMAIN assets
  <2>1. d \in Native => a <= Escrowed(bank, d)
    BY <1>1, <1>4, <1>5, EscrowHeld DEF Allowed
  <2>2. d \in Foreign => d \in DOMAIN assets
    BY <1>1, <1>4, Origins DEF MayGive, MayMint
  <2> QED
    BY <2>1, <2>2
<1>7. Given(bank, bank', d, a)
  BY <1>1, <1>4, <1>5, <1>6, GiveGives
<1>8. /\ ~p.settled /\ q \in ReceivedPacket
      /\ PacketsOK(assets, sent, received')
      /\ \A e : Flow(assets, sent, received', e)
                  = Flow(assets, sent, received, e) - FlowIn(p, e, UnitIn(assets, e))
                      + FlowIn(q, e, UnitIn(assets, e))
  <2>1. received[i].denom \in Foreign => received[i].denom \in DOMAIN assets
    BY <1>1, <1>4, <1>6
  <2> QED
    BY <1>1, <1>2, <2>1, HereStep
<1>9. q.here \in {"ok", "kept"} /\ ~q.settled /\ q.denom = d /\ q.amount = a
  BY <1>2, <1>4, <1>8 DEF AsHere
<1>10. ASSUME NEW e
       PROVE  Flow(assets, sent, received', e)
                = Flow(assets, sent, received, e) - If(e = d, a - (a % UnitIn(assets, e)))
  <2>1. PICK u \in Nat \ {0} : u = UnitIn(assets, e)
    BY <1>5, UnitType
  <2>2. PICK m \in Int : m = a % u
    BY Remainder
  <2>3. PICK f \in Int : f = Flow(assets, sent, received, e)
    BY <1>5, FlowType
  <2>4. FlowIn(p, e, u) = If(e = d, a)
    BY <1>3, <1>4, <1>8, FlowInValues
  <2>5. FlowIn(q, e, u) = If(e = d, m)
    BY <1>8, <1>9, <2>2, FlowInValues
  <2>6. Flow(assets, sent, received', e) = f - If(e = d, a) + If(e = d, m)
    BY <1>8, <2>1, <2>3, <2>4, <2>5, Zenon
  <2>7. f - If(e = d, a) + If(e = d, m) = f - If(e = d, a - m)
    <3>1. CASE e = d
      BY <3>1 DEF If
    <3>2. CASE e # d
      BY <3>2 DEF If
    <3> QED
      BY <3>1, <3>2
  <2> QED
    BY <2>1, <2>2, <2>3, <2>6, <2>7, Zenon
<1>11. Balanced(assets, bank', sent, received', abroad, locked)
  BY <1>5, <1>7, <1>8, <1>10, GivenBalanced
<1>12. NothingUnminted(assets, bank')
  BY <1>5, <1>6, <1>7, GivenUnminted
<1>13. bank' \in Bank /\ Funded(bank', sent, history)
  BY <1>5, <1>7 DEF Given, Funded
<1> QED
  BY <1>5, <1>8, <1>11, <1>12, <1>13 DEF TInv, Allowed

LEMMA RecvTInv ==
  ASSUME TInv, NEW i \in DOMAIN received, NEW relayed \in Relayed, on_recv_packet(i, relayed)
  PROVE  TInv'
<1> DEFINE given == relayed # "wrong" /\ MayGive(received[i].denom, received[i].amount)
           v == CASE ~given -> "error"
                  [] given /\ (relayed = "missing" \/ HookFails(received[i])) -> "kept"
                  [] OTHER -> "ok"
<1>1. /\ received[i].here = "sent"
      /\ bank' = IF given THEN Give(bank, received[i].denom, received[i].amount) ELSE bank
      /\ Allowed(bank')
      /\ MarkHere(i, v)
      /\ UNCHANGED <<assets, admin, sent, abroad, locked, history>>
  BY DEF on_recv_packet, MarkHere
<1>2. (given => v \in {"ok", "kept"}) /\ (~given => v = "error")
  OBVIOUS
<1> HIDE DEF v
<1>3. CASE given
  BY <1>1, <1>2, <1>3, GivenTInv
<1>4. CASE ~given
  BY <1>1, <1>2, <1>4, ReturnedTInv
<1> QED
  BY <1>3, <1>4


\* The sender of a failed packet has his coins back: of one that had been given
\* here too, they count twice from now on.
LEMMA RestoredTInv ==
  ASSUME TInv, NEW i \in DOMAIN received, ~received[i].settled,
         received[i].here \notin {"sent", "ok"}, MarkSettled(i),
         RemotePays(received[i].denom, received[i].amount),
         UNCHANGED <<assets, bank, admin, sent, history>>
  PROVE  TInv'
<1>1. PICK p : p = received[i]
  OBVIOUS
<1>2. PICK q : q = AsSettled(p)
  OBVIOUS
<1>3. /\ p \in ReceivedPacket /\ q \in ReceivedPacket
      /\ PacketsOK(assets, sent, received')
      /\ \A e : Flow(assets, sent, received', e)
                  = Flow(assets, sent, received, e) - FlowIn(p, e, UnitIn(assets, e))
                      + FlowIn(q, e, UnitIn(assets, e))
  BY <1>1, <1>2, SettledStep
<1>4. /\ IsAssets(assets) /\ bank \in Bank /\ PacketsOK(assets, sent, received)
      /\ abroad \in [Denoms -> Nat] /\ locked \in [Foreign -> Nat]
      /\ Balanced(assets, bank, sent, received, abroad, locked)
  BY DEF TInv
<1>5. PICK d \in Denoms, a \in Nat : d = p.denom /\ a = p.amount
  BY <1>3 DEF ReceivedPacket
<1>6. /\ ~p.settled /\ p.here \notin {"sent", "ok"}
      /\ q.settled /\ q.here = p.here /\ q.denom = d /\ q.amount = a
  BY <1>1, <1>2, <1>5 DEF AsSettled
<1>7. RemoteGiven(abroad, locked, abroad', locked', d, a)
  BY <1>1, <1>5, RemotePaysGives
<1>8. ASSUME NEW e
      PROVE  Flow(assets, sent, received', e) = Flow(assets, sent, received, e) - If(e = d, a)
  <2>1. PICK u \in Nat \ {0} : u = UnitIn(assets, e)
    BY <1>4, UnitType
  <2>2. PICK m \in Int : m = a % u
    BY Remainder
  <2>3. PICK f \in Int : f = Flow(assets, sent, received, e)
    BY <1>4, FlowType
  <2>4. CASE p.here = "kept"
    <3>1. FlowIn(p, e, u) = If(e = d, m)
      BY <1>3, <1>5, <1>6, <2>2, <2>4, FlowInValues
    <3>2. FlowIn(q, e, u) = 0 - If(e = d, a - m)
      BY <1>3, <1>6, <2>2, <2>4, FlowInValues
    <3>3. Flow(assets, sent, received', e) = f - If(e = d, m) + (0 - If(e = d, a - m))
      BY <1>3, <2>1, <2>3, <3>1, <3>2, Zenon
    <3>4. f - If(e = d, m) + (0 - If(e = d, a - m)) = f - If(e = d, a)
      <4>1. CASE e = d
        BY <4>1 DEF If
      <4>2. CASE e # d
        BY <4>2 DEF If
      <4> QED
        BY <4>1, <4>2
    <3> QED
      BY <2>3, <3>3, <3>4, Zenon
  <2>5. CASE p.here # "kept"
    <3>1. FlowIn(p, e, u) = If(e = d, a)
      BY <1>3, <1>5, <1>6, <2>5, FlowInValues
    <3>2. FlowIn(q, e, u) = 0
      BY <1>3, <1>6, <2>5, FlowInValues
    <3>3. PICK x \in Int : x = If(e = d, a)
      BY DEF If
    <3>4. Flow(assets, sent, received', e) = f - x + 0
      BY <1>3, <2>1, <2>3, <3>1, <3>2, <3>3, Zenon
    <3> QED
      BY <2>3, <3>3, <3>4
  <2> QED
    BY <2>4, <2>5
<1>9. Balanced(assets, bank, sent, received', abroad', locked')
  BY <1>3, <1>4, <1>7, <1>8, RemoteGivenBalanced
<1> QED
  BY <1>3, <1>7, <1>9, RemoteTInv DEF RemoteGiven

LEMMA SucceededTInv ==
  ASSUME TInv, NEW i \in DOMAIN received, received[i].here = "ok", MarkSettled(i),
         UNCHANGED <<assets, bank, admin, sent, abroad, locked, history>>
  PROVE  TInv'
<1>1. PICK p : p = received[i]
  OBVIOUS
<1>2. PICK q : q = AsSettled(p)
  OBVIOUS
<1>3. /\ p \in ReceivedPacket /\ q \in ReceivedPacket
      /\ PacketsOK(assets, sent, received')
      /\ \A e : Flow(assets, sent, received', e)
                  = Flow(assets, sent, received, e) - FlowIn(p, e, UnitIn(assets, e))
                      + FlowIn(q, e, UnitIn(assets, e))
  BY <1>1, <1>2, SettledStep
<1>4. /\ IsAssets(assets) /\ bank \in Bank /\ PacketsOK(assets, sent, received)
      /\ abroad \in [Denoms -> Nat] /\ locked \in [Foreign -> Nat]
      /\ Balanced(assets, bank, sent, received, abroad, locked)
  BY DEF TInv
<1>5. p.here = "ok" /\ q.here = "ok" /\ q.denom = p.denom /\ q.amount = p.amount
  BY <1>1, <1>2 DEF AsSettled
<1>6. ASSUME NEW e PROVE Flow(assets, sent, received', e) = Flow(assets, sent, received, e)
  <2>1. PICK u \in Nat \ {0} : u = UnitIn(assets, e)
    BY <1>4, UnitType
  <2>2. PICK x \in Int : x = FlowIn(p, e, u)
    BY <1>3, ReceivedParts DEF FlowIn
  <2>3. PICK f \in Int : f = Flow(assets, sent, received, e)
    BY <1>4, FlowType
  <2>4. FlowIn(q, e, u) = x
    BY <1>3, <1>5, <2>2, FlowInValues
  <2>5. Flow(assets, sent, received', e) = f - x + x
    BY <1>3, <2>1, <2>2, <2>3, <2>4, Zenon
  <2> QED
    BY <2>3, <2>5
<1>7. Balanced(assets, bank, sent, received', abroad, locked)
  BY <1>4, <1>6, SameBalanced
<1> QED
  BY <1>3, <1>4, <1>7, RemoteTInv

LEMMA RemoteSettleTInv ==
  ASSUME TInv, NEW i \in DOMAIN received, RemoteSettle(i)
  PROVE  TInv'
<1>1. /\ ~received[i].settled /\ received[i].here # "sent" /\ MarkSettled(i)
      /\ IF received[i].here = "ok" THEN UNCHANGED <<abroad, locked>>
         ELSE RemotePays(received[i].denom, received[i].amount)
      /\ UNCHANGED <<assets, bank, admin, sent, history>>
  BY DEF RemoteSettle, RemotePays, MarkSettled
<1>2. CASE received[i].here = "ok"
  BY <1>1, <1>2, SucceededTInv
<1>3. CASE received[i].here # "ok"
  BY <1>1, <1>3, RestoredTInv
<1> QED
  BY <1>2, <1>3

-----------------------------------------------------------------------------
(* The invariant.                                                          *)

LEMMA NoPackets ==
  ASSUME NEW e, NEW u \in Nat \ {0}
  PROVE  SentFlow(<<>>, e, u) = 0 /\ ReceivedFlow(<<>>, e, u) = 0
<1>1. DOMAIN <<>> = {}
  OBVIOUS
<1>2. /\ Total(OutFlights(<<>>, e)) = 0 /\ Total(OutDusts(<<>>, e, u)) = 0
      /\ Total(InFlights(<<>>, e)) = 0 /\ Total(InDusts(<<>>, e, u)) = 0
      /\ Total(Doubles(<<>>, e, u)) = 0
  <2>1. /\ Summable(OutFlights(<<>>, e)) /\ Summable(OutDusts(<<>>, e, u))
        /\ Summable(InFlights(<<>>, e)) /\ Summable(InDusts(<<>>, e, u))
        /\ Summable(Doubles(<<>>, e, u))
    BY <1>1, FS_EmptySet DEF Summable, OutFlights, OutDusts, InFlights, InDusts, Doubles
  <2> QED
    BY <1>1, <2>1, TotalZero DEF OutFlights, OutDusts, InFlights, InDusts, Doubles
<1> QED
  BY <1>2 DEF SentFlow, ReceivedFlow, OutFlights, OutDusts, InFlights, InDusts, Doubles

LEMMA InitTInv ==
  ASSUME Init
  PROVE  TInv
<1>1. IsAssets(assets) /\ DOMAIN assets = {}
  BY DEF Init, IsAssets
<1>2. /\ bank \in Bank /\ bank.fees = 0 /\ bank.authority = 0
      /\ \A d \in Foreign : bank.purse[d] = 0
      /\ \A d \in Native : bank.escrow[d] = 0
  BY TransferAssumption, Origins DEF Init, Bank
<1>3. FitsSupply(bank) /\ NothingUnminted(assets, bank)
  BY <1>2, TransferAssumption DEF FitsSupply, NothingUnminted
<1>4. AdminOK(admin, history)
  BY DEF Init, AdminOK, Keys
<1>5. sent = <<>> /\ received = <<>>
  BY DEF Init
<1>6. PacketsOK(assets, sent, received)
  BY <1>5 DEF PacketsOK
<1>7. /\ abroad \in [Denoms -> Nat] /\ locked \in [Foreign -> Nat]
      /\ \A d \in Native : abroad[d] = 0
      /\ \A d \in Foreign : locked[d] = 0
  BY TransferAssumption, Origins DEF Init
<1>8. Balanced(assets, bank, sent, received, abroad, locked)
  <2>1. SUFFICES ASSUME NEW d \in Denoms
                 PROVE  BalancedBy(bank, abroad, locked, d, UnitIn(assets, d),
                                   Flow(assets, sent, received, d))
    BY DEF Balanced
  <2>2. PICK u \in Nat \ {0} : u = UnitIn(assets, d)
    BY <1>1, UnitType
  <2>3. Flow(assets, sent, received, d) = 0
    BY <1>5, <2>2, NoPackets DEF Flow
  <2>4. Held(bank, locked, d) = 0 /\ Circulating(bank, abroad, d) = 0
    BY <1>2, <1>7, Origins DEF Held, Escrowed, Circulating
  <2>5. 0 = 0 * u + 0
    OBVIOUS
  <2> QED
    BY <2>2, <2>3, <2>4, <2>5, Zenon DEF BalancedBy
<1>9. Funded(bank, sent, history)
  <2>1. Total(FeesOf(sent)) = 0
    BY <1>5, TotalZero DEF FeesOf
  <2> QED
    BY <1>2, <2>1 DEF Funded
<1> QED
  BY <1>1, <1>2, <1>3, <1>4, <1>6, <1>7, <1>8, <1>9 DEF TInv

LEMMA NextTInv ==
  ASSUME TInv, [Next]_vars
  PROVE  TInv'
<1>1. ASSUME NEW d \in Foreign, NEW pair \in Decimals, init_mint(d, pair[1], pair[2])
      PROVE  TInv'
  BY <1>1, InitMintTInv
<1>2. ASSUME NEW amount \in Fees, set_fee_amount(amount) PROVE TInv'
  BY <1>2, SetFeeTInv
<1>3. ASSUME NEW signer \in Admins, NEW new \in Admins, setup_fee_collector(signer, new)
      PROVE  TInv'
  BY <1>3, CollectorTInv
<1>4. ASSUME NEW signer \in Admins, accept_fee_collector_change(signer) PROVE TInv'
  BY <1>4, CollectorTInv
<1>5. CASE collect_fees
  BY <1>5, CollectFeesTInv
<1>6. ASSUME NEW d \in Denoms, NEW amount \in Amounts, send_transfer(d, amount) PROVE TInv'
  BY <1>6, SendTransferTInv
<1>7. ASSUME NEW i \in DOMAIN sent, on_acknowledgement_packet(i) PROVE TInv'
  <2>1. CASE sent[i].there = "ok" /\ UNCHANGED <<bank, history>>
    BY <1>7, <2>1, AcknowledgedTInv DEF on_acknowledgement_packet
  <2>2. CASE sent[i].there = "error" /\ Refund(sent[i])
    BY <1>7, <2>2, RefundTInv DEF on_acknowledgement_packet
  <2> QED
    BY <1>7, <2>1, <2>2 DEF on_acknowledgement_packet
<1>8. ASSUME NEW i \in DOMAIN sent, on_timeout_packet(i) PROVE TInv'
  BY <1>8, RefundTInv DEF on_timeout_packet
<1>9. ASSUME NEW i \in DOMAIN received, NEW relayed \in Relayed, on_recv_packet(i, relayed)
      PROVE  TInv'
  BY <1>9, RecvTInv
<1>10. ASSUME NEW d \in Denoms, NEW amount \in Amounts, NEW memo \in {"good", "bad"},
              RemoteSend(d, amount, memo)
       PROVE  TInv'
  BY <1>10, RemoteSendTInv
<1>11. ASSUME NEW i \in DOMAIN sent, RemoteRecv(i) PROVE TInv'
  BY <1>11, RemoteRecvTInv
<1>12. CASE Expire
  BY <1>12, ExpireTInv
<1>13. ASSUME NEW i \in DOMAIN received, RemoteSettle(i) PROVE TInv'
  BY <1>13, RemoteSettleTInv
<1>14. CASE UNCHANGED vars
  BY <1>14 DEF vars, TInv
<1> QED
  BY <1>1, <1>2, <1>3, <1>4, <1>5, <1>6, <1>7, <1>8, <1>9, <1>10, <1>11, <1>12, <1>13,
     <1>14, Zenon DEF Next

LEMMA TransferInvariant == Spec => []TInv
<1>1. Init => TInv
  BY InitTInv
<1>2. TInv /\ [Next]_vars => TInv'
  BY NextTInv
<1> QED
  BY <1>1, <1>2, PTL DEF Spec


-----------------------------------------------------------------------------
(* Tokens are backed.                                                      *)

\* The five sums over the packets that the equation is made of.
LEMMA SumTypes ==
  ASSUME TInv, NEW d
  PROVE  /\ Total(OutFlights(sent, d)) \in Nat
         /\ Total(OutDusts(sent, d, UnitIn(assets, d))) \in Nat
         /\ Total(InFlights(received, d)) \in Nat
         /\ Total(InDusts(received, d, UnitIn(assets, d))) \in Nat
         /\ Total(Doubles(received, d, UnitIn(assets, d))) \in Nat
<1>1. UnitIn(assets, d) \in Nat \ {0}
  BY UnitType DEF TInv
<1>2. sent \in Seq(SentPacket) /\ received \in Seq(ReceivedPacket)
  BY DEF TInv, PacketsOK
<1> QED
  BY <1>1, <1>2, SentSummable, ReceivedSummable, TotalType

LEMMA FlowSums ==
  ASSUME TInv, NEW d
  PROVE  Flow(assets, sent, received, d)
           = (Total(OutFlights(sent, d)) - Total(OutDusts(sent, d, UnitIn(assets, d))))
               + (Total(InFlights(received, d)) + Total(InDusts(received, d, UnitIn(assets, d)))
                    - Total(Doubles(received, d, UnitIn(assets, d))))
  BY DEF Flow, SentFlow, ReceivedFlow, OutFlights, OutDusts, InFlights, InDusts, Doubles

LEMMA VouchersFromTInv ==
  ASSUME TInv
  PROVE  VouchersAreBacked
<1>1. SUFFICES ASSUME NEW d \in Foreign
               PROVE  locked[d] = bank.purse[d] * Unit(d) + InFlight(d) + Dust(d) - Doubled(d)
  BY DEF VouchersAreBacked
<1>2. PICK u \in Nat \ {0} : u = UnitIn(assets, d) /\ u = Unit(d)
  BY UnitType DEF TInv, Unit, UnitIn
<1>3. PICK o \in Nat, od \in Nat, r \in Nat, rd \in Nat, k \in Nat :
        /\ o = Total(OutFlights(sent, d)) /\ od = Total(OutDusts(sent, d, u))
        /\ r = Total(InFlights(received, d)) /\ rd = Total(InDusts(received, d, u))
        /\ k = Total(Doubles(received, d, u))
  BY <1>2, SumTypes
<1>4. InFlight(d) = o + r /\ Dust(d) = rd - od /\ Doubled(d) = k
  BY <1>2, <1>3, Zenon DEF InFlight, Dust, Doubled, OutFlights, OutDusts, InFlights, InDusts, Doubles
<1>5. Flow(assets, sent, received, d) = (o - od) + (r + rd - k)
  BY <1>2, <1>3, FlowSums, Zenon
<1>6. PICK n \in Nat : n = bank.purse[d]
  BY Origins DEF TInv, Bank
<1>7. locked[d] = n * u + ((o - od) + (r + rd - k))
  <2>1. BalancedBy(bank, abroad, locked, d, u, (o - od) + (r + rd - k))
    BY <1>2, <1>5, Origins DEF TInv, Balanced
  <2>2. Held(bank, locked, d) = locked[d] /\ Circulating(bank, abroad, d) = n
    BY <1>6 DEF Held, Circulating
  <2> QED
    BY <2>1, <2>2, Zenon DEF BalancedBy
<1>8. n * u + ((o - od) + (r + rd - k)) = n * u + (o + r) + (rd - od) - k
  <2>1. PICK x \in Nat : x = n * u
    OBVIOUS
  <2>2. x + ((o - od) + (r + rd - k)) = x + (o + r) + (rd - od) - k
    OBVIOUS
  <2> QED
    BY <2>1, <2>2, Zenon
<1> QED
  BY <1>2, <1>4, <1>6, <1>7, <1>8, Zenon

\* Native coins have no remainders.
LEMMA NativeEquation ==
  ASSUME TInv, NEW d \in Native
  PROVE  Escrowed(bank, d) = abroad[d] + InFlight(d) - Doubled(d)
<1>1. UnitIn(assets, d) = 1 /\ Unit(d) = 1
  BY UnitType, Origins DEF TInv, Unit, UnitIn
<1>2. sent \in Seq(SentPacket) /\ received \in Seq(ReceivedPacket)
  BY DEF TInv, PacketsOK
<1>3. PICK o \in Nat, r \in Nat, k \in Nat :
        /\ o = Total(OutFlights(sent, d)) /\ r = Total(InFlights(received, d))
        /\ k = Total(Doubles(received, d, 1))
  BY <1>1, SumTypes
<1>4. \A n \in Nat : n % 1 = 0
  OBVIOUS
<1>5. Total(OutDusts(sent, d, 1)) = 0
  <2>1. ASSUME NEW i \in DOMAIN sent PROVE SentDust(sent[i], d, 1) = 0
    <3>1. sent[i].amount \in Nat
      BY SentType DEF SentPacket
    <3> QED
      BY <1>4, <3>1 DEF SentDust, If
  <2> QED
    BY <2>1, TotalZero DEF OutDusts
<1>6. Total(InDusts(received, d, 1)) = 0
  <2>1. ASSUME NEW i \in DOMAIN received PROVE ReceivedDust(received[i], d, 1) = 0
    <3>1. received[i].amount \in Nat
      BY ReceivedType DEF ReceivedPacket
    <3> QED
      BY <1>4, <3>1 DEF ReceivedDust, If
  <2> QED
    BY <2>1, TotalZero DEF InDusts
<1>7. InFlight(d) = o + r /\ Doubled(d) = k
  BY <1>1, <1>3, Zenon DEF InFlight, Doubled, OutFlights, InFlights, Doubles
<1>8. Flow(assets, sent, received, d) = (o - 0) + (r + 0 - k)
  BY <1>1, <1>3, <1>5, <1>6, FlowSums, Zenon
<1>9. PICK n \in Nat : n = abroad[d]
  BY Origins DEF TInv
<1>10. Escrowed(bank, d) = n * 1 + ((o - 0) + (r + 0 - k))
  <2>1. BalancedBy(bank, abroad, locked, d, 1, (o - 0) + (r + 0 - k))
    BY <1>1, <1>8, Origins DEF TInv, Balanced
  <2>2. Held(bank, locked, d) = Escrowed(bank, d) /\ Circulating(bank, abroad, d) = n
    BY <1>9, Origins DEF Held, Circulating
  <2> QED
    BY <2>1, <2>2, Zenon DEF BalancedBy
<1>11. n * 1 + ((o - 0) + (r + 0 - k)) = n + (o + r) - k
  OBVIOUS
<1> QED
  BY <1>7, <1>9, <1>10, <1>11, Zenon

LEMMA BackedFromTInv ==
  ASSUME TInv
  PROVE  TokensAreBacked
<1>1. TypeOK
  <2>1. bank \in Bank /\ abroad \in [Denoms -> Nat] /\ locked \in [Foreign -> Nat]
    BY DEF TInv
  <2>2. \A d \in Foreign : bank.purse[d] \in 0 .. U64Max
    <3>1. ASSUME NEW d \in Foreign PROVE bank.purse[d] \in 0 .. U64Max
      <4>1. bank.purse[d] \in Nat /\ bank.purse[d] <= U64Max
        BY <2>1, Origins DEF Bank, TInv, FitsSupply
      <4> QED
        BY <4>1, TransferAssumption
    <3> QED
      BY <3>1
  <2>3. \A d \in DOMAIN assets : assets[d][2] <= assets[d][1]
    BY DEF TInv, IsAssets
  <2> QED
    BY <2>1, <2>2, <2>3, Origins DEF TypeOK, Bank
<1>2. EscrowCoversVouchers
  BY NativeEquation DEF EscrowCoversVouchers, Escrowed
<1> QED
  BY <1>1, <1>2, VouchersFromTInv DEF TokensAreBacked

(* Every token is backed by one on the other chain, whatever packets are   *)
(* sent, received, refused, expired and refunded, in whatever order, and   *)
(* whatever the decimals, the fees and the bounds are: the coins in escrow *)
(* here and those locked there are exactly what transfer/impls.rs and its  *)
(* counterpart gave out, are giving out or could not give out.             *)
THEOREM EveryTokenIsBacked == Spec => []TokensAreBacked
<1>1. TInv => TokensAreBacked
  BY BackedFromTInv
<1> QED
  BY <1>1, TransferInvariant, PTL

-----------------------------------------------------------------------------
(* Refunds.                                                                *)

LEMMA EscrowCoversRefund ==
  ASSUME TInv, NEW i \in DOMAIN sent, sent[i].commitment, sent[i].there # "ok",
         sent[i].denom \in Native,
         \A j \in DOMAIN received : ~(received[j].denom = sent[i].denom /\ received[j].here = "kept")
  PROVE  sent[i].amount <= Escrowed(bank, sent[i].denom)
<1>2. sent \in Seq(SentPacket) /\ received \in Seq(ReceivedPacket)
  BY DEF TInv, PacketsOK
<1>3. PICK d \in Native, a \in Nat : d = sent[i].denom /\ a = sent[i].amount
  BY SentType DEF SentPacket
<1>4. PICK o \in Nat, r \in Nat, n \in Nat :
        /\ o = Total(OutFlights(sent, d)) /\ r = Total(InFlights(received, d))
        /\ n = abroad[d]
  BY SumTypes, Origins DEF TInv
<1>5. Doubled(d) = 0
  <2>1. ASSUME NEW j \in DOMAIN received PROVE DoubledBy(received[j], d, Unit(d)) = 0
    BY <1>3 DEF DoubledBy, If
  <2> QED
    BY <2>1, TotalZero DEF Doubled
<1>6. InFlight(d) = o + r
  BY <1>4, Zenon DEF InFlight, OutFlights, InFlights
<1>7. Escrowed(bank, d) = n + (o + r) - 0
  BY <1>4, <1>5, <1>6, NativeEquation
<1>8. a <= o
  <2>1. Summable(OutFlights(sent, d))
    <3>1. PICK u \in Nat \ {0} : u = 1
      OBVIOUS
    <3>2. Summable(OutFlights(sent, d)) /\ Summable(OutDusts(sent, d, u))
      BY <1>2, SentSummable
    <3> QED
      BY <3>2
  <2>3. i \in DOMAIN OutFlights(sent, d) /\ OutFlights(sent, d)[i] = SentInFlight(sent[i], d)
    BY DEF OutFlights
  <2>2. SentInFlight(sent[i], d) = a
    BY <1>3 DEF SentInFlight, If
  <2> QED
    BY <1>4, <2>1, <2>2, <2>3, TotalAtLeast
<1> QED
  BY <1>3, <1>7, <1>8

LEMMA FeeCoversRefund ==
  ASSUME TInv, NEW i \in DOMAIN sent
  PROVE  FeeReturns(sent[i])
<1>1. PICK n \in Nat, f \in Nat, k \in Nat, paid \in Nat :
        n = Total(FeesOf(sent)) /\ f = admin.fee /\ k = bank.fees /\ paid = sent[i].fee
  BY FeesSummable, SentType DEF TInv, PacketsOK, AdminOK, Bank, SentPacket
<1>2. paid <= n
  <2>1. i \in DOMAIN FeesOf(sent) /\ FeesOf(sent)[i] = paid
    BY <1>1 DEF FeesOf
  <2>2. Summable(FeesOf(sent))
    BY FeesSummable DEF TInv, PacketsOK
  <2> QED
    BY <1>1, <2>1, <2>2, TotalAtLeast
<1>3. history.drained \/ n <= k
  BY <1>1 DEF TInv, Funded
<1>4. CASE n <= k /\ ~(f > paid)
  BY <1>1, <1>2, <1>4 DEF FeeReturns
<1> QED
  BY <1>1, <1>3, <1>4 DEF FeeReturns

LEMMA CoinsFromTInv ==
  ASSUME TInv, NEW i \in DOMAIN sent, Failed(sent[i])
  PROVE  CoinsReturn(sent[i])
<1>1. PICK p : p = sent[i]
  OBVIOUS
<1>2. /\ IsAssets(assets) /\ bank \in Bank /\ FitsSupply(bank)
      /\ p \in SentPacket /\ SentOK(assets, p)
  BY <1>1, SentType DEF TInv, PacketsOK
<1>3. PICK d \in Denoms, a \in Nat : d = p.denom /\ a = p.amount
  BY <1>2 DEF SentPacket
<1>4. SUFFICES ASSUME d \in Native =>
                        \A j \in DOMAIN received :
                            ~(received[j].denom = d /\ received[j].here = "kept"),
                      d \in Foreign => ~(bank.purse[d] + Converted(d, a) > U64Max)
               PROVE  MayGive(d, a) /\ Allowed(Give(bank, d, a))
  BY <1>1, <1>3 DEF CoinsReturn
<1>5. /\ d \in Native => a <= U64Max /\ a <= Escrowed(bank, d)
      /\ d \in Foreign => d \in DOMAIN assets /\ a \div UnitIn(assets, d) <= U64Max
  BY <1>1, <1>2, <1>3, <1>4, EscrowCoversRefund DEF SentOK, Failed
<1>6. d \in Foreign => Converted(d, a) = a \div UnitIn(assets, d)
  BY <1>2, <1>5, ConvertedInUnits
<1>7. MayGive(d, a)
  <2>1. CASE d \in Native
    BY <1>5, <2>1 DEF MayGive, MayUnescrow, check_amount_overflow
  <2>2. CASE d \in Foreign
    BY <1>5, <1>6, <2>2, Origins, Zenon DEF MayGive, MayMint, check_amount_overflow
  <2> QED
    BY <2>1, <2>2, Origins
<1>8. PICK y : y = Give(bank, d, a)
  OBVIOUS
<1>9. Given(bank, y, d, a)
  BY <1>2, <1>5, <1>8, GiveGives
<1>10. NotOverdrawn(y)
  BY <1>9, TransferAssumption DEF Given, Bank, NotOverdrawn
<1>11. ASSUME NEW e \in Foreign PROVE y.purse[e] <= U64Max
  <2>1. PICK n \in Nat, c \in Nat : n = bank.purse[e] /\ c = a \div UnitIn(assets, d)
    BY <1>2, UnitType, Remainder, Origins DEF Bank
  <2>2. y.purse[e] = n + If(e = d, c) /\ n <= U64Max
    BY <1>2, <1>9, <2>1 DEF Given, FitsSupply
  <2>3. CASE e = d
    <3>1. ~(n + c > U64Max)
      BY <1>4, <1>6, <2>1, <2>3
    <3>2. y.purse[e] = n + c
      BY <2>2, <2>3 DEF If
    <3> QED
      BY <3>1, <3>2, TransferAssumption
  <2>4. CASE e # d
    <3>1. y.purse[e] = n + 0
      BY <2>2, <2>4 DEF If
    <3> QED
      BY <2>2, <3>1
  <2> QED
    BY <2>3, <2>4
<1> QED
  BY <1>7, <1>8, <1>10, <1>11 DEF Allowed, FitsSupply

(* A packet that failed can be refunded, however many others there are:    *)
(* its coins are in escrow or can be minted again at the decimals of the   *)
(* mint, unless a hook that failed doubled coins of its denomination or    *)
(* the supply has meanwhile grown to its limit; and the fee account pays   *)
(* the fee, unless the collector raised it since the packet was sent or    *)
(* drew on what the pending packets had paid (transfer/mod.rs, transfer/   *)
(* impls.rs, collect_fees and set_fee_amount of lib.rs).                   *)
THEOREM RefundsArePaid == Spec => []RefundsGoThrough
<1>1. TInv => RefundsGoThrough
  BY CoinsFromTInv, FeeCoversRefund DEF RefundsGoThrough
<1> QED
  BY <1>1, TransferInvariant, PTL

-----------------------------------------------------------------------------
(* The fee collector.                                                      *)

CollectorKept ==
    admin'.fee_collector # admin.fee_collector =>
      \/ admin.fee_collector = NoKey
      \/ history.consent = <<admin.fee_collector, admin'.fee_collector>>

LEMMA NextCollector ==
  ASSUME TInv, Next
  PROVE  CollectorKept
<1>1. /\ admin \in [fee : Nat, fee_collector : Keys, proposal : Keys]
      /\ admin.proposal # NoKey => history.consent = <<admin.fee_collector, admin.proposal>>
      /\ \A signer \in Admins : signer # NoKey
  BY TransferAssumption DEF TInv, AdminOK
<1>2. ASSUME NEW amount \in Fees, set_fee_amount(amount) PROVE CollectorKept
  BY <1>1, <1>2 DEF set_fee_amount, CollectorKept
<1>3. ASSUME NEW signer \in Admins, NEW new \in Admins, setup_fee_collector(signer, new)
      PROVE  CollectorKept
  BY <1>1, <1>3 DEF setup_fee_collector, CollectorKept
<1>4. ASSUME NEW signer \in Admins, accept_fee_collector_change(signer) PROVE CollectorKept
  BY <1>1, <1>4 DEF accept_fee_collector_change, CollectorKept
<1>5. CASE UNCHANGED admin
  BY <1>5 DEF CollectorKept
<1> QED
  BY <1>2, <1>3, <1>4, <1>5
     DEF Next, init_mint, collect_fees, send_transfer, on_acknowledgement_packet,
         on_timeout_packet, on_recv_packet, RemoteSend, RemoteRecv, Expire, RemoteSettle

(* Nobody takes the office of the fee collector from him: it passes only   *)
(* to the key that he himself was the last to sign for (the check of the   *)
(* signer in setup_fee_collector of lib.rs, and                            *)
(* accept_fee_collector_change); no proposal outlives its proposer's       *)
(* office.                                                                 *)
THEOREM CollectorsConsent == Spec => CollectorConsents
<1>1. TInv /\ [Next]_vars => [CollectorKept]_vars
  BY NextCollector
<1> QED
  BY <1>1, TransferInvariant, PTL DEF Spec, CollectorConsents, CollectorKept
=============================================================================
