------------------------------ MODULE Transfer ------------------------------
(***************************************************************************)
(* Token transfers: coins that leave and enter through IBC packets, the    *)
(* fee for sending them and the instructions that administer both.         *)
(*                                                                         *)
(*   solana-ibc/src/transfer/mod.rs, transfer/impls.rs                     *)
(*   solana-ibc/src/lib.rs   send_transfer, init_mint and the fee          *)
(*                           instructions                                  *)
(*                                                                         *)
(* Packets are delivered through module IbcHost, which shows that each one *)
(* is received once and ends once; here a packet is a record with its      *)
(* state on both chains, and a relayer picks any of them in any order.     *)
(* The other chain follows ICS-20 and keeps its own accounts correctly.    *)
(*                                                                         *)
(* Native denominations are tokens of Solana, escrowed while they are      *)
(* abroad; foreign ones are minted and burnt here.  The holders of tokens  *)
(* are not told apart, and purse[WSOL] is their SOL, wrapped or not.       *)
(* Balances of accounts are what they hold above the rent.                 *)
(***************************************************************************)
EXTENDS Stake, Sequences

CONSTANTS
    Native, Foreign,    \* denominations by their origin
    WSOL,               \* the native one that is wrapped SOL
    Hooked,             \* denominations whose receipt calls the bridge escrow
    Ten,                \* base of the decimals
    U64Max,             \* u64::MAX
    MINIMUM_FEE_ACCOUNT_BALANCE,
    Admins,             \* keys that may be fee collectors
    Decimals,           \* pairs <<original, effective>> given to init_mint
    Amounts, Fees,      \* amounts of packets, fees in lamports
    Coins,              \* what holders have of each denomination at home
    MaxPackets          \* bound on the packets, both directions together

VARIABLES
    assets,     \* decimals of the foreign denominations that have a mint
    bank,       \* balances on Solana: [purse, escrow, fees, authority]
    admin,      \* [fee, fee_collector, proposal]
    sent,       \* packets sent from here
    received,   \* packets sent to here
    abroad,     \* coins in the hands of users on the other chain
    locked,     \* foreign coins escrowed there
    history     \* for the properties: [consent, drained]

vars == <<assets, bank, admin, sent, received, abroad, locked, history>>

Denoms == Native \cup Foreign

\* Pubkey::default.
NoKey == "no key"

ASSUME TransferAssumption ==
    /\ WSOL \in Native /\ Native \cap Foreign = {} /\ Hooked \subseteq Denoms
    /\ Ten \in Nat \ {0, 1} /\ U64Max \in Nat /\ MINIMUM_FEE_ACCOUNT_BALANCE \in Nat
    /\ NoKey \notin Admins
    /\ Decimals \subseteq Nat \X Nat
    /\ \A pair \in Decimals : pair[2] < pair[1] => Ten ^ (pair[1] - pair[2]) \in Nat \ {0}
    /\ Amounts \subseteq Nat /\ Fees \subseteq Nat /\ Coins \in Nat

Init ==
    /\ assets = [d \in {} |-> 0]
    /\ bank = [purse     |-> [d \in Denoms |-> IF d \in Native THEN Coins ELSE 0],
               escrow    |-> [d \in Native |-> 0],
               fees      |-> 0,
               authority |-> 0]
    /\ admin = [fee |-> 0, fee_collector |-> NoKey, proposal |-> NoKey]
    /\ sent = <<>> /\ received = <<>>
    /\ abroad = [d \in Denoms |-> IF d \in Foreign THEN Coins ELSE 0]
    /\ locked = [d \in Foreign |-> 0]
    /\ history = [consent |-> <<NoKey, NoKey>>, drained |-> FALSE]

-----------------------------------------------------------------------------
(* Amounts.                                                                *)

check_amount_overflow(amount) == amount <= U64Max

convert_decimals(amount, original, effective) ==
    CASE original > effective -> amount \div Ten ^ (original - effective)
      [] original = effective -> amount
      [] original < effective -> amount * Ten ^ (effective - original)

\* The sum of the values of a function, taken like stake in module Stake.
Total(f) == StakeOf({[pubkey |-> i, stake |-> f[i]] : i \in DOMAIN f})

If(condition, amount) == IF condition THEN amount ELSE 0

Converted(d, amount) == convert_decimals(amount, assets[d][1], assets[d][2])

-----------------------------------------------------------------------------
(* Coins: when an operation returns no error, and the balances after it.   *)
(* An error on receipt is acknowledged; a call of the token program or a   *)
(* change of lamports that fails aborts the whole instruction.             *)

MayMint(d, amount) ==
    d \in DOMAIN assets /\ check_amount_overflow(Converted(d, amount))

mint_coins_execute(b, d, amount) == [b EXCEPT !.purse[d] = @ + Converted(d, amount)]

MayBurn(d, amount) == MayMint(d, amount) /\ bank.purse[d] >= Converted(d, amount)

burn_coins_execute(b, d, amount) == [b EXCEPT !.purse[d] = @ - Converted(d, amount)]

MayEscrow(d, amount) == check_amount_overflow(amount) /\ bank.purse[d] >= amount

\* The escrow account of wrapped SOL is closed at once: the SOL goes to the
\* mint authority and the rent back to the sender, who paid it.
escrow_coins_execute(b, d, amount) ==
    IF d = WSOL THEN [b EXCEPT !.purse[d] = @ - amount, !.authority = @ + amount]
    ELSE [b EXCEPT !.purse[d] = @ - amount, !.escrow[d] = @ + amount]

MayUnescrow(d, amount) == check_amount_overflow(amount)

unescrow_coins_execute(b, d, amount) ==
    IF d = WSOL THEN [b EXCEPT !.purse[d] = @ + amount, !.authority = @ - amount]
    ELSE [b EXCEPT !.purse[d] = @ + amount, !.escrow[d] = @ - amount]

\* Coins that arrive or come back.
MayGive(d, amount) == IF d \in Native THEN MayUnescrow(d, amount) ELSE MayMint(d, amount)

Give(b, d, amount) ==
    IF d \in Native THEN unescrow_coins_execute(b, d, amount)
    ELSE mint_coins_execute(b, d, amount)

\* The token program refuses to overdraw an escrow and to mint more than fits,
\* and the lamports of the mint authority do not go below zero.
FitsSupply(b) == \A d \in Foreign : b.purse[d] <= U64Max
NotOverdrawn(b) == b.authority >= 0 /\ \A d \in Native : b.escrow[d] >= 0
Allowed(b) == FitsSupply(b) /\ NotOverdrawn(b)

-----------------------------------------------------------------------------
(* Instructions of the fee collector.                                      *)

init_mint(d, original, effective) ==
    /\ admin.fee_collector # NoKey
    /\ effective <= original
    /\ d \notin DOMAIN assets
    /\ assets' = [e \in DOMAIN assets \cup {d} |->
                    IF e = d THEN <<original, effective>> ELSE assets[e]]
    /\ UNCHANGED <<bank, admin, sent, received, abroad, locked, history>>

set_fee_amount(amount) ==
    /\ admin.fee_collector # NoKey
    /\ admin' = [admin EXCEPT !.fee = amount]
    /\ UNCHANGED <<assets, bank, sent, received, abroad, locked, history>>

\* Mutant: anybody may propose.
setup_fee_collector_unsigned(signer, new) ==
    /\ \/ /\ admin.fee_collector = NoKey
          /\ admin' = [admin EXCEPT !.fee_collector = new]
          /\ UNCHANGED history
       \/ /\ admin.fee_collector # NoKey
          /\ admin' = [admin EXCEPT !.proposal = new]
          /\ history' = [history EXCEPT !.consent = <<signer, new>>]
    /\ UNCHANGED <<assets, bank, sent, received, abroad, locked>>

setup_fee_collector(signer, new) ==
    /\ \/ /\ admin.fee_collector = NoKey
          /\ admin' = [admin EXCEPT !.fee_collector = new]
          /\ UNCHANGED history
       \/ /\ signer = admin.fee_collector
          /\ admin' = [admin EXCEPT !.proposal = new]
          /\ history' = [history EXCEPT !.consent = <<signer, new>>]
    /\ UNCHANGED <<assets, bank, sent, received, abroad, locked>>

accept_fee_collector_change(signer) ==
    /\ admin.proposal = signer
    /\ admin' = [admin EXCEPT !.fee_collector = signer, !.proposal = NoKey]
    /\ UNCHANGED <<assets, bank, sent, received, abroad, locked, history>>

\* What was paid for the pending packets.
PendingFees == Total([i \in DOMAIN sent |-> sent[i].fee])

\* Mutant: nothing is left for refunds.
collect_fees_all ==
    /\ admin.fee_collector # NoKey
    /\ bank.fees > 0
    /\ bank' = [bank EXCEPT !.fees = 0]
    /\ UNCHANGED <<assets, admin, sent, received, abroad, locked, history>>

collect_fees ==
    /\ admin.fee_collector # NoKey
    /\ bank.fees > MINIMUM_FEE_ACCOUNT_BALANCE
    /\ bank' = [bank EXCEPT !.fees = MINIMUM_FEE_ACCOUNT_BALANCE]
    /\ history' = [history EXCEPT !.drained = @ \/ PendingFees > MINIMUM_FEE_ACCOUNT_BALANCE]
    /\ UNCHANGED <<assets, admin, sent, received, abroad, locked>>

-----------------------------------------------------------------------------
(* Packets from here: [denom, amount, fee, commitment, there], what was    *)
(* paid for the packet while it is pending, whether its commitment is      *)
(* still stored and what became of it abroad.  The code does not remember  *)
(* the fee of a packet: it is here for the properties.                     *)

\* A timeout is always set, so a packet that nobody delivers expires.
send_transfer(d, amount) ==
    /\ Len(sent) + Len(received) < MaxPackets
    /\ \/ /\ d \in Native /\ MayEscrow(d, amount)
          /\ bank' = escrow_coins_execute([bank EXCEPT !.fees = @ + admin.fee], d, amount)
       \/ /\ d \in Foreign /\ MayBurn(d, amount)
          /\ bank' = burn_coins_execute([bank EXCEPT !.fees = @ + admin.fee], d, amount)
    /\ sent' = Append(sent, [denom |-> d, amount |-> amount, fee |-> admin.fee,
                             commitment |-> TRUE, there |-> "sent"])
    /\ UNCHANGED <<assets, admin, received, abroad, locked, history>>

\* The coins come back, and the fee of today, which need not be the one that was
\* paid, from the fee account.
Refunded(p) ==
    Give([bank EXCEPT !.fees = @ - admin.fee], p.denom, p.amount)

MayRefund(p) ==
    /\ MayGive(p.denom, p.amount)
    /\ bank.fees >= admin.fee
    /\ Allowed(Refunded(p))

Refund(p) ==
    /\ MayRefund(p)
    /\ bank' = Refunded(p)
    /\ history' = [history EXCEPT !.drained = @ \/ admin.fee > p.fee]

Settle(i) == sent' = [sent EXCEPT ![i].commitment = FALSE, ![i].fee = 0]

on_acknowledgement_packet(i) ==
    /\ sent[i].commitment
    /\ \/ sent[i].there = "ok" /\ UNCHANGED <<bank, history>>
       \/ sent[i].there = "error" /\ Refund(sent[i])
    /\ Settle(i)
    /\ UNCHANGED <<assets, admin, received, abroad, locked>>

\* Mutant: a packet that was received abroad may time out.
on_timeout_packet_received(i) ==
    /\ sent[i].commitment
    /\ sent[i].there \in {"expired", "ok"}
    /\ Refund(sent[i])
    /\ Settle(i)
    /\ UNCHANGED <<assets, admin, received, abroad, locked>>

on_timeout_packet(i) ==
    /\ sent[i].commitment
    /\ sent[i].there = "expired"
    /\ Refund(sent[i])
    /\ Settle(i)
    /\ UNCHANGED <<assets, admin, received, abroad, locked>>

-----------------------------------------------------------------------------
(* Packets to here: [denom, amount, here, settled], what became of the     *)
(* packet and whether the other chain knows.                               *)

\* What a relayer passes along: the right accounts, wrong ones, or the
\* right ones and a further account that does not exist.
Relayed == {"right", "wrong", "missing"}

\* check_denom_is_hook_address, parse_bridge_memo and the call, whose failure
\* fails the instruction: only a bad memo is reported.
HookFails(p) == p.denom \in Hooked /\ p.memo = "bad"

\* The acknowledgement is an error when giving the coins returns one, and also
\* when what follows fails; the coins stay given then ("kept").  When giving
\* them aborts, nothing happens, and the packet may be delivered again.
on_recv_packet(i, relayed) ==
    LET p     == received[i]
        given == relayed # "wrong" /\ MayGive(p.denom, p.amount)
    IN  /\ p.here = "sent"
        /\ bank' = IF given THEN Give(bank, p.denom, p.amount) ELSE bank
        /\ Allowed(bank')
        /\ received' = [received EXCEPT ![i].here =
                          CASE ~given -> "error"
                            [] given /\ (relayed = "missing" \/ HookFails(p)) -> "kept"
                            [] OTHER -> "ok"]
        /\ UNCHANGED <<assets, admin, sent, abroad, locked, history>>

-----------------------------------------------------------------------------
(* The other chain.                                                        *)

RemoteSend(d, amount, memo) ==
    /\ Len(sent) + Len(received) < MaxPackets
    /\ memo = "good" \/ d \in Hooked
    /\ abroad[d] >= amount
    /\ abroad' = [abroad EXCEPT ![d] = @ - amount]
    /\ locked' = IF d \in Foreign THEN [locked EXCEPT ![d] = @ + amount] ELSE locked
    /\ received' = Append(received, [denom |-> d, amount |-> amount, memo |-> memo,
                                     here |-> "sent", settled |-> FALSE])
    /\ UNCHANGED <<assets, bank, admin, sent, history>>

RemoteRecv(i) ==
    LET p == sent[i]
    IN  /\ p.there = "sent"
        /\ \/ /\ p.denom \in Foreign => locked[p.denom] >= p.amount
              /\ abroad' = [abroad EXCEPT ![p.denom] = @ + p.amount]
              /\ locked' = IF p.denom \in Foreign
                           THEN [locked EXCEPT ![p.denom] = @ - p.amount] ELSE locked
              /\ sent' = [sent EXCEPT ![i].there = "ok"]
           \/ /\ UNCHANGED <<abroad, locked>>
              /\ sent' = [sent EXCEPT ![i].there = "error"]
    /\ UNCHANGED <<assets, bank, admin, received, history>>

\* The timeout of a packet passes before anybody delivers it.
Expire ==
    /\ \/ \E i \in DOMAIN sent :
            /\ sent[i].there = "sent"
            /\ sent' = [sent EXCEPT ![i].there = "expired"]
            /\ UNCHANGED received
       \/ \E i \in DOMAIN received :
            /\ received[i].here = "sent"
            /\ received' = [received EXCEPT ![i].here = "expired"]
            /\ UNCHANGED sent
    /\ UNCHANGED <<assets, bank, admin, abroad, locked, history>>

\* It learns what became of its packet and takes the coins of a failed one back.
RemoteSettle(i) ==
    LET p == received[i]
    IN  /\ ~p.settled /\ p.here # "sent"
        /\ received' = [received EXCEPT ![i].settled = TRUE]
        /\ IF p.here = "ok" THEN UNCHANGED <<abroad, locked>>
           ELSE /\ p.denom \in Foreign => locked[p.denom] >= p.amount
                /\ abroad' = [abroad EXCEPT ![p.denom] = @ + p.amount]
                /\ locked' = IF p.denom \in Foreign
                             THEN [locked EXCEPT ![p.denom] = @ - p.amount] ELSE locked
        /\ UNCHANGED <<assets, bank, admin, sent, history>>

Next ==
    \/ \E d \in Foreign, pair \in Decimals : init_mint(d, pair[1], pair[2])
    \/ \E amount \in Fees : set_fee_amount(amount)
    \/ \E signer \in Admins, new \in Admins : setup_fee_collector(signer, new)
    \/ \E signer \in Admins : accept_fee_collector_change(signer)
    \/ collect_fees
    \/ \E d \in Denoms, amount \in Amounts : send_transfer(d, amount)
    \/ \E i \in DOMAIN sent : on_acknowledgement_packet(i) \/ on_timeout_packet(i)
    \/ \E i \in DOMAIN received, relayed \in Relayed : on_recv_packet(i, relayed)
    \/ \E d \in Denoms, amount \in Amounts, memo \in {"good", "bad"} :
         RemoteSend(d, amount, memo)
    \/ \E i \in DOMAIN sent : RemoteRecv(i)
    \/ Expire
    \/ \E i \in DOMAIN received : RemoteSettle(i)

Spec == Init /\ [][Next]_vars

-----------------------------------------------------------------------------
(* Balances are balances: no account is overdrawn, no supply outgrows u64, *)
(* and what the decimals of a mint are, its units never exceed those of    *)
(* the other chain.                                                        *)
TypeOK ==
    /\ \A d \in Denoms : bank.purse[d] \in Nat /\ abroad[d] \in Nat
    /\ \A d \in Native : bank.escrow[d] \in Nat
    /\ \A d \in Foreign : locked[d] \in Nat /\ bank.purse[d] \in 0 .. U64Max
    /\ bank.fees \in Nat /\ bank.authority \in Nat
    /\ \A d \in DOMAIN assets : assets[d][2] <= assets[d][1]

\* The worth of a unit of a mint in coins of the other chain.
Unit(d) ==
    IF d \in DOMAIN assets /\ assets[d][2] < assets[d][1]
    THEN Ten ^ (assets[d][1] - assets[d][2]) ELSE 1

\* Coins of a packet that are on their way or on their way back.
SentInFlight(p, d) == If(p.denom = d /\ p.commitment /\ p.there # "ok", p.amount)
ReceivedInFlight(p, d) ==
    If(p.denom = d /\ ~p.settled /\ p.here \notin {"ok", "kept"}, p.amount)

InFlight(d) ==
    Total([i \in DOMAIN sent |-> SentInFlight(sent[i], d)])
      + Total([i \in DOMAIN received |-> ReceivedInFlight(received[i], d)])

\* Given here and yet returned to the sender there.
DoubledBy(p, d, unit) ==
    If(p.denom = d /\ p.settled /\ p.here = "kept", p.amount - (p.amount % unit))

Doubled(d) == Total([i \in DOMAIN received |-> DoubledBy(received[i], d, Unit(d))])

\* Remainders of amounts that do not divide into the units of the mint:
\* those that were not minted, less those that were sent without being burnt.
ReceivedDust(p, d, unit) ==
    If(p.denom = d /\ (p.here = "ok" \/ (p.here = "kept" /\ ~p.settled)), p.amount % unit)
SentDust(p, d, unit) ==
    If(p.denom = d /\ (p.commitment \/ p.there = "ok"), p.amount % unit)

Dust(d) ==
    Total([i \in DOMAIN received |-> ReceivedDust(received[i], d, Unit(d))])
      - Total([i \in DOMAIN sent |-> SentDust(sent[i], d, Unit(d))])

\* Foreign tokens here are worth exactly what is locked for them on the other
\* chain, but for coins in flight, for remainders of the conversion, which are
\* kept on receipt and given away on sending, and for coins of packets whose
\* hook failed after they were given.
VouchersAreBacked ==
    \A d \in Foreign :
        locked[d] = bank.purse[d] * Unit(d) + InFlight(d) + Dust(d) - Doubled(d)

\* Native coins in escrow are exactly those that circulate on the other chain
\* or are in flight, less those whose hook failed after they had been
\* released.  For SOL it is the mint authority that holds them.
EscrowCoversVouchers ==
    \A d \in Native :
        (IF d = WSOL THEN bank.authority ELSE bank.escrow[d])
          = abroad[d] + InFlight(d) - Doubled(d)

(* In whatever order packets of both directions are sent, received,        *)
(* refused, timed out and refunded, every token is backed by one on the    *)
(* other chain: foreign ones here by what is locked there, native ones     *)
(* there by what is in escrow here, and no account is overdrawn.           *)
TokensAreBacked == TypeOK /\ VouchersAreBacked /\ EscrowCoversVouchers

Failed(p) == p.commitment /\ p.there \in {"error", "expired"}

\* The coins of a failed packet can be given back: the escrow holds them unless
\* a hook that failed has doubled coins of this denomination, and they can be
\* minted again unless others were meanwhile and the supply would not fit.
CoinsReturn(p) ==
    \/ MayGive(p.denom, p.amount) /\ Allowed(Give(bank, p.denom, p.amount))
    \/ /\ p.denom \in Native
       /\ \E j \in DOMAIN received : received[j].denom = p.denom /\ received[j].here = "kept"
    \/ /\ p.denom \in Foreign
       /\ bank.purse[p.denom] + Converted(p.denom, p.amount) > U64Max

\* The fee account can pay the fee of today: it holds what the pending packets
\* have paid, unless this packet paid less than that, an earlier refund took
\* more than its packet had paid, or the fees of more packets were pending
\* when they were collected than the reserve covers.
FeeReturns(p) == bank.fees >= admin.fee \/ admin.fee > p.fee \/ history.drained

(* A packet that failed can be refunded, coins and fee, whatever other     *)
(* packets were sent, received and refunded since and whatever the fee     *)
(* collector did, but for the cases named above: the callbacks give the    *)
(* coins back by code that may return an error or abort (impls.rs), and    *)
(* take the fee from an account that others draw on (mod.rs, collect_fees).*)
RefundsGoThrough ==
    \A i \in DOMAIN sent : Failed(sent[i]) => CoinsReturn(sent[i]) /\ FeeReturns(sent[i])

(* The fee collector changes only to the key for which the present one     *)
(* has signed, and nobody has signed for another since: a proposal of a    *)
(* former collector or of anybody else is worth nothing.  The first one is *)
(* set by whoever comes first (lib.rs, setup_fee_collector and             *)
(* accept_fee_collector_change).  consent is the last proposal with its    *)
(* signer; unlike the proposal that is stored, it is never taken back.     *)
CollectorConsents ==
    [][admin'.fee_collector # admin.fee_collector =>
         \/ admin.fee_collector = NoKey
         \/ history.consent = <<admin.fee_collector, admin'.fee_collector>>]_vars
=============================================================================
