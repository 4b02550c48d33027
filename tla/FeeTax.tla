------------------------------- MODULE FeeTax -------------------------------
(***************************************************************************)
(* The ante handler of custom/auth/ante together with the treasury that it *)
(* feeds: the mempool of a node (CheckTx, recheck after a commit, loss on  *)
(* a restart), the fee and the tax of a delivered transaction, and the     *)
(* admission of oracle transactions, which need no fee.                    *)
(*                                                                         *)
(* A transaction has messages Msgs(tx) and offers the coins Fee(tx); a     *)
(* message is [kind, parties, principals, validator, allowed, nested].     *)
(* The messages inside an authz.MsgExec are listed with nested = TRUE, as  *)
(* taxes are computed through any depth of MsgExec and every other rule    *)
(* looks at the top level only.  Funds, signatures and the outcome of the  *)
(* messages are external: where they decide, the model takes either way.   *)
(***************************************************************************)
EXTENDS Treasury, Sequences

CONSTANTS
    Txs,               \* transactions that users and feeders send
    Msgs(_),           \* the messages of a transaction
    Fee(_),            \* the fee it offers: denomination -> coins
    Validators,
    Addresses,         \* addresses that may be exempt from the tax
    Contracts,         \* those of smart contracts
    MinGasFee(_),      \* ceil(MinGasPrices * gas), per denomination
    BurnSplitRate,     \* part of a tax that stays with the fee collector
    MaxCollected       \* bound: coins the fee collector gets in a block

OracleKinds == {"prevote", "vote"}

Slots == OracleKinds \X Validators

ASSUME FeeTaxConstants ==
    /\ \A d \in Denoms : MinGasFee(d) \in Nat
    /\ BurnSplitRate \in 0..One
    /\ \A tx \in Txs :
        /\ Fee(tx) \in [Denoms -> Nat]
        /\ Len(Msgs(tx)) \in Nat \ {0}
        /\ \A i \in 1..Len(Msgs(tx)) : LET m == Msgs(tx)[i] IN
            /\ m.kind \in OracleKinds \cup {"send", "execute", "funds", "other"}
            /\ m.kind \in OracleKinds => m.validator \in Validators
            /\ m.parties \subseteq Addresses
            /\ Len(m.principals) \in Nat
            /\ \A k \in 1..Len(m.principals) : m.principals[k] \in [Denoms -> Nat]

VARIABLES
    collector,         \* coins of the fee collector
    exempt,            \* the burn tax exemption list
    mempool,           \* per transaction, the heights of its accepted CheckTx
    lastSubmitted,     \* oraclePrevoteMap and oracleVoteMap, in memory
    checkHeight,       \* height of the context CheckTx runs in
    ending,            \* the transactions of the block are done
    taxed              \* history: taxes of delivered transactions

node == <<mempool, lastSubmitted, checkHeight>>
anteVars == <<collector, exempt, ending, node, taxed>>

NoHeight == -1

NothingSubmitted == [s \in Slots |-> NoHeight]

EmptyMempool == [tx \in Txs |-> {}]

AnteInit ==
    /\ Init
    /\ collector = NoCoins
    /\ exempt = {}
    /\ mempool = EmptyMempool
    /\ lastSubmitted = NothingSubmitted
    /\ checkHeight = 0
    /\ ending = FALSE
    /\ taxed = NoCoins

-----------------------------------------------------------------------------
\* Taxes of a transaction

CapTax(due, cap) == IF due > cap THEN cap ELSE due

\* computeTax of one coin of a principal
ComputeTax(amount, d) ==
    IF taxRate = 0 THEN 0 ELSE CapTax(TruncateInt(DecMul(NewDec(amount), taxRate)), GetTaxCap(d))

HasBurnTaxExemptionAddress(parties) == parties \subseteq exempt

HasBurnTaxExemptionContract(parties) == parties \subseteq Contracts \cap exempt

\* A transfer is exempt when all its parties are, a call when its contract is
Taxable(m) ==
    \/ m.kind = "send" /\ ~HasBurnTaxExemptionAddress(m.parties)
    \/ m.kind = "execute" /\ ~HasBurnTaxExemptionContract(m.parties)
    \/ m.kind = "funds"

MsgTax(m, d) ==
    IF Taxable(m)
    THEN Total([i \in 1..Len(m.principals) |-> ComputeTax(m.principals[i][d], d)])
    ELSE 0

\* FilterMsgAndComputeTax
TxTaxes(tx) == [d \in Denoms |-> Total([i \in 1..Len(Msgs(tx)) |-> MsgTax(Msgs(tx)[i], d)])]

IsZero(c) == \A d \in Denoms : c[d] = 0

-----------------------------------------------------------------------------
\* checkTxFee

IsOracleMsg(m) == m.kind \in OracleKinds /\ ~m.nested

IsOracleTx(tx) == \A i \in 1..Len(Msgs(tx)) : IsOracleMsg(Msgs(tx)[i])

\* Mutant: the tax is not part of what a transaction has to offer
RequiredGasFees(tx) == [d \in Denoms |-> MinGasFee(d)]

RequiredFees(tx) == [d \in Denoms |-> MinGasFee(d) + TxTaxes(tx)[d]]

\* sdk.Coins.IsAnyGTE
IsAnyGTE(fee, required) ==
    \E d \in Denoms : fee[d] > 0 /\ required[d] > 0 /\ fee[d] >= required[d]

EnoughFee(tx) ==
    IsOracleTx(tx) \/ IsZero(RequiredFees(tx)) \/ IsAnyGTE(Fee(tx), RequiredFees(tx))

-----------------------------------------------------------------------------
\* CheckOracleSpamming, under its mutex

\* The oracle messages it gets to see: it returns at the first other message
Inspected(tx) == {i \in 1..Len(Msgs(tx)) : \A j \in 1..i : IsOracleMsg(Msgs(tx)[j])}

SlotOf(m) == <<m.kind, m.validator>>

Refused(tx, i) ==
    \/ ~Msgs(tx)[i].allowed
    \/ lastSubmitted[SlotOf(Msgs(tx)[i])] = checkHeight
    \/ \E j \in 1..(i - 1) : SlotOf(Msgs(tx)[j]) = SlotOf(Msgs(tx)[i])

PassesSpamming(tx) == \A i \in Inspected(tx) : ~Refused(tx, i)

\* Mutant: only the first message of a transaction is remembered
MarkedSlotsFirst(tx) ==
    {SlotOf(Msgs(tx)[i]) : i \in {i \in Inspected(tx) : i = 1 /\ ~Refused(tx, i)}}

\* The slots that are marked before a message is refused, if one is
MarkedSlots(tx) ==
    {SlotOf(Msgs(tx)[i]) : i \in {i \in Inspected(tx) : \A j \in 1..i : ~Refused(tx, j)}}

Mark(tx) ==
    lastSubmitted' = [s \in Slots |-> IF s \in MarkedSlots(tx) THEN checkHeight ELSE lastSubmitted[s]]

-----------------------------------------------------------------------------
InBlock == Running /\ ~ending

\* A transaction reaches the node.  The marks stay when a later check fails.
CheckTx(tx) ==
    /\ InBlock
    /\ Mark(tx)
    /\ \/ /\ PassesSpamming(tx)
          /\ EnoughFee(tx)
          /\ mempool' = [mempool EXCEPT ![tx] = @ \cup {checkHeight}]
       \/ UNCHANGED mempool
    /\ UNCHANGED <<vars, collector, exempt, ending, checkHeight, taxed>>

\* BurnTaxSplit: what is left of a tax for the burn account
BurnShare(t) == t - RoundInt(BurnSplitRate * t)

\* checkDeductFee of a transaction in a block, when its payer has the fee.
\* Its messages may fail after that: the ante handler's writes stay.
DeliverTx(tx, h) ==
    LET paysTax == ~IsZero(Fee(tx)) /\ ~IsZero(TxTaxes(tx))
        burned == [d \in Denoms |-> IF paysTax THEN BurnShare(TxTaxes(tx)[d]) ELSE 0]
    IN
    /\ InBlock
    /\ h \in mempool[tx]
    /\ \A d \in Denoms : collector[d] + Fee(tx)[d] <= MaxCollected
    /\ \A d \in Denoms : collector[d] + Fee(tx)[d] >= burned[d]
    /\ collector' = [d \in Denoms |-> collector[d] + Fee(tx)[d] - burned[d]]
    /\ burnAccount' = [d \in Denoms |-> burnAccount[d] + burned[d]]
    /\ IF paysTax
       THEN /\ RecordEpochTaxProceeds(TxTaxes(tx))
            /\ taxed' = [d \in Denoms |-> taxed[d] + TxTaxes(tx)[d]]
       ELSE UNCHANGED <<taxProceeds, taxed>>
    /\ mempool' = [mempool EXCEPT ![tx] = @ \ {h}]
    /\ UNCHANGED <<height, halted, economy, policies, levers, indicators,
                   exempt, ending, lastSubmitted, checkHeight>>

\* A transaction of a block fails in the ante handler, without effect
FailTx(tx, h) ==
    /\ InBlock
    /\ h \in mempool[tx]
    /\ mempool' = [mempool EXCEPT ![tx] = @ \ {h}]
    /\ UNCHANGED <<vars, collector, exempt, ending, lastSubmitted, checkHeight, taxed>>

\* The end of a block begins with the proposals that governance executes:
\* they edit the exemption list and the policies
GovEndBlock ==
    /\ InBlock
    /\ ending' = TRUE
    /\ exempt' \in SUBSET Addresses
    /\ ChangePolicy
    /\ UNCHANGED <<collector, node, taxed>>

\* The treasury ends the block; then come its commit with the recheck of the
\* mempool (which skips CheckOracleSpamming) and, when the next block begins,
\* the distribution of the collected fees.  (The oracle, whose turn is between
\* governance and the treasury, and the panics of the treasury are in Treasury,
\* see Tally and Halt: taxes in SDR need no rate.)
CommitBlock ==
    /\ ending
    /\ ending' = FALSE
    /\ EndBlock
    /\ collector' = NoCoins
    /\ checkHeight' = height
    /\ UNCHANGED <<exempt, lastSubmitted, taxed>>
    /\ mempool' = [tx \in Txs |-> IF EnoughFee(tx)' THEN mempool[tx] ELSE {}]

\* The node restarts: what it holds in memory is gone
Restart ==
    /\ InBlock
    /\ mempool' = EmptyMempool
    /\ lastSubmitted' = NothingSubmitted
    /\ checkHeight' = 0
    /\ UNCHANGED <<vars, collector, exempt, ending, taxed>>

AnteNext ==
    \/ \E tx \in Txs : CheckTx(tx)
    \/ \E tx \in Txs : \E h \in mempool[tx] : DeliverTx(tx, h) \/ FailTx(tx, h)
    \/ GovEndBlock
    \/ CommitBlock
    \/ Restart

AnteSpec == AnteInit /\ [][AnteNext]_<<vars, anteVars>>

-----------------------------------------------------------------------------
\* Every tax of a delivered transaction is counted in the tax rewards of one
\* epoch or waits in the proceeds of the current one: never lost and never
\* counted twice between RecordEpochTaxProceeds and UpdateIndicators.  (For
\* taxes in SDR, which need no exchange rate.)
TaxesCountedOnce ==
    Total(TR) + NewDec(taxProceeds[SDR]) = NewDec(taxed[SDR])

\* No transaction that a mempool admitted takes more out of the fee collector
\* than it pays in, also when the tax rate, a cap or the exemption list has
\* changed after its CheckTx: the recheck after each commit sees to that.
FeeCoversBurn ==
    [][height' = height => \A d \in Denoms : collector'[d] >= collector[d]]_<<vars, anteVars>>

\* The oracle messages of a transaction, as slots of a height
SlotsOf(tx) == {SlotOf(Msgs(tx)[i]) : i \in 1..Len(Msgs(tx))}

\* Of the transactions that pay no fee because all their messages are oracle
\* messages, a node admits at most one per validator, kind and height, also
\* around a restart.
FreeOncePerHeight ==
    \A t, u \in Txs :
        t # u /\ mempool[t] \cap mempool[u] # {} /\ IsOracleTx(t) /\ IsOracleTx(u) =>
            SlotsOf(t) \cap SlotsOf(u) = {}
=============================================================================
