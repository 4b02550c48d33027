------------------------------ MODULE MCFeeTax ------------------------------
(***************************************************************************)
(* Instance of FeeTax for TLC: a transfer that offers enough for the tax   *)
(* of the first epoch but not of a later one, partly wrapped in an         *)
(* authz.MsgExec, and oracle transactions that share a validator.          *)
(***************************************************************************)
EXTENDS FeeTax, TLC

MCTerra == {SDR}

MCRates == {SDR :> 100}

Policy(lo, hi, step, cap) ==
    [rateMin |-> lo, rateMax |-> hi, changeRateMax |-> step, cap |-> cap]

MCTaxPolicies == {Policy(5, 20, 8, 3)}

MCRewardPolicies == {Policy(10, 50, 15, 0)}

Coins(n) == SDR :> n @@ Luna :> 0

Transfer(kind, parties, principals, nested) ==
    [kind |-> kind, parties |-> parties, principals |-> principals,
     validator |-> "none", allowed |-> TRUE, nested |-> nested]

OracleMsg(kind, v, ok, nested) ==
    [kind |-> kind, parties |-> {}, principals |-> << >>,
     validator |-> v, allowed |-> ok, nested |-> nested]

MCTxs == {"transfer", "voteAndPrevote", "prevote", "notFeeder"}

MsgTable ==
    "transfer" :> <<Transfer("send", {"dex"}, <<Coins(30), Coins(90)>>, FALSE),
                    Transfer("execute", {"dex"}, <<Coins(30)>>, TRUE)>> @@
    "voteAndPrevote" :> <<OracleMsg("vote", "v", TRUE, FALSE), OracleMsg("prevote", "v", TRUE, FALSE)>> @@
    "prevote" :> <<OracleMsg("prevote", "v", TRUE, FALSE)>> @@
    "notFeeder" :> <<OracleMsg("prevote", "v", TRUE, FALSE), OracleMsg("vote", "v", FALSE, FALSE)>>

MCMsgs(tx) == MsgTable[tx]

FeeTable ==
    "transfer" :> Coins(6) @@ "voteAndPrevote" :> Coins(0) @@
    "prevote" :> Coins(2) @@ "notFeeder" :> Coins(0)

MCFee(tx) == FeeTable[tx]

MCMinGasFee(d) == IF d = SDR THEN 1 ELSE 0
=============================================================================
