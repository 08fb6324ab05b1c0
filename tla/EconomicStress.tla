---------------------------- MODULE EconomicStress ----------------------------
(***************************************************************************)
(* The liquidation of a collateralized claim over a path of prices, as     *)
(* runStressScenario of testnet/src/economic-stress.ts computes it:        *)
(* amounts are integers in satoshis and cents, prices cents per bitcoin.   *)
(* A path is the sequence of its closing prices.                           *)
(***************************************************************************)
EXTENDS Integers, Sequences

SATOSHIS_PER_BTC == 100000000

nonNegative(value) == IF value < 0 THEN 0 ELSE value

ceilDiv(numerator, denominator) ==
  IF numerator = 0 THEN 0 ELSE (numerator - 1) \div denominator + 1

\* The value of the collateral in ten-thousandths of the claim; a claim of
\* nothing counts as not covered.
collateralRatioBps(collateralSat, priceCents, targetValueCents) ==
  IF targetValueCents <= 0 THEN 0
  ELSE (collateralSat * priceCents * 10000) \div (targetValueCents * SATOSHIS_PER_BTC)

-------------------------------------------------------------------------------
(***************************************************************************)
(* When: the first price at which the ratio is down to the threshold, and  *)
(* the price the oracle's delay makes of it.                               *)
(***************************************************************************)
Triggers(config, priceCents) ==
  collateralRatioBps(config.initialCollateralSat, priceCents, config.targetValueCents)
    <= config.liquidationThresholdBps

triggered(config, prices) == \E i \in DOMAIN prices : Triggers(config, prices[i])

triggerIndex(config, prices) ==
  CHOOSE i \in DOMAIN prices :
    Triggers(config, prices[i]) /\ \A j \in 1 .. i - 1 : ~Triggers(config, prices[j])

settlementIndex(config, prices) ==
  LET delayed == triggerIndex(config, prices)
                   + ceilDiv(config.oracleDelayDays, config.oracleCadenceDays)
  IN  IF triggered(config, prices) /\ delayed < Len(prices) THEN delayed ELSE Len(prices)

settlementPrice(config, prices) == prices[settlementIndex(config, prices)]

actionDelayBlocks(config) ==
  config.oracleDelayDays * config.blocksPerDay
    + config.confirmationDelayBlocks + config.liquidationClaimBlocks

timeoutOrderingValid(config) ==
  /\ actionDelayBlocks(config) < config.bridgeTimeoutBlocks
  /\ config.bridgeTimeoutBlocks < config.childRefundTimeoutBlocks

-------------------------------------------------------------------------------
(***************************************************************************)
(* How much: the relay fee comes out of the collateral, the claim takes    *)
(* the least amount that is worth its target, as far as there is as much,  *)
(* and the rest is the residual.                                           *)
(***************************************************************************)
stableClaimSatFor(collateralSat, targetValueCents, priceCents) ==
  LET needed == ceilDiv(targetValueCents * SATOSHIS_PER_BTC, priceCents)
  IN  IF needed < collateralSat THEN needed ELSE collateralSat

feeReserveSufficient(config) == config.feeReserveSat >= config.requiredRelayFeeSat

effectiveCollateralSat(config) ==
  nonNegative(config.initialCollateralSat - config.requiredRelayFeeSat)

stableClaimSat(config, priceCents) ==
  stableClaimSatFor(effectiveCollateralSat(config), config.targetValueCents, priceCents)

residualCollateralSat(config, priceCents) ==
  effectiveCollateralSat(config) - stableClaimSat(config, priceCents)

paidValueCents(config, priceCents) ==
  (stableClaimSat(config, priceCents) * priceCents) \div SATOSHIS_PER_BTC

shortfallCents(config, priceCents) ==
  nonNegative(config.targetValueCents - paidValueCents(config, priceCents))

-------------------------------------------------------------------------------
failureCauses(config, prices, expectedClass) ==
  {cause \in {"liquidation_not_triggered", "fee_reserve_shortfall", "timeout_race",
              "holder_shortfall"} :
     CASE cause = "liquidation_not_triggered" ->
            ~triggered(config, prices) /\ expectedClass # "solvent"
       [] cause = "fee_reserve_shortfall" -> ~feeReserveSufficient(config)
       [] cause = "timeout_race" -> ~timeoutOrderingValid(config)
       [] cause = "holder_shortfall" ->
            shortfallCents(config, settlementPrice(config, prices)) > 0}

pass(config, prices, expectedClass) == failureCauses(config, prices, expectedClass) = {}

===============================================================================
