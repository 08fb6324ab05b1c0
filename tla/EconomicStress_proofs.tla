------------------------- MODULE EconomicStress_proofs -------------------------
(***************************************************************************)
(* What the integer arithmetic of EconomicStress guarantees, for every     *)
(* price and every configuration of natural numbers.                       *)
(***************************************************************************)
EXTENDS EconomicStress, TLAPS

Configs ==
  [initialCollateralSat : Nat, targetValueCents : Nat, liquidationThresholdBps : Nat,
   oracleCadenceDays : Nat \ {0}, oracleDelayDays : Nat, confirmationDelayBlocks : Nat,
   liquidationClaimBlocks : Nat, bridgeTimeoutBlocks : Nat, childRefundTimeoutBlocks : Nat,
   blocksPerDay : Nat, feeReserveSat : Nat, requiredRelayFeeSat : Nat]

Prices == Nat \ {0}

-------------------------------------------------------------------------------
(***************************************************************************)
(* Integer division.                                                       *)
(***************************************************************************)
LEMMA QuotientBounds ==
  ASSUME NEW a \in Nat, NEW b \in Nat, b > 0
  PROVE  /\ a \div b \in Nat
         /\ (a \div b) * b <= a
         /\ a < (a \div b + 1) * b
  OBVIOUS

\* A quotient rounded down is at least q exactly if the dividend is at least
\* q times the divisor.
LEMMA FloorIsExact ==
  ASSUME NEW a \in Nat, NEW b \in Nat, b > 0, NEW q \in Nat
  PROVE  a \div b >= q <=> a >= q * b
<1> DEFINE f == a \div b
<1>1. f \in Nat /\ f * b <= a /\ a < (f + 1) * b
  BY QuotientBounds
<1> HIDE DEF f
<1>2. ASSUME f >= q
      PROVE  a >= q * b
  <2>1. f * b >= q * b
    BY <1>1, <1>2
  <2> QED
    BY <1>1, <2>1
<1>3. ASSUME ~(f >= q)
      PROVE  ~(a >= q * b)
  <2>1. f + 1 <= q
    BY <1>1, <1>3
  <2>2. (f + 1) * b <= q * b
    BY <1>1, <2>1
  <2> QED
    BY <1>1, <2>2
<1> QED
  BY <1>2, <1>3 DEF f

\* A quotient rounded up is the least whose product covers the dividend.
LEMMA CeilIsLeast ==
  ASSUME NEW a \in Nat, NEW b \in Nat, b > 0
  PROVE  /\ ceilDiv(a, b) \in Nat
         /\ \A q \in Nat : q >= ceilDiv(a, b) <=> q * b >= a
<1>1. CASE a = 0
  <2>1. ceilDiv(a, b) = 0
    BY <1>1 DEF ceilDiv
  <2>2. \A q \in Nat : q * b >= 0
    OBVIOUS
  <2> QED
    BY <1>1, <2>1, <2>2
<1>2. CASE a # 0
  <2> DEFINE f == (a - 1) \div b
  <2>1. a - 1 \in Nat
    BY <1>2
  <2>2. f \in Nat
    BY <2>1, QuotientBounds
  <2>3. ceilDiv(a, b) = f + 1
    BY <1>2 DEF ceilDiv
  <2>4. \A q \in Nat : f >= q <=> a - 1 >= q * b
    BY <2>1, FloorIsExact
  <2> HIDE DEF f
  <2>5. ASSUME NEW q \in Nat
        PROVE  q >= f + 1 <=> q * b >= a
    <3>1. q * b \in Nat
      OBVIOUS
    <3>2. f >= q <=> a - 1 >= q * b
      BY <2>4
    <3> QED
      BY <2>2, <3>1, <3>2
  <2> QED
    BY <2>2, <2>3, <2>5
<1> QED
  BY <1>1, <1>2

-------------------------------------------------------------------------------
(***************************************************************************)
(* The waterfall.                                                          *)
(***************************************************************************)
\* The claim is the least amount worth its target, or all there is.
LEMMA ClaimIsLeast ==
  ASSUME NEW collateral \in Nat, NEW target \in Nat, NEW price \in Prices
  PROVE  /\ stableClaimSatFor(collateral, target, price) \in 0 .. collateral
         /\ \A q \in Nat : q < stableClaimSatFor(collateral, target, price)
                             => q * price < target * SATOSHIS_PER_BTC
         /\ \/ stableClaimSatFor(collateral, target, price) * price >= target * SATOSHIS_PER_BTC
            \/ /\ stableClaimSatFor(collateral, target, price) = collateral
               /\ collateral * price < target * SATOSHIS_PER_BTC
<1> DEFINE debt == target * SATOSHIS_PER_BTC
           needed == ceilDiv(debt, price)
           claim == stableClaimSatFor(collateral, target, price)
<1>1. debt \in Nat /\ price \in Nat /\ price > 0
  BY DEF SATOSHIS_PER_BTC, Prices
<1>2. needed \in Nat /\ \A q \in Nat : q >= needed <=> q * price >= debt
  BY <1>1, CeilIsLeast
<1>3. claim = IF needed < collateral THEN needed ELSE collateral
  BY DEF stableClaimSatFor
<1> HIDE DEF debt, needed, claim
<1>4. claim \in 0 .. collateral /\ claim <= needed
  BY <1>2, <1>3
<1>5. ASSUME NEW q \in Nat, q < claim
      PROVE  q * price < debt
  <2>1. ~(q >= needed) /\ q * price \in Nat
    BY <1>1, <1>2, <1>4, <1>5
  <2> QED
    BY <1>1, <1>2, <2>1
<1>6. claim * price >= debt \/ (claim = collateral /\ collateral * price < debt)
  <2>1. CASE claim = needed
    BY <1>2, <2>1
  <2>2. CASE claim = collateral /\ ~(collateral >= needed)
    <3>1. ~(collateral * price >= debt) /\ collateral * price \in Nat
      BY <1>1, <1>2, <2>2
    <3> QED
      BY <1>1, <2>2, <3>1
  <2> QED
    BY <1>2, <1>3, <2>1, <2>2
<1> QED
  BY <1>4, <1>5, <1>6 DEF claim, debt

\* The amounts of a configuration are natural numbers.
LEMMA AmountsAreNatural ==
  ASSUME NEW config \in Configs
  PROVE  /\ config.initialCollateralSat \in Nat /\ config.targetValueCents \in Nat
         /\ config.requiredRelayFeeSat \in Nat /\ config.liquidationThresholdBps \in Nat
         /\ effectiveCollateralSat(config) \in Nat
         /\ effectiveCollateralSat(config) <= config.initialCollateralSat
         /\ config.requiredRelayFeeSat <= config.initialCollateralSat
              => effectiveCollateralSat(config)
                   = config.initialCollateralSat - config.requiredRelayFeeSat
<1>1. /\ config.initialCollateralSat \in Nat /\ config.targetValueCents \in Nat
      /\ config.requiredRelayFeeSat \in Nat /\ config.liquidationThresholdBps \in Nat
  BY DEF Configs
<1>2. effectiveCollateralSat(config)
        = IF config.initialCollateralSat - config.requiredRelayFeeSat < 0 THEN 0
          ELSE config.initialCollateralSat - config.requiredRelayFeeSat
  BY DEF effectiveCollateralSat, nonNegative
<1> QED
  BY <1>1, <1>2

(***************************************************************************)
(* No satoshi is paid that is not there: the claim and the residual share  *)
(* the collateral that the relay fee leaves, neither is negative, and the  *)
(* collateral was all of it.                                               *)
(***************************************************************************)
THEOREM WaterfallConservesCollateral ==
  ASSUME NEW config \in Configs, NEW price \in Prices
  PROVE  /\ stableClaimSat(config, price) \in Nat
         /\ residualCollateralSat(config, price) \in Nat
         /\ stableClaimSat(config, price) + residualCollateralSat(config, price)
              = effectiveCollateralSat(config)
         /\ effectiveCollateralSat(config) <= config.initialCollateralSat
<1>1. stableClaimSat(config, price) \in 0 .. effectiveCollateralSat(config)
  BY AmountsAreNatural, ClaimIsLeast DEF stableClaimSat
<1>2. effectiveCollateralSat(config) \in Nat
      /\ effectiveCollateralSat(config) <= config.initialCollateralSat
  BY AmountsAreNatural
<1> QED
  BY <1>1, <1>2 DEF residualCollateralSat

(***************************************************************************)
(* Solvency is reported exactly where it is: though the claim is rounded   *)
(* up and its value down, the holder has a shortfall if and only if the    *)
(* collateral is worth less than the target.                               *)
(***************************************************************************)
THEOREM ShortfallIsExact ==
  ASSUME NEW config \in Configs, NEW price \in Prices
  PROVE  shortfallCents(config, price) = 0
           <=> effectiveCollateralSat(config) * price
                 >= config.targetValueCents * SATOSHIS_PER_BTC
<1> DEFINE claim == stableClaimSat(config, price)
           target == config.targetValueCents
           effective == effectiveCollateralSat(config)
           paid == paidValueCents(config, price)
<1>1. target \in Nat /\ effective \in Nat /\ price \in Nat /\ price > 0
  BY AmountsAreNatural DEF Prices
<1>2. /\ claim \in 0 .. effective
      /\ \/ claim * price >= target * SATOSHIS_PER_BTC
         \/ claim = effective /\ effective * price < target * SATOSHIS_PER_BTC
  BY <1>1, ClaimIsLeast DEF stableClaimSat
<1>3. paid = (claim * price) \div SATOSHIS_PER_BTC
  BY DEF paidValueCents
<1>4. shortfallCents(config, price) = IF target - paid < 0 THEN 0 ELSE target - paid
  BY DEF shortfallCents, nonNegative
<1> HIDE DEF claim, target, effective, paid
<1>5. SATOSHIS_PER_BTC \in Nat /\ SATOSHIS_PER_BTC > 0
  BY DEF SATOSHIS_PER_BTC
<1>6. claim * price \in Nat
  BY <1>1, <1>2
<1>7. paid \in Nat /\ (paid >= target <=> claim * price >= target * SATOSHIS_PER_BTC)
  BY <1>1, <1>3, <1>5, <1>6, QuotientBounds, FloorIsExact
<1>8. shortfallCents(config, price) = 0 <=> paid >= target
  BY <1>1, <1>4, <1>7
<1>9. claim * price <= effective * price
  BY <1>1, <1>2
<1>10. target * SATOSHIS_PER_BTC \in Nat /\ effective * price \in Nat
  BY <1>1, <1>5
<1> QED
  BY <1>2, <1>6, <1>7, <1>8, <1>9, <1>10 DEF target, effective

(***************************************************************************)
(* The holder is not overpaid: one satoshi less of the claim would not be  *)
(* worth the target.                                                       *)
(***************************************************************************)
THEOREM ClaimIsNotOverpaid ==
  ASSUME NEW config \in Configs, NEW price \in Prices, stableClaimSat(config, price) > 0
  PROVE  (stableClaimSat(config, price) - 1) * price
           < config.targetValueCents * SATOSHIS_PER_BTC
<1>1. stableClaimSat(config, price) \in 0 .. effectiveCollateralSat(config)
      /\ effectiveCollateralSat(config) \in Nat
  BY AmountsAreNatural, ClaimIsLeast DEF stableClaimSat
<1>2. stableClaimSat(config, price) - 1 \in Nat
      /\ stableClaimSat(config, price) - 1 < stableClaimSat(config, price)
  BY <1>1
<1> QED
  BY <1>2, AmountsAreNatural, ClaimIsLeast DEF stableClaimSat

-------------------------------------------------------------------------------
(***************************************************************************)
(* The path.                                                               *)
(***************************************************************************)
\* A price that does not trigger leaves the collateral above the threshold.
LEMMA UntriggeredIsAbove ==
  ASSUME NEW config \in Configs, NEW price \in Prices, ~Triggers(config, price)
  PROVE  config.initialCollateralSat * price * 10000
           >= (config.liquidationThresholdBps + 1)
                * (config.targetValueCents * SATOSHIS_PER_BTC)
<1> DEFINE worth == config.initialCollateralSat * price * 10000
           debt == config.targetValueCents * SATOSHIS_PER_BTC
           threshold == config.liquidationThresholdBps
<1>1. threshold \in Nat /\ config.targetValueCents \in Nat /\ worth \in Nat
  BY AmountsAreNatural DEF Prices
<1>2. ~(collateralRatioBps(config.initialCollateralSat, price, config.targetValueCents)
          <= threshold)
  BY DEF Triggers
<1>3. config.targetValueCents > 0 /\ ~(worth \div debt <= threshold)
  BY <1>1, <1>2 DEF collateralRatioBps
<1>4. debt \in Nat /\ debt > 0
  BY <1>1, <1>3 DEF SATOSHIS_PER_BTC
<1> HIDE DEF worth, debt, threshold
<1>5. worth \div debt \in Nat
  BY <1>1, <1>4, QuotientBounds
<1>6. worth \div debt >= threshold + 1
  BY <1>1, <1>3, <1>5
<1>7. worth >= (threshold + 1) * debt
  BY <1>1, <1>4, <1>6, FloorIsExact
<1> QED
  BY <1>7 DEF worth, debt, threshold

(***************************************************************************)
(* The liquidation is not too late for a price it does not react to: with  *)
(* a threshold that leaves room for the relay fee, a position settled at a *)
(* price that does not trigger pays its holder in full.  With the default  *)
(* threshold of 15000 there is room for a third of the collateral.         *)
(***************************************************************************)
THEOREM UntriggeredPriceIsSolvent ==
  ASSUME NEW config \in Configs, NEW price \in Prices, ~Triggers(config, price),
         config.requiredRelayFeeSat <= config.initialCollateralSat,
         config.initialCollateralSat * 10000
           <= (config.initialCollateralSat - config.requiredRelayFeeSat)
                * config.liquidationThresholdBps
  PROVE  shortfallCents(config, price) = 0
<1> DEFINE collateral == config.initialCollateralSat
           threshold == config.liquidationThresholdBps
           effective == effectiveCollateralSat(config)
           debt == config.targetValueCents * SATOSHIS_PER_BTC
<1>1. /\ collateral \in Nat /\ threshold \in Nat /\ effective \in Nat
      /\ price \in Nat /\ price > 0 /\ debt \in Nat
  BY AmountsAreNatural DEF Prices, SATOSHIS_PER_BTC
<1>2. collateral * 10000 <= effective * threshold
  BY AmountsAreNatural
<1>3. collateral * price * 10000 >= (threshold + 1) * debt
  BY UntriggeredIsAbove
<1> HIDE DEF collateral, threshold, effective, debt
<1>4. SUFFICES ASSUME effective * price < debt
               PROVE  FALSE
  <2>1. effective * price \in Nat
    BY <1>1
  <2> QED
    BY <1>1, <1>4, <2>1, ShortfallIsExact DEF effective, debt
<1>5. (collateral * 10000) * price <= (effective * threshold) * price
  BY <1>1, <1>2
<1>6. (effective * threshold) * price = threshold * (effective * price)
  BY <1>1
<1>7. threshold * (effective * price) <= threshold * debt
  BY <1>1, <1>4
<1>8. (threshold + 1) * debt = threshold * debt + debt
  BY <1>1
<1>9. collateral * price * 10000 = (collateral * 10000) * price
  BY <1>1
<1>10. debt <= 0
  BY <1>1, <1>3, <1>5, <1>6, <1>7, <1>8, <1>9
<1>11. effective * price >= 0
  BY <1>1
<1> QED
  BY <1>1, <1>4, <1>10, <1>11

(***************************************************************************)
(* A path on which nothing triggers ends solvent: the holder is paid in    *)
(* full at its last price, and reports no shortfall.                       *)
(***************************************************************************)
THEOREM UntriggeredPathIsSolvent ==
  ASSUME NEW config \in Configs, NEW prices \in Seq(Prices), prices # <<>>,
         NEW expectedClass, ~triggered(config, prices),
         config.requiredRelayFeeSat <= config.initialCollateralSat,
         config.initialCollateralSat * 10000
           <= (config.initialCollateralSat - config.requiredRelayFeeSat)
                * config.liquidationThresholdBps
  PROVE  /\ shortfallCents(config, settlementPrice(config, prices)) = 0
         /\ "holder_shortfall" \notin failureCauses(config, prices, expectedClass)
<1>1. Len(prices) \in DOMAIN prices
  OBVIOUS
<1>2. settlementPrice(config, prices) = prices[Len(prices)]
  BY DEF settlementPrice, settlementIndex
<1>3. prices[Len(prices)] \in Prices /\ ~Triggers(config, prices[Len(prices)])
  BY <1>1 DEF triggered
<1>4. shortfallCents(config, settlementPrice(config, prices)) = 0
  BY <1>2, <1>3, UntriggeredPriceIsSolvent
<1>5. ~(shortfallCents(config, settlementPrice(config, prices)) > 0)
  BY <1>4
<1>6. "holder_shortfall" \notin failureCauses(config, prices, expectedClass)
  BY <1>5 DEF failureCauses
<1> QED
  BY <1>4, <1>6

===============================================================================
