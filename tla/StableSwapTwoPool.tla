-------------------------- MODULE StableSwapTwoPool --------------------------
(***************************************************************************)
(* The pool that exchanges bAZERO for the native coin of the L2            *)
(* (StableSwapTwoPool.sol).  Liquidity providers deposit both coins for    *)
(* pool tokens; the invariant D of the balances, found by Newton's method  *)
(* on integers, prices exchanges and shares.  Of every fee a part goes to  *)
(* the providers and a part, the coins held beyond the recorded balances,  *)
(* to the owner.                                                           *)
(*                                                                         *)
(* Abstractions.  RATES is PRECISION times PRECISION_MUL, so PRECISION     *)
(* cancels out without a remainder.  All providers are one, whose pool     *)
(* tokens are the supply.  A call that reverts is no step; arithmetic that *)
(* underflows or divides by zero yields Revert.  Calls are nonReentrant.   *)
(* set_native_gas and a coin transfer that fails are left out: the one     *)
(* decides about the other, and the other reverts.                         *)
(***************************************************************************)
EXTENDS Integers, FiniteSets, FiniteSetsExt

CONSTANTS
    PRECISION_MUL,        \* decimals of each coin that are missing to MAX_DECIMAL, as a factor
    FEE_DENOMINATOR, MAX_FEE, MAX_ADMIN_FEE,
    MAX_AMPLIFICATION_COEFFICIENT, MAX_AMPLIFICATION_COEFFICIENT_CHANGE,
    ADMIN_ACTIONS_DELAY, MIN_RAMP_TIME, KILL_DEADLINE_DT,
    CoinAmounts,          \* amounts of a coin in a call
    Shares,               \* amounts of pool tokens in a call
    MinAmounts, MaxBurns, \* slippage limits of a call
    Native,               \* the native coin; the other one is bAZERO
    Fees,                 \* pairs of fee and admin_fee the owner considers
    Coefficients,         \* amplification coefficients the owner considers
    MaxHeld,              \* bound on the coins in the pool
    MaxTime,              \* bound on time
    MaxActs,              \* bound on the owner's acts
    Rounding              \* what integer arithmetic may cost, in units of D

Coins == {0, 1}
OtherCoin(i) == 1 - i
Revert == -1

ASSUME PoolAssumption ==
    /\ PRECISION_MUL \in [Coins -> Nat \ {0}]
    /\ FEE_DENOMINATOR \in Nat \ {0}
    /\ MAX_FEE \in 0 .. FEE_DENOMINATOR - 1 /\ MAX_ADMIN_FEE \in 0 .. FEE_DENOMINATOR
    /\ ADMIN_ACTIONS_DELAY \in Nat /\ MIN_RAMP_TIME \in Nat
    /\ CoinAmounts \subseteq Nat /\ Shares \subseteq Nat /\ Native \in Coins
    /\ Fees \subseteq Nat \X Nat
    /\ Coefficients \subseteq Nat \ {0}

VARIABLES
    balances,   \* what the pool accounts for
    held,       \* what it owns
    token_supply,  \* of pool tokens
    fees,       \* fee and admin_fee
    coefficient,  \* initial and future amplification coefficient and their times
    now,        \* block.timestamp
    admin_actions_deadline,
    future_fees,  \* future_fee and future_admin_fee
    is_killed,
    notice,     \* log: the fees announced and not revoked, with the time; or none
    acts        \* number of the owner's acts

money == <<balances, held, token_supply>>
owner == <<coefficient, admin_actions_deadline, is_killed, notice, acts>>
poolVars == <<money, fees, owner, future_fees, now>>

NoNotice == [fees |-> <<0, 0>>, at |-> Revert]

PoolInit ==
    /\ balances = [i \in Coins |-> 0] /\ held = [i \in Coins |-> 0]
    /\ token_supply = 0
    /\ \E f \in Fees :
          /\ f[1] <= MAX_FEE /\ f[2] <= MAX_ADMIN_FEE
          /\ fees = f
    /\ \E A \in Coefficients :
          /\ A <= MAX_AMPLIFICATION_COEFFICIENT
          /\ coefficient = [A0 |-> A, A1 |-> A, t0 |-> 0, t1 |-> 0]
    /\ now = 1
    /\ admin_actions_deadline = 0 /\ future_fees = <<0, 0>>
    /\ is_killed = FALSE
    /\ notice = NoNotice
    /\ acts = 0

-----------------------------------------------------------------------------
(* The invariant *)

GetAmplificationCoefficient ==
    LET c == coefficient
    IN  IF now >= c.t1 THEN c.A1
        ELSE IF c.A1 > c.A0 THEN c.A0 + ((c.A1 - c.A0) * (now - c.t0)) \div (c.t1 - c.t0)
        ELSE c.A0 - ((c.A0 - c.A1) * (now - c.t0)) \div (c.t1 - c.t0)

XP(b) == [i \in Coins |-> PRECISION_MUL[i] * b[i]]

\* At most 255 steps, until two differ by one at most.
Newton(step, start) ==
    LET iterate[left \in 0 .. 255] ==
            [v \in Nat |->
                IF left = 0 THEN v
                ELSE LET w == step[v]
                     IN  IF w = Revert \/ w - v \in -1 .. 1 THEN w ELSE iterate[left - 1][w]]
    IN  iterate[255][start]

\* Mutant: N_COINS for N_COINS + 1 in the denominator.
Miscounted_GetD(xp, amp) ==
    LET S   == xp[0] + xp[1]
        Ann == amp * 2
        step == [v \in Nat |->
            LET D_P == (((v * v) \div (xp[0] * 2)) * v) \div (xp[1] * 2)
                den == (Ann - 1) * v + 2 * D_P
            IN  IF den = 0 THEN Revert ELSE ((Ann * S + D_P * 2) * v) \div den]
    IN  IF S = 0 THEN 0 ELSE IF 0 \in {xp[0], xp[1]} THEN Revert ELSE Newton(step, S)

GetD(xp, amp) ==
    LET S   == xp[0] + xp[1]
        Ann == amp * 2
        step == [v \in Nat |->
            LET D_P == (((v * v) \div (xp[0] * 2)) * v) \div (xp[1] * 2)
                den == (Ann - 1) * v + 3 * D_P
            IN  IF den = 0 THEN Revert ELSE ((Ann * S + D_P * 2) * v) \div den]
    IN  IF S = 0 THEN 0 ELSE IF 0 \in {xp[0], xp[1]} THEN Revert ELSE Newton(step, S)

\* What one coin must amount to for invariant D when the other amounts to x.
GetYD(x, amp, D) ==
    LET Ann == amp * 2
        c == (((D * D) \div (x * 2)) * D) \div (Ann * 2)
        b == x + D \div Ann
        step == [y \in Nat |-> LET den == 2 * y + b - D
                               IN  IF den <= 0 THEN Revert ELSE (y * y + c) \div den]
    IN  IF x = 0 \/ D = Revert THEN Revert ELSE Newton(step, D)

GetY(x, xp) ==
    LET amp == GetAmplificationCoefficient
    IN  GetYD(x, amp, GetD(xp, amp))

D(b) == GetD(XP(b), GetAmplificationCoefficient)

-----------------------------------------------------------------------------
(* Exchanges *)

\* Mutant: nothing is kept for rounding.
Generous_AmountOut(s, amount) ==
    LET xp == XP(balances)
        y  == GetY(xp[s] + amount * PRECISION_MUL[s], xp)
    IN  IF y = Revert \/ y > xp[OtherCoin(s)] THEN {} ELSE {xp[OtherCoin(s)] - y}
\* What the invariant leaves of the other coin, less one for rounding errors.
AmountOut(s, amount) ==
    LET xp == XP(balances)
        y  == GetY(xp[s] + amount * PRECISION_MUL[s], xp)
    IN  IF y = Revert \/ y + 1 > xp[OtherCoin(s)] THEN {} ELSE {xp[OtherCoin(s)] - y - 1}

\* exchange_to_native and exchange_from_native
Exchange(s, amount, min) ==
    /\ ~is_killed
    /\ held[s] + amount <= MaxHeld
    /\ \E dy \in AmountOut(s, amount) :
          LET d      == OtherCoin(s)
              dy_fee == (dy * fees[1]) \div FEE_DENOMINATOR
              out    == (dy - dy_fee) \div PRECISION_MUL[d]
              admin  == ((dy_fee * fees[2]) \div FEE_DENOMINATOR) \div PRECISION_MUL[d]
          IN  /\ out >= min
              /\ balances' = [balances EXCEPT ![s] = @ + amount, ![d] = @ - out - admin]
              /\ held' = [held EXCEPT ![s] = @ + amount, ![d] = @ - out]
    /\ UNCHANGED <<token_supply, fees, owner, future_fees, now>>

-----------------------------------------------------------------------------
(* Liquidity *)

Distance(a, b) == IF a > b THEN a - b ELSE b - a

\* The fees on a change from balances to new: on the distance from an even change.
ImbalanceFees(new, D0, D1) ==
    [i \in Coins |-> (((fees[1] * 2) \div 4) * Distance((D1 * balances[i]) \div D0, new[i]))
                        \div FEE_DENOMINATOR]

\* balances afterwards: the owner's part of the fees is no longer in them.
LessAdminFees(new, f) == [i \in Coins |-> new[i] - (f[i] * fees[2]) \div FEE_DENOMINATOR]
Less(new, f) == [i \in Coins |-> new[i] - f[i]]
NotNegative(b) == \A i \in Coins : b[i] >= 0

AddLiquidity(amounts, min) ==
    /\ ~is_killed
    /\ \A i \in Coins : held[i] + amounts[i] <= MaxHeld
    /\ LET new == [i \in Coins |-> balances[i] + amounts[i]]
           D0  == IF token_supply = 0 THEN 0 ELSE D(balances)
           D1  == D(new)
       IN  /\ D0 # Revert /\ D1 > D0
           /\ \/ /\ token_supply = 0
                 /\ \A i \in Coins : amounts[i] > 0
                 /\ D1 >= min
                 /\ balances' = new
                 /\ token_supply' = D1
              \/ /\ token_supply > 0 /\ D0 > 0
                 /\ LET f    == ImbalanceFees(new, D0, D1)
                        D2   == D(Less(new, f))
                        mint == (token_supply * (D2 - D0)) \div D0
                    IN  /\ NotNegative(Less(new, f))
                        /\ D2 >= D0
                        /\ mint >= min
                        /\ balances' = LessAdminFees(new, f)
                        /\ token_supply' = token_supply + mint
    /\ held' = [i \in Coins |-> held[i] + amounts[i]]
    /\ UNCHANGED <<fees, owner, future_fees, now>>

\* Mutant: what is paid out is not booked.
Unbooked_RemoveLiquidity(amount, min) ==
    /\ token_supply > 0 /\ amount <= token_supply
    /\ LET value == [i \in Coins |-> (balances[i] * amount) \div token_supply]
       IN  /\ \A i \in Coins : value[i] >= min
           /\ held' = Less(held, value)
    /\ token_supply' = token_supply - amount
    /\ UNCHANGED <<balances, fees, owner, future_fees, now>>

\* The one way out of a killed pool.
RemoveLiquidity(amount, min) ==
    /\ token_supply > 0 /\ amount <= token_supply
    /\ LET value == [i \in Coins |-> (balances[i] * amount) \div token_supply]
       IN  /\ \A i \in Coins : value[i] >= min
           /\ balances' = Less(balances, value)
           /\ held' = Less(held, value)
    /\ token_supply' = token_supply - amount
    /\ UNCHANGED <<fees, owner, future_fees, now>>

RemoveLiquidityImbalance(amounts, max) ==
    /\ ~is_killed
    /\ token_supply > 0
    /\ LET new == Less(balances, amounts)
           D0  == D(balances)
           D1  == D(new)
           f   == ImbalanceFees(new, D0, D1)
           D2  == D(Less(new, f))
           burnt == ((D0 - D2) * token_supply) \div D0 + 1
       IN  /\ NotNegative(new)
           /\ D0 > 0 /\ D1 # Revert
           /\ NotNegative(Less(new, f))
           /\ D2 # Revert /\ D2 <= D0
           /\ burnt > 1 /\ burnt <= max /\ burnt <= token_supply
           /\ balances' = LessAdminFees(new, f)
           /\ token_supply' = token_supply - burnt
    /\ held' = Less(held, amounts)
    /\ UNCHANGED <<fees, owner, future_fees, now>>

\* _calc_withdraw_one_coin: what the sender gets and the fee.
CalcWithdrawOneCoin(amount, i) ==
    LET amp == GetAmplificationCoefficient
        k   == OtherCoin(i)
        xp  == XP(balances)
        D0  == GetD(xp, amp)
        D1  == D0 - (amount * D0) \div token_supply
        even == [c \in Coins |-> (xp[c] * D1) \div D0]
        new_y == GetYD(xp[k], amp, D1)
        Fee(dx) == (((fees[1] * 2) \div 4) * dx) \div FEE_DENOMINATOR
        reduced == [c \in Coins |->
                       xp[c] - Fee(IF c = i THEN even[i] - new_y ELSE xp[k] - even[k])]
        y  == GetYD(reduced[k], amp, D1)
        dy == (reduced[i] - y - 1) \div PRECISION_MUL[i]
        dy_0 == (xp[i] - new_y) \div PRECISION_MUL[i]
    IN  IF \/ D0 <= 0 \/ amount > token_supply
           \/ new_y = Revert \/ new_y > even[i]
           \/ y = Revert \/ y + 1 > reduced[i] \/ dy > dy_0
        THEN {} ELSE {[dy |-> dy, fee |-> dy_0 - dy]}

RemoveLiquidityOneCoin(amount, i, min) ==
    /\ ~is_killed
    /\ token_supply > 0
    /\ \E w \in CalcWithdrawOneCoin(amount, i) :
          LET booked == w.dy + (w.fee * fees[2]) \div FEE_DENOMINATOR
          IN  /\ w.dy >= min
              /\ balances[i] >= booked
              /\ balances' = [balances EXCEPT ![i] = @ - booked]
              /\ held' = [held EXCEPT ![i] = @ - w.dy]
    /\ token_supply' = token_supply - amount
    /\ UNCHANGED <<fees, owner, future_fees, now>>

\* Coins come to the pool that no call accounts for: bAZERO somebody sends to it, and native
\* coins attached to exchange_to_native, which is payable and ignores them.  That call is the
\* exchange and the gift: the exchange does not read what the pool owns.
Gift(i, amount) ==
    /\ held[i] + amount <= MaxHeld
    /\ held' = [held EXCEPT ![i] = @ + amount]
    /\ UNCHANGED <<balances, token_supply, fees, owner, future_fees, now>>

-----------------------------------------------------------------------------
(* The owner *)

Act == acts < MaxActs /\ acts' = acts + 1

RampAmplificationCoefficient(A, t) ==
    /\ Act
    /\ now >= coefficient.t0 + MIN_RAMP_TIME
    /\ t >= now + MIN_RAMP_TIME
    /\ LET A0 == GetAmplificationCoefficient
       IN  /\ A > 0 /\ A < MAX_AMPLIFICATION_COEFFICIENT
           /\ \/ A >= A0 /\ A <= A0 * MAX_AMPLIFICATION_COEFFICIENT_CHANGE
              \/ A < A0 /\ A * MAX_AMPLIFICATION_COEFFICIENT_CHANGE >= A0
           /\ coefficient' = [A0 |-> A0, A1 |-> A, t0 |-> now, t1 |-> t]
    /\ UNCHANGED <<money, fees, admin_actions_deadline, is_killed, notice, future_fees, now>>

StopRamp ==
    /\ Act
    /\ LET A == GetAmplificationCoefficient
       IN  coefficient' = [A0 |-> A, A1 |-> A, t0 |-> now, t1 |-> now]
    /\ UNCHANGED <<money, fees, admin_actions_deadline, is_killed, notice, future_fees, now>>

CommitNewFee(f) ==
    /\ Act
    /\ admin_actions_deadline = 0
    /\ f[1] <= MAX_FEE /\ f[2] <= MAX_ADMIN_FEE
    /\ admin_actions_deadline' = now + ADMIN_ACTIONS_DELAY
    /\ future_fees' = f
    /\ notice' = [fees |-> f, at |-> now]
    /\ UNCHANGED <<money, fees, coefficient, is_killed, now>>

\* Mutant: what was revoked can be applied all the same.
Revoked_ApplyNewFee ==
    /\ Act
    /\ now >= admin_actions_deadline
    /\ admin_actions_deadline' = 0
    /\ fees' = future_fees
    /\ notice' = NoNotice
    /\ UNCHANGED <<money, coefficient, is_killed, future_fees, now>>
ApplyNewFee ==
    /\ Act
    /\ now >= admin_actions_deadline
    /\ admin_actions_deadline # 0
    /\ admin_actions_deadline' = 0
    /\ fees' = future_fees
    /\ notice' = NoNotice
    /\ UNCHANGED <<money, coefficient, is_killed, future_fees, now>>

RevertNewParameters ==
    /\ Act
    /\ admin_actions_deadline' = 0
    /\ notice' = NoNotice
    /\ UNCHANGED <<money, fees, coefficient, is_killed, future_fees, now>>

\* A subtraction: Solvent says that it does not underflow.
WithdrawAdminFees ==
    /\ Act
    /\ NotNegative(Less(held, balances))
    /\ held' = balances
    /\ UNCHANGED <<balances, token_supply, fees, coefficient, admin_actions_deadline, is_killed,
                   notice, future_fees, now>>

DonateAdminFees ==
    /\ Act
    /\ balances' = held
    /\ UNCHANGED <<held, token_supply, fees, coefficient, admin_actions_deadline, is_killed, notice,
                   future_fees, now>>

KillMe ==
    /\ Act
    /\ KILL_DEADLINE_DT > now
    /\ is_killed' = TRUE
    /\ UNCHANGED <<money, fees, coefficient, admin_actions_deadline, notice, future_fees, now>>

UnkillMe ==
    /\ Act
    /\ is_killed' = FALSE
    /\ UNCHANGED <<money, fees, coefficient, admin_actions_deadline, notice, future_fees, now>>

Tick ==
    /\ now < MaxTime
    /\ now' = now + 1
    /\ UNCHANGED <<money, fees, owner, future_fees>>

-----------------------------------------------------------------------------

User ==
    \/ \E min \in MinAmounts :
          \/ \E i \in Coins, a \in CoinAmounts : Exchange(i, a, min)
          \/ \E amounts \in [Coins -> CoinAmounts] : AddLiquidity(amounts, min)
          \/ \E a \in Shares : RemoveLiquidity(a, min)
          \/ \E a \in Shares, i \in Coins : RemoveLiquidityOneCoin(a, i, min)
    \/ \E amounts \in [Coins -> CoinAmounts], max \in MaxBurns :
          RemoveLiquidityImbalance(amounts, max)
    \/ \E i \in Coins, a \in CoinAmounts : Gift(i, a)

Owner ==
    \/ \E A \in Coefficients, t \in 1 .. MaxTime + 1 : RampAmplificationCoefficient(A, t)
    \/ StopRamp
    \/ \E f \in Fees : CommitNewFee(f)
    \/ ApplyNewFee \/ RevertNewParameters
    \/ WithdrawAdminFees \/ DonateAdminFees
    \/ KillMe \/ UnkillMe

PoolNext == User \/ Owner \/ Tick

PoolSpec == PoolInit /\ [][PoolNext]_poolVars

-----------------------------------------------------------------------------
(* Properties *)

\* What the pool accounts for it owns, whatever the fees, roundings and gifts: the owner's
\* subtraction in withdraw_admin_fees and admin_balances never underflows, and the
\* providers can always leave.
Solvent == /\ NotNegative(balances) /\ token_supply >= 0
           /\ \A i \in Coins : balances[i] <= held[i]

\* The largest integer D with Ann (x + y) + D >= Ann D + D^3 / (4 x y), the curve of which
\* get_D looks for the root.
Root(xp, amp) ==
    LET Ann == amp * 2
        k   == 4 * xp[0] * xp[1]
    IN  Max({v \in 0 .. xp[0] + xp[1] : (Ann - 1) * v * k + v * v * v <= Ann * (xp[0] + xp[1]) * k})

\* get_D finds the root of the curve up to rounding, at every coefficient a ramp passes
\* through, and never runs into a division by zero while both coins are there.
DIsAccurate ==
    \/ 0 \in {balances[i] : i \in Coins}
    \/ Distance(D(balances), Root(XP(balances), GetAmplificationCoefficient)) <= Rounding

\* No exchange, deposit or withdrawal lowers the invariant per pool token, other than by
\* rounding: neither a series of exchanges nor a deposit that is withdrawn again takes
\* anything from the other providers.
SharesKeepTheirValue ==
    [][ \/ now' # now \/ coefficient' # coefficient
        \/ token_supply = 0 \/ token_supply' = 0
        \/ 0 \in {balances[i] : i \in Coins}
        \/ (D(balances)' + Rounding) * token_supply >= D(balances) * token_supply' ]_poolVars

\* Fees change only to what was announced ADMIN_ACTIONS_DELAY before and not revoked.
FeesAreAnnounced ==
    [][ \/ fees' = fees
        \/ /\ notice.at # Revert
           /\ fees' = notice.fees
           /\ now >= notice.at + ADMIN_ACTIONS_DELAY ]_poolVars

=============================================================================
