----------------------------- MODULE ShareMath -----------------------------
(***************************************************************************)
(* Integer arithmetic of the ERC-4626 vaults.  Solidity works on uint256   *)
(* and rounds: deposits and redemptions round down, mints and withdrawals  *)
(* round up, always in favour of the holders who stay.                     *)
(*                                                                         *)
(* The amounts of the model never come near 2^256, so the overflow checks  *)
(* of mulDivDown and mulDivUp are left out.                                *)
(***************************************************************************)
EXTENDS Integers

CONSTANT Ether   \* 1 ether: the unit of the fixed-point numbers (1e18 in the code)

(* FixedPointMathLib of solmate: x * y / d, rounded down or up; d is not 0 *)
MulDivDown(x, y, d) == (x * y) \div d
MulDivUp(x, y, d) == (x * y + d - 1) \div d

MulWadDown(x, y) == MulDivDown(x, y, Ether)
DivWadDown(x, y) == MulDivDown(x, Ether, y)

(* The conversions of ERC4626Upgradeable, from the supply of shares and    *)
(* the assets behind them.  An empty vault converts one for one.           *)
SharesFor(assets, supply, total) ==
  IF supply = 0 THEN assets ELSE MulDivDown(assets, supply, total)

AssetsFor(shares, supply, total) ==
  IF supply = 0 THEN shares ELSE MulDivDown(shares, total, supply)

SharesToWithdraw(assets, supply, total) ==
  IF supply = 0 THEN assets ELSE MulDivUp(assets, supply, total)

AssetsToMint(shares, supply, total) ==
  IF supply = 0 THEN shares ELSE MulDivUp(shares, total, supply)
=============================================================================
