------------------------------- MODULE Amounts -------------------------------
(***************************************************************************)
(* The arithmetic of internal/platform/money, and what is computed with    *)
(* it: a member's share of a commission, the rate a page quotes, an amount *)
(* a network writes as a decimal.                                          *)
(*                                                                         *)
(* Integers have a width: MaxInt is the largest, and every sum and product *)
(* below is taken at that width (Wrap).  Scale is the whole, in basis      *)
(* points: 10000 in the code, and any Scale with Scale * Scale <= MaxInt   *)
(* keeps the products of Split in the same relation to the width.          *)
(***************************************************************************)
EXTENDS Integers, FiniteSetsExt

CONSTANTS MaxInt, Scale

ASSUME AmountsAssumption == Scale \in Nat \ {0} /\ MaxInt \in Nat /\ Scale * Scale <= MaxInt

MinInt == -(MaxInt + 1)
Minor == MinInt..MaxInt

(* What the machine keeps of an integer. *)
Wrap(x) == ((x + MaxInt + 1) % (2 * (MaxInt + 1))) - (MaxInt + 1)

(* Division truncates toward zero, and the remainder has the dividend's sign. *)
Quo(x, y) == IF x >= 0 THEN x \div y ELSE -((-x) \div y)
Rem(x, y) == x - y * Quo(x, y)

(* Refusals, outside the width. *)
Overflow == MaxInt + 1
NotAnAmount == MaxInt + 1

addMinor(x, y) ==
    IF (y > 0 /\ x > Wrap(MaxInt - y)) \/ (y < 0 /\ x < Wrap(MinInt - y)) THEN Overflow ELSE Wrap(x + y)

subMinor(x, y) ==
    IF (y < 0 /\ x > Wrap(MaxInt + y)) \/ (y > 0 /\ x < Wrap(MinInt + y)) THEN Overflow ELSE Wrap(x - y)

Neg(x) == subMinor(0, x)
Abs(x) == IF x >= 0 THEN x ELSE Neg(x)

Modes == {"toward zero", "away from zero", "floor", "ceil", "half away from zero", "half even"}

roundsAway(units, fraction, negative, mode) ==
    /\ fraction # 0
    /\ CASE mode = "away from zero" -> TRUE
         [] mode = "floor" -> negative
         [] mode = "ceil" -> ~negative
         [] mode = "half away from zero" -> 2 * fraction >= Scale
         [] mode = "half even" -> 2 * fraction > Scale \/ (2 * fraction = Scale /\ Rem(units, 2) # 0)
         [] mode = "toward zero" -> FALSE

(* Mutant: the product is taken before the division. *)
Split_ProductFirst(minor, rate, mode) ==
    LET product == Wrap(minor * rate)
        fraction == Abs(Rem(product, Scale))
        away == roundsAway(Quo(product, Scale), fraction, minor < 0, mode)
        share == Quo(product, Scale) + (IF away THEN IF minor < 0 THEN -1 ELSE 1 ELSE 0)
    IN  [share |-> share, remainder |-> subMinor(minor, share)]

(* The whole basis-point multiples first, so that no product leaves the width. *)
Split(minor, rate, mode) ==
    LET whole == Quo(minor, Scale)
        part == Wrap(Rem(minor, Scale) * rate)
        units == Wrap(Wrap(whole * rate) + Quo(part, Scale))
        fraction == Abs(Rem(part, Scale))
        away == roundsAway(units, fraction, minor < 0, mode)
        share == IF away THEN Wrap(IF minor < 0 THEN units - 1 ELSE units + 1) ELSE units
    IN  [share |-> share, remainder |-> subMinor(minor, share)]

SplitBasisPoints(points, rate, mode) ==
    LET product == Wrap(points * rate)
        units == Quo(product, Scale)
        share == IF roundsAway(units, Rem(product, Scale), FALSE, mode) THEN units + 1 ELSE units
    IN  [share |-> share, remainder |-> points - share]

(* Both the page and the money path round a member's share up. *)
MemberFavour == "ceil"

ShareOf(commission, rate) ==
    LET s == Split(commission, rate, MemberFavour)
    IN  [member |-> s.share, remainder |-> s.remainder,
         rounding |-> subMinor(s.share, Split(commission, rate, "toward zero").share)]

(* The rate a member is quoted, out of the commission and the share. *)
Earned(kind, value, rate) ==
    IF kind = "percent" THEN SplitBasisPoints(value, rate, MemberFavour).share
                        ELSE Split(value, rate, MemberFavour).share

(* A decimal a network writes: units, then so many places of a fraction. *)
minorUnits(negative, units, fraction, places) ==
    LET padded == units * 100 + fraction * 10 ^ (2 - places)
    IN  CASE places > 2 -> NotAnAmount
          [] places <= 2 /\ padded > MaxInt -> NotAnAmount
          [] OTHER -> IF negative THEN -padded ELSE padded

----------------------------------------------------------------------------
(* n / d for d > 0, rounded to a whole number the way each mode says. *)
Rounded(n, d, mode) ==
    LET down == n \div d
        up == -((-n) \div d)
        toZero == IF n >= 0 THEN down ELSE up
        fromZero == IF n >= 0 THEN up ELSE down
        twice == 2 * (n - down * d)
    IN  CASE mode = "floor" -> down
          [] mode = "ceil" -> up
          [] mode = "toward zero" -> toZero
          [] mode = "away from zero" -> fromZero
          [] mode = "half away from zero" /\ twice = d -> fromZero
          [] mode = "half even" /\ twice = d -> IF down % 2 = 0 THEN down ELSE up
          [] OTHER -> IF twice < d THEN down ELSE up

(* What Split promises of one amount, whatever its sign and size. *)
SplitsExactly(minor) ==
    \A rate \in 0..Scale :
        /\ \A mode \in Modes :
              LET s == Split(minor, rate, mode)
              IN  s.share = Rounded(minor * rate, Scale, mode) /\ s.share + s.remainder = minor
        /\ LET s == ShareOf(minor, rate)
           IN  /\ s.member + s.remainder = minor
               /\ s.rounding = IF minor > 0 /\ (minor * rate) % Scale # 0 THEN 1 ELSE 0
               /\ Earned("fixed", minor, rate) = s.member

(* A decimal is read to the minor unit or refused, never shortened. *)
ReadsExactly(units) ==
    \A places \in 0..3 : \A fraction \in 0..(10 ^ places - 1), negative \in BOOLEAN :
        LET minor == minorUnits(negative, units, fraction, places)
        IN  minor # NotAnAmount =>
                Abs(minor) * 10 ^ places = (units * 10 ^ places + fraction) * 100
==============================================================================
