------------------------------- MODULE Decimal --------------------------------
(***************************************************************************)
(* Exact decimals (decimal/decimal.go): normalization to a configuration,  *)
(* arithmetic, comparison, and the fixed-width text that keeps decimals in *)
(* order in a column of text.                                              *)
(*                                                                         *)
(* A decimal is the pair of the underlying library: int * 10^(-places).    *)
(* Text that does not parse is NaN.  A normalized decimal is its minor     *)
(* units, which with the scale of the configuration is its text; an        *)
(* encoded one is the sequence of its digits.  Every call returns a code,  *)
(* "ok" or the error, and a value.                                         *)
(***************************************************************************)
EXTENDS Integers, Sequences

CONSTANTS
  MaxPrecision,    (* 38                                                    *)
  DefaultPrecision, DefaultScale,  (* 19 and 2                             *)
  GuardPlaces,     (* 8: the places DivideDecimals computes past the scale  *)
  DivisionPlaces,  (* 16: DivisionPrecision of the library                  *)
  ScaleModulus,    (* 2^32: the range of the conversion to int32            *)
  Calculations     (* two operands and a raw configuration for each         *)

ASSUME DecimalAssumption ==
  /\ GuardPlaces \in Nat /\ DivisionPlaces \in Nat
  /\ ScaleModulus \in Nat \ {0} /\ MaxPrecision \in Nat
  /\ \A c \in Calculations :
       /\ c.x \in [int : Int, places : Int] /\ c.y \in [int : Int, places : Int]
       /\ c.raw.precision \in Int /\ c.raw.scale \in Int

\* The operands and the configuration of a call; a calculation is one step.
VARIABLE calculation

\* Powers of ten.
Ten[n \in Nat] == IF n = 0 THEN 1 ELSE 10 * Ten[n - 1]

NaN == [nan |-> TRUE]
Number(n, places) == [int |-> n, places |-> places]

RoundingModes == {"half_even", "half_up", "down", "up", "floor", "ceiling"}
DefaultConfig ==
  [precision |-> DefaultPrecision, scale |-> DefaultScale, mode |-> "half_even"]

Ok(v) == [code |-> "ok", value |-> v]
Error(code) == [code |-> code]
Failed(r) == r.code # "ok"

Magnitude(n) == IF n < 0 THEN -n ELSE n
Signed(n, magnitude) == IF n < 0 THEN -magnitude ELSE magnitude

\* int32(scale)
Int32(n) ==
  LET r == n % ScaleModulus IN
  IF r < ScaleModulus \div 2 THEN r ELSE r - ScaleModulus

\* NormalizeDecimalConfig on a map with a precision, a scale and a mode.
NormalizeDecimalConfig(raw) ==
  LET scale == Int32(raw.scale) IN
  IF raw.precision \notin 1..MaxPrecision THEN Error("precision_invalid")
  ELSE IF scale < 0 \/ scale > raw.precision THEN Error("scale_invalid")
  ELSE IF raw.mode \notin RoundingModes THEN Error("rounding_mode_invalid")
  ELSE Ok([precision |-> raw.precision, scale |-> scale, mode |-> raw.mode])

\* A bug to tell apart: floor and ceiling look at the magnitude only.
AwayIgnoringSign(n, q, r, step, mode) ==
  CASE mode = "half_up" -> 2 * r >= step
    [] mode \in {"down", "floor"} -> FALSE
    [] mode \in {"up", "ceiling"} -> r > 0
    [] OTHER -> 2 * r > step \/ (2 * r = step /\ q % 2 = 1)

\* Whether the discarded part r of n moves the magnitude up.
Away(n, q, r, step, mode) ==
  CASE mode = "half_up" -> 2 * r >= step
    [] mode = "down" -> FALSE
    [] mode = "up" -> r > 0
    [] mode = "floor" -> r > 0 /\ n < 0
    [] mode = "ceiling" -> r > 0 /\ n > 0
    [] OTHER -> 2 * r > step \/ (2 * r = step /\ q % 2 = 1)

\* num / den rounded to an integer.
RoundQuotient(num, den, mode) ==
  LET n == Signed(den, 1) * num
      d == Magnitude(den)
      q == Magnitude(n) \div d
      r == Magnitude(n) % d
  IN  Signed(n, q + IF Away(n, q, r, d, mode) THEN 1 ELSE 0)

\* The minor units of a decimal at a scale.
roundDecimal(v, scale, mode) ==
  IF v.places <= scale THEN v.int * Ten[scale - v.places]
  ELSE RoundQuotient(v.int, Ten[v.places - scale], mode)

NormalizeDecimal(v, config) ==
  IF v = NaN THEN Error("value_invalid")
  ELSE LET minor == roundDecimal(v, config.scale, config.mode) IN
       IF Magnitude(minor) >= Ten[config.precision] THEN Error("precision_overflow")
       ELSE Ok(minor)

\* A normalized text read again.
Parsed(minor, config) == Number(minor, config.scale)
-----------------------------------------------------------------------------
Digits(n, width) == [i \in 1..width |-> (n \div Ten[width - i]) % 10]

\* EncodeSQLiteDecimal: the offset makes all values positive, zeros make
\* all texts equally long.
EncodeSQLiteDecimal(v, config) ==
  LET minor == NormalizeDecimal(v, config) IN
  IF Failed(minor) THEN minor
  ELSE Ok(Digits(Ten[config.precision] + minor.value, config.precision + 1))

Place(text, i) == text[i] * Ten[Len(text) - i]

\* The integer a text of digits denotes.
Parse(text) ==
  LET upTo[i \in 0..Len(text)] ==
        IF i = 0 THEN 0 ELSE upTo[i - 1] + Place(text, i)
  IN  upTo[Len(text)]

DecodeSQLiteDecimal(text, config) ==
  IF Len(text) # config.precision + 1 THEN Error("value_invalid")
  ELSE Ok(Parse(text) - Ten[config.precision])

\* SQLite compares texts digit by digit.
TextBefore(s, t) ==
  \E i \in DOMAIN s : s[i] < t[i] /\ \A j \in 1..(i - 1) : s[j] = t[j]
-----------------------------------------------------------------------------
At(v, places) == v.int * Ten[places - v.places]
Larger(m, n) == IF m > n THEN m ELSE n

\* Division of the library: rounded half away from zero at some places.
DivRound(l, r, places) ==
  LET up == places + r.places - l.places IN
  Number(IF up >= 0 THEN RoundQuotient(l.int * Ten[up], r.int, "half_up")
         ELSE RoundQuotient(l.int, r.int * Ten[-up], "half_up"),
         places)

Result(l, r, config, operation) ==
  LET places == Larger(l.places, r.places)
      product == Number(l.int * r.int, l.places + r.places)
  IN CASE operation = "add" -> Number(At(l, places) + At(r, places), places)
       [] operation = "subtract" ->
            Number(At(l, places) - At(r, places), places)
       [] operation = "multiply" -> product
       [] operation = "divide" -> DivRound(l, r, config.scale + GuardPlaces)
       [] operation = "percentage" ->
            DivRound(product, Number(100, 0), DivisionPlaces)

calculateDecimal(l, r, config, operation) ==
  IF l = NaN \/ r = NaN THEN Error("value_invalid")
  ELSE IF operation = "divide" /\ r.int = 0 THEN Error("divide_by_zero")
  ELSE NormalizeDecimal(Result(l, r, config, operation), config)

\* CompareDecimals: -1, 0 or 1 after normalization.
CompareDecimals(l, r, config) ==
  LET left == NormalizeDecimal(l, config)
      right == NormalizeDecimal(r, config)
  IN  IF Failed(left) THEN left
      ELSE IF Failed(right) THEN right
      ELSE Ok(IF left.value < right.value THEN -1
              ELSE IF left.value > right.value THEN 1 ELSE 0)
-----------------------------------------------------------------------------
\* For two decimals x and y under a configuration: the stored texts decode to
\* the normalized values and are ordered as CompareDecimals orders them, and
\* normalizing never turns the order of x and y around, whatever the mode.
OrderedEncoding(x, y, config) ==
  LET ex == EncodeSQLiteDecimal(x, config)
      ey == EncodeSQLiteDecimal(y, config)
      places == Larger(x.places, y.places)
      compared == CompareDecimals(x, y, config)
  IN  ~Failed(compared) =>
        /\ DecodeSQLiteDecimal(ex.value, config) = NormalizeDecimal(x, config)
        /\ (compared.value = -1) <=> TextBefore(ex.value, ey.value)
        /\ (compared.value = 1) <=> TextBefore(ey.value, ex.value)
        /\ At(x, places) <= At(y, places) => compared.value # 1

\* m is num / den rounded by the mode.
RoundsTo(num, den, m, mode) ==
  LET above == m * den - num   (* positive: rounded up                      *)
      toward == above = 0 \/ (num > 0 <=> above < 0)
  IN  /\ Magnitude(above) < den
      /\ mode = "floor" => above <= 0
      /\ mode = "ceiling" => above >= 0
      /\ mode = "down" => toward
      /\ mode = "up" => ~toward \/ above = 0
      /\ mode \in {"half_up", "half_even"} => 2 * Magnitude(above) <= den
      /\ mode = "half_even" /\ 2 * Magnitude(above) = den => m % 2 = 0
      /\ mode = "half_up" /\ 2 * Magnitude(above) = den => ~toward

\* Sums, differences, products and percentages are the exact result, rounded
\* once by the mode (percentages up to the places the library divides to); a
\* quotient, which is rounded twice, is off by at most one minor unit; and
\* subtracting undoes adding for values already stored.
RoundedOnce(x, y, config) ==
  LET calc(op) == calculateDecimal(x, y, config, op)
      places == Larger(Larger(x.places, 0) + Larger(y.places, 0) + 2, config.scale)
      product == Number(x.int * y.int, x.places + y.places)
      exact == [add |-> At(x, places) + At(y, places),
                subtract |-> At(x, places) - At(y, places),
                multiply |-> At(product, places),
                percentage |-> At(product, places - 2)]
      unit == Ten[places - config.scale]
      quotient == calc("divide")
  IN  /\ \A op \in DOMAIN exact :
           /\ ~Failed(calc(op))
           /\ op = "percentage" => product.places + 2 <= DivisionPlaces
           => RoundsTo(exact[op], unit, calc(op).value, config.mode)
      /\ ~Failed(quotient) =>
           LET num == At(x, places) * Ten[config.scale]
               den == At(y, places)
           IN  Magnitude(quotient.value * den - num) <= Magnitude(den)
      /\ LET sum == calc("add")
             back == calculateDecimal(Parsed(sum.value, config), y, config,
                                      "subtract")
         IN  /\ x.places <= config.scale /\ y.places <= config.scale
             /\ ~Failed(sum) /\ ~Failed(back)
             => back = NormalizeDecimal(x, config)

DecimalInit == calculation \in Calculations
DecimalSpec == DecimalInit /\ [][UNCHANGED calculation]_calculation

\* Under every configuration NormalizeDecimalConfig accepts, decimals keep
\* their order through normalization and through the text of the database,
\* decode to what was stored, and results are rounded as the mode says
\* (decimal.go:98 and :195).
DecimalsAreExact ==
  LET config == NormalizeDecimalConfig(calculation.raw) IN
  ~Failed(config) =>
    /\ OrderedEncoding(calculation.x, calculation.y, config.value)
    /\ RoundedOnce(calculation.x, calculation.y, config.value)
=============================================================================
