-------------------------------- MODULE Numbers --------------------------------
(***************************************************************************)
(* The arithmetic of programs: integers whose division rounds towards      *)
(* zero, and floats given in halves.  Nothing here is near a bound of      *)
(* either type.                                                            *)
(***************************************************************************)
EXTENDS Integers

Magnitude(n) == IF n < 0 THEN -n ELSE n
Divide(a, b) ==
  IF b = 0 THEN -1
  ELSE IF (a < 0) = (b < 0) THEN Magnitude(a) \div Magnitude(b) ELSE -(Magnitude(a) \div Magnitude(b))

IntArithmetic(op, a, b) ==
  CASE op = "+" -> a + b [] op = "-" -> a - b [] op = "*" -> a * b [] op = "/" -> Divide(a, b)
FloatArithmetic(op, a, b) ==
  CASE op = "+" -> a + b [] op = "-" -> a - b [] op = "*" -> Divide(a * b, 2) [] op = "/" -> Divide(2 * a, b)

Compare(op, a, b) ==
  LET holds == CASE op = "==" -> a = b [] op = "!=" -> a # b [] op = "<" -> a < b
                 [] op = "<=" -> a <= b [] op = ">" -> a > b [] op = ">=" -> a >= b
  IN  IF holds THEN 1 ELSE 0

ToFloat(n) == 2 * n
ToInt(h)   == Divide(h, 2)
=============================================================================
