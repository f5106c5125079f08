------------------------------- MODULE Units --------------------------------
(***************************************************************************)
(* src/unit.c and find_unit() of src/parser.c: the units a schema may name *)
(* for a PID, and what is done to a number to bring it into SI units.      *)
(*                                                                         *)
(* A number is a fraction << n, d >>; a conversion multiplies it with a    *)
(* factor and adds an offset, both fractions (PI is PI_FRACTION, and the   *)
(* rounding of floats is left out).                                        *)
(***************************************************************************)
EXTENDS Integers

\* find_unit(): the SI units the library knows.
SiUnits ==
  {"degree", "K", "kg/s", "lat", "lng", "m", "m/s", "m/s^2", "ns", "Pa",
   "percent", "rad", "rad/s"}

\* find_convert_func(): the conversion of each raw unit, by its name.
RawUnits ==
  {"K", "kg/s", "lat", "lng", "m", "m/s", "m/s^2", "ns", "Pa", "percent", "rad/s",
   "celsius", "degree", "g/s", "km", "km/h", "kPa", "nm", "rpm", "s"}

find_convert_func ==
  [unit \in RawUnits |->
     CASE unit = "celsius" -> "celsius_to_k"
       [] unit = "degree"  -> "degree_to_rad"
       [] unit = "g/s"     -> "gs_to_kgs"
       [] unit = "km"      -> "km_to_m"
       [] unit = "km/h"    -> "kmh_to_ms"
       [] unit = "kPa"     -> "kpa_to_pa"
       [] unit = "nm"      -> "nm_to_m"
       [] unit = "rpm"     -> "rpm_to_rads"
       [] unit = "s"       -> "s_to_ns"
       [] OTHER            -> "nop"]

-----------------------------------------------------------------------------
PI_FRACTION == << 355, 113 >>

times(x, y) == << x[1] * y[1], x[2] * y[2] >>
plus(x, y)  == << x[1] * y[2] + y[1] * x[2], x[2] * y[2] >>

\* A conversion as << factor, offset >>.
Scaled(n, d) == << << n, d >>, << 0, 1 >> >>

conversion(func) ==
  CASE func = "nop"           -> Scaled(1, 1)
    [] func = "celsius_to_k"  -> << << 1, 1 >>, << 5463, 20 >> >>
    [] func = "degree_to_rad" -> Scaled(PI_FRACTION[1], PI_FRACTION[2] * 180)
    [] func = "gs_to_kgs"     -> Scaled(1, 1000)
    [] func = "km_to_m"       -> Scaled(1000, 1)
    [] func = "kmh_to_ms"     -> Scaled(1000, 3600)
    [] func = "kpa_to_pa"     -> Scaled(1000, 1)
    [] func = "nm_to_m"       -> Scaled(1000000000, 1)
    [] func = "rpm_to_rads"   -> Scaled(PI_FRACTION[1], PI_FRACTION[2] * 30)
    [] func = "s_to_ns"       -> Scaled(1000000000, 1)

convert(func, x) == plus(times(x, conversion(func)[1]), conversion(func)[2])
=============================================================================
