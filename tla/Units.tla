------------------------------- MODULE Units -------------------------------
(***************************************************************************)
(* Locations as text (libparted/unit.c).  A text is [num, den, unit]: the  *)
(* number num / den, where den is a power of ten, and the unit; or, for    *)
(* cylinder,head,sector, [c, h, s, unit].  A device is [length, ss, heads, *)
(* sectors].  Doubles are taken for the rationals they stand for.          *)
(***************************************************************************)
EXTENDS NatMath

CONSTANTS
  Kilobyte, Megabyte,    \* 1000 and 1000000: the decimal units
  Kibibyte, Mebibyte     \* 1024 and 1048576: the binary ones

Binary == {"kiB", "MiB"}
Units == {"s", "B", "kB", "MB", "compact", "cyl", "chs", "%"} \cup Binary

\* ped_unit_get_size.
UnitSize(dev, unit) ==
  CASE unit \in {"s", "chs"} -> dev.ss
    [] unit = "B"   -> 1
    [] unit = "kB"  -> Kilobyte
    [] unit = "MB"  -> Megabyte
    [] unit = "kiB" -> Kibibyte
    [] unit = "MiB" -> Mebibyte
    [] unit = "cyl" -> dev.heads * dev.sectors * dev.ss
    [] unit = "%"   -> (dev.length * dev.ss) \div 100

\* The unit that "compact" stands for.
Compact(byte) ==
  IF byte >= 10 * Megabyte THEN "MB" ELSE IF byte >= 10 * Kilobyte THEN "kB" ELSE "B"

\* Mutant: the digits that are left out are cut off.
RoundDown(byte, size, den) == (byte * den) \div size

\* Half a last digit is rounded up (the factor 1 + DBL_EPSILON).
RoundHalf(byte, size, den) == (2 * byte * den + size) \div (2 * size)

\* The precision: two digits below ten, one below a hundred, as they are
\* after rounding.
Places(byte, size) ==
  IF 1000 * byte + 5 * size < 10000 * size THEN 100
  ELSE IF 100 * byte + 5 * size < 10000 * size THEN 10
  ELSE 1

\* ped_unit_format_custom_byte.
Format(dev, byte, unit) ==
  LET sector == byte \div dev.ss
      u      == IF unit = "compact" THEN Compact(byte) ELSE unit
      size   == UnitSize(dev, u)
      den    == Places(byte, size)
  IN  IF unit = "chs"
      THEN [c |-> (sector \div dev.sectors) \div dev.heads, h |-> (sector \div dev.sectors) % dev.heads,
            s |-> sector % dev.sectors, unit |-> unit]
      ELSE IF unit \in {"cyl", "s", "B"} THEN [num |-> byte \div size, den |-> 1, unit |-> unit]
      ELSE [num |-> RoundHalf(byte, size, den), den |-> den, unit |-> u]

\* clip and geometry_from_centre_radius.
Clip(dev, sector) == PedMin(PedMax(sector, 0), dev.length - 1)

CentreRadius(dev, sector, radius) ==
  LET start == Clip(dev, sector - radius)
      end   == Clip(dev, sector + radius)
  IN  IF sector - end > radius \/ start - sector > radius THEN NULL
      ELSE [start |-> start, end |-> end]

\* parse_chs.
ParseChs(dev, text) ==
  LET sector == (text.c * dev.heads + text.h) * dev.sectors + text.s
  IN  IF text.h >= dev.heads \/ text.s >= dev.sectors \/ sector >= dev.length THEN NULL
      ELSE [sector |-> sector, range |-> [start |-> sector, end |-> sector]]

\* The radius of the range that a location stands for.
Radius(dev, unit) ==
  IF unit \in Binary THEN 0
  ELSE PedMax(((UnitSize(dev, unit) + dev.ss - 1) \div dev.ss) \div 2 - 1, 0)

\* ped_unit_parse_custom, with a range.  minus: the text starts with a minus
\* sign, so the number is taken from the end of the device.
Parse(dev, text, minus) ==
  LET size   == UnitSize(dev, text.unit)
      far    == (text.num * size) \div (text.den * dev.ss)
      sector == IF minus THEN dev.length - far ELSE far
      range  == CentreRadius(dev, sector, Radius(dev, text.unit))
  IN  IF text.unit = "chs" THEN ParseChs(dev, text)
      ELSE IF ~minus /\ text.num > 0 /\ text.num < text.den THEN NULL
      ELSE IF range = NULL THEN NULL
      ELSE [sector |-> Clip(dev, sector), range |-> range]
=============================================================================
