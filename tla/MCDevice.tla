------------------------------ MODULE MCDevice ------------------------------
(***************************************************************************)
(* Two device objects and two paths, one of them a RAM disk.               *)
(***************************************************************************)
EXTENDS Device

View == <<devices, dev, held, mishap>>

(***************************************************************************)
(* Conservation of descriptors: as long as nothing failed the process has  *)
(* one descriptor open for every device in use, however opens, closes,     *)
(* external access and destroy are nested.                                 *)
(***************************************************************************)
NoDescriptorIsLost ==
  mishap = {} =>
    held = Cardinality({o \in Live : dev[o].openCount > 0 /\ ~dev[o].external})

\* device.c:214, "Attempt to open a device to allow use of read, write and
\* sync functions. [...] return zero on failure".
OpenGivesDescriptor ==
  [][last'.op = "open" /\ last'.ok => dev'[last'.obj].fd # "none"]_vars

\* device.c:219-220, "Any resources allocated here will be freed by a final
\* ped_device_close()".
FinalCloseFrees ==
  [][last'.op = "close" /\ dev'[last'.obj].openCount = 0 => dev'[last'.obj].fd = "none"]_vars
=============================================================================
