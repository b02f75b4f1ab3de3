--------------------------- MODULE MCRadioThread ---------------------------
(* Two buffers each way, as in fast_bus.h.                                  *)
EXTENDS RadioThread
============================================================================
