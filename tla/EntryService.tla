---------------------------- MODULE EntryService ----------------------------
(***************************************************************************)
(* What an integration may rely on for one of its config entries: its      *)
(* async_setup_entry and async_unload_entry are called in turn, never two  *)
(* at a time, set-up only while the entry is down, unload only while it is *)
(* up, and neither again once an unload has failed.                        *)
(***************************************************************************)
EXTENDS Naturals

CONSTANT Task

VARIABLES
  setting,   \* tasks inside the integration's async_setup_entry
  unloading, \* tasks inside the integration's async_unload_entry
  up,        \* the integration runs the entry
  broken     \* an unload failed: only a restart helps

svars == <<setting, unloading, up, broken>>

SInit == setting = {} /\ unloading = {} /\ up = FALSE /\ broken = FALSE

Free == setting = {} /\ unloading = {} /\ ~broken

BeginSetup(t) ==
  /\ Free /\ ~up
  /\ setting' = {t} /\ UNCHANGED <<unloading, up, broken>>

EndSetup(t) ==
  /\ setting = {t} /\ setting' = {}
  /\ up' \in BOOLEAN /\ UNCHANGED <<unloading, broken>>

BeginUnload(t) ==
  /\ Free /\ up
  /\ unloading' = {t} /\ UNCHANGED <<setting, up, broken>>

\* Done, refused, or failed for good.
EndUnload(t) ==
  /\ unloading = {t} /\ unloading' = {}
  /\ up' \in BOOLEAN /\ broken' \in BOOLEAN /\ UNCHANGED setting

\* An integration that cannot unload at all is asked to.
Break ==
  /\ Free /\ up
  /\ broken' = TRUE /\ UNCHANGED <<setting, unloading, up>>

SNext == (\E t \in Task : BeginSetup(t) \/ EndSetup(t) \/ BeginUnload(t) \/ EndUnload(t)) \/ Break

SSpec == SInit /\ [][SNext]_svars
=============================================================================
