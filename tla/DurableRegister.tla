--------------------------- MODULE DurableRegister ---------------------------
(***************************************************************************)
(* What a store promises the owner of its data, whatever its timers, tasks *)
(* and threads do: the file only ever moves to newer versions, never to    *)
(* one that was not saved, and a save that was acknowledged survives the   *)
(* death of the process.  Version 0 is "no file".                          *)
(***************************************************************************)
EXTENDS Naturals

VARIABLES
  saved,    \* the owner's newest version
  durable,  \* the version on disk
  acked     \* the newest version whose save has returned

rvars == <<saved, durable, acked>>

RInit == saved \in Nat /\ durable = saved /\ acked = 0

Save == saved' = saved + 1 /\ UNCHANGED <<durable, acked>>
Persist == durable' \in Nat /\ durable < durable' /\ durable' <= saved /\ UNCHANGED <<saved, acked>>
Acknowledge == acked' \in Nat /\ acked <= acked' /\ acked' <= durable /\ UNCHANGED <<saved, durable>>
Die == saved' = durable /\ UNCHANGED <<durable, acked>>

RNext == Save \/ Persist \/ Acknowledge \/ Die

RSpec == RInit /\ [][RNext]_rvars
=============================================================================
