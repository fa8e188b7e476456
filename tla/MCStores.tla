------------------------------ MODULE MCStores ------------------------------
(* A behaviour is one of AutonomousRun, UsageShipping, UsageDurability, SessionLog or
   AuthorityCache: the parts that keep durable state over crashes and failed writes. *)
EXTENDS AutonomousRun, UsageShipping, UsageDurability, SessionLog, AuthorityCache, TLC

VARIABLE part

MCInit ==
  /\ Init /\ ShippingInit /\ DurabilityInit /\ LogInit /\ AuthorityInit
  /\ part \in {"run", "shipping", "durability", "log", "authority"}
  /\ part # "shipping" => ~chained /\ \A r \in Rows : nature[r] = "valid"

MCNext ==
  /\ UNCHANGED part
  /\ \/ part = "run" /\ Next
        /\ UNCHANGED <<shippingVars, durabilityVars, logVars, authorityVars>>
     \/ part = "shipping" /\ ShippingNext
        /\ UNCHANGED <<vars, durabilityVars, logVars, authorityVars>>
     \/ part = "durability" /\ DurabilityNext
        /\ UNCHANGED <<vars, shippingVars, logVars, authorityVars>>
     \/ part = "log" /\ LogNext
        /\ UNCHANGED <<vars, shippingVars, durabilityVars, authorityVars>>
     \/ part = "authority" /\ AuthorityNext
        /\ UNCHANGED <<vars, shippingVars, durabilityVars, logVars>>

MCSpec == MCInit /\ [][MCNext]_<<vars, shippingVars, durabilityVars, logVars, authorityVars, part>>

\* Of an autonomous run a fault or a caller (AutonomousRunProofs has both), of the
\* authority cache a fault or the passing of time (AccountProofs has both).
OneSide ==
  /\ faults = 0 \/ \A c \in Callers : call[c].at = "idle"
  /\ losses = 0 \/ clock = 0

OwnAccount == [c \in Contexts |-> c]

Sameness == Permutations(Shippers) \cup Permutations(Logs)
=============================================================================
