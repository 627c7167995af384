------------------------------- MODULE MCPads -------------------------------
(* One slot of the hot table and the changes of the pads behind it, for TLC.  A behaviour is one of *)
(* the two; the slot rests in its initial state, the variables of a topology that rests are 0.      *)
EXTENDS HotSlot, TLC

CONSTANTS r1, r2, i1, i2, t1, t2, t3

VARIABLES
    part,
    \* SessionTopology
    live, slotOf, tokenOf, serial, desc, bumps, inUse, quarantined, scanStart,
    busOpen, plugged, bound, calling, packed, hot,
    phase, op, round, change, todo, retired, unplugged, stuck, reopened, scan, waited, rx

topologyVars ==
    <<live, slotOf, tokenOf, serial, desc, bumps, inUse, quarantined, scanStart,
      busOpen, plugged, bound, calling, packed, hot,
      phase, op, round, change, todo, retired, unplugged, stuck, reopened, scan, waited, rx>>

T == INSTANCE SessionTopology WITH
         Devices <- {"dish"}, Idx <- {i1, i2}, NSerials <- 2, NSlots <- 1,
         Types <- {"xbox", "ds4"}, Supported <- {"xbox", "ds4"}, Infos <- {"plain"},
         Tokens <- {t1, t2, t3}, Readers <- {"receive"}

TopologyRests ==
    /\ live = 0 /\ slotOf = 0 /\ tokenOf = 0 /\ serial = 0 /\ desc = 0 /\ bumps = 0 /\ inUse = 0
    /\ quarantined = 0 /\ scanStart = 0 /\ busOpen = 0 /\ plugged = 0 /\ bound = 0 /\ calling = 0
    /\ packed = 0 /\ hot = 0 /\ phase = 0 /\ op = 0 /\ round = 0 /\ change = 0 /\ todo = 0
    /\ retired = 0 /\ unplugged = 0 /\ stuck = 0 /\ reopened = 0 /\ scan = 0 /\ waited = 0 /\ rx = 0

\* The brackets each participant has in the slot's part.
Parts ==
    {[of |-> "topology"],
     [of |-> "slot", brackets |-> (r1 :> 1 @@ r2 :> 1)],
     [of |-> "slot", brackets |-> (r1 :> 2 @@ r2 :> 0)]}

MCInit ==
    /\ part \in Parts
    /\ Init
    /\ IF part.of = "topology" THEN T!Init ELSE TopologyRests

SlotNext ==
    /\ part.of = "slot" /\ Next
    /\ \A r \in Readers : own'[r] <= 2 * part.brackets[r]
    /\ UNCHANGED topologyVars

TopologyNext == part.of = "topology" /\ T!Next /\ UNCHANGED vars

MCNext == (SlotNext \/ TopologyNext) /\ UNCHANGED part

MCSpec == MCInit /\ [][MCNext]_<<part, vars, topologyVars>>

\* Controller indices and tokens are interchangeable.
Symmetry == Permutations({i1, i2}) \cup Permutations({t1, t2, t3})

\* The properties of SessionTopology.
BackendMatchesPads == part.of = "topology" => T!BackendMatchesPads
ReportMatchesApplied == part.of = "topology" => T!ReportMatchesApplied
EpochMovesWithPads == [][part.of = "topology" => T!EpochMoves]_topologyVars
=============================================================================
