---------------------------- MODULE MCStructures ----------------------------
(***************************************************************************)
(* The components that can be checked one by one, side by side: OrderMap   *)
(* and OrderTable under every hash, LevelBitmap with three tiers of uneven *)
(* width, Account over short runs of executions, RateModel against the     *)
(* venue's counter, Histogram, EventSlots, Loader, ConfigFile, and         *)
(* SpscRingObserver on a ring of one-word elements.  They do not interact: *)
(* a behaviour picks one, and the others keep their initial states.        *)
(***************************************************************************)
EXTENDS Account, RateModel, Histogram, EventSlots, Loader, ConfigFile,
        SpscRingObserver, LevelBitmap, HashTables

VARIABLE part  \* the component this behaviour is about

ASSUME StructuresAssumption == LagAssumption

ringVars == <<vars, obsVars>>

\* Only the chosen component's initial choices are free.
AllInit ==
    /\ part \in {"map", "table", "bitmap", "account", "rate", "histogram", "slots",
                "loader", "config", "ring"}
    /\ MapInit /\ (part # "map" => mapHash = [k \in Key |-> 0])
    /\ TableInit /\ (part # "table" => tableHash = [k \in OrderId |-> 0])
    /\ BitmapInit
    /\ ObsInit
    /\ AccountInit
    /\ RateInit /\ (part # "rate" => ~replay)
    /\ HistInit
    /\ SlotsInit
    /\ CfgInit
    /\ LoaderInit /\ (part # "loader" => file = CHOOSE i \in Image : TRUE)

\* A step of p and of nothing else.
Only(p) ==
    /\ part = p /\ UNCHANGED part
    /\ p # "map" => UNCHANGED mapVars
    /\ p # "table" => UNCHANGED tableVars
    /\ p # "bitmap" => UNCHANGED bits
    /\ p # "ring" => UNCHANGED ringVars
    /\ p # "account" => UNCHANGED accountVars
    /\ p # "rate" => UNCHANGED rateVars
    /\ p # "histogram" => UNCHANGED histVars
    /\ p # "slots" => UNCHANGED slotVars
    /\ p # "loader" => UNCHANGED loaderVars
    /\ p # "config" => UNCHANGED cfgVars

AllNext ==
    \/ Only("map") /\ MapNext
    \/ Only("table") /\ TableNext
    \/ Only("bitmap") /\ BitmapNext
    \/ Only("ring") /\ ObsNext
    \/ Only("account") /\ AccountNext
    \/ Only("rate") /\ RateNext
    \/ Only("histogram") /\ HistNext
    \/ Only("slots") /\ SlotsNext
    \/ Only("loader") /\ LoaderNext
    \/ Only("config") /\ CfgNext

AllSpec ==
    AllInit /\ [][AllNext]_<<part, mapVars, tableVars, bits, ringVars, accountVars, rateVars,
                             histVars, slotVars, loaderVars, cfgVars>>
=============================================================================
