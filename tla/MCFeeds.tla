------------------------------ MODULE MCFeeds ------------------------------
(***************************************************************************)
(* Small instances of what brings information into the platform, and of    *)
(* what an order is.  The parts share no state, and a behaviour is about   *)
(* one of them: the life of orders (OrderLifecycle), the path of an event  *)
(* (DataFabric), one connector (DataSources), and the process              *)
(* (ServerLifespan).                                                       *)
(***************************************************************************)
EXTENDS OrderLifecycle, DataFabric, DataSources, ServerLifespan

VARIABLE part       \* the part this behaviour is about

feedsVars == <<part, orders, fabricVars, sourceVars, serverVars>>

\* A part that is not looked at has one initial state.
FeedsInit ==
    /\ part \in {"lifecycle", "fabric", "sources", "server"}
    /\ Init
    /\ FabricInit
    /\ SourceInit /\ (part # "sources" => venue = CHOOSE v \in Venues : TRUE)
    /\ ServerInit /\ (part # "server" => config = CHOOSE c \in Settings : Meaningful(c))

Lifecycle == part = "lifecycle" /\ Next /\ UNCHANGED <<part, fabricVars, sourceVars, serverVars>>
Fabric == part = "fabric" /\ FabricStep /\ UNCHANGED <<part, orders, sourceVars, serverVars>>
Connector == part = "sources" /\ SourceStep /\ UNCHANGED <<part, orders, fabricVars, serverVars>>
Server == part = "server" /\ ServerStep /\ UNCHANGED <<part, orders, fabricVars, sourceVars>>

FeedsNext == Lifecycle \/ Fabric \/ Connector \/ Server

\* Tasks that are ready run, the health monitor of a connector among them; the
\* network, the venues and the callers of the routes are not fair.
FeedsSpec ==
    /\ FeedsInit /\ [][FeedsNext]_feedsVars
    /\ FabricFairness /\ ServerFairness /\ WF_sourceVars(Monitor)
=============================================================================
