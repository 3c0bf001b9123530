---------------------------- MODULE MCRouterSetup ----------------------------
(* Small instances of RouterSetup for TLC: configurations that share pool  *)
(* names, with and without a cache, and ones that Valid refuses.           *)
EXTENDS RouterSetup, TLC

CONSTANTS hub, near

Config(pools, lookup, cache, ok) ==
  [pools |-> pools, lookup |-> lookup, cache |-> cache, destsOk |-> ok]

Hub == hub :> Everything
HubAndNear == Hub @@ near :> Everything

ConfigsOf ==
  {Config(Hub, <<hub>>, {}, TRUE),
   Config(HubAndNear, <<near, hub>>, {near}, TRUE),
   Config(HubAndNear, <<hub>>, {near}, TRUE),
   Config(Hub, <<hub>>, {near}, TRUE),      (* no pool for its cache       *)
   Config(Hub, <<near>>, {}, TRUE),         (* no pool for its lookup      *)
   Config(Hub, <<>>, {}, TRUE),
   Config(Hub, <<hub>>, {}, FALSE)}

(* The local router is the cache; its range is any there is.               *)
LocalConfigsOf == {Config(near :> t, <<near>>, {near}, TRUE) : t \in Texts}
=============================================================================
