------------------------------ MODULE MCOrders ------------------------------
(* Shorthands the MC modules share: unit configurations and orders. *)
EXTENDS Naturals, Sequences

Plain(class, side, start, strength) ==
  [class |-> class, side |-> side, start |-> start, strength |-> strength,
   leadership |-> FALSE, bonus |-> 0, indestructible |-> FALSE, range |-> 0,
   respawns |-> FALSE, respawnTurns |-> 0, maia |-> FALSE, abilityPaths |-> {},
   ignoresFortress |-> FALSE, canFortify |-> FALSE, cooldown |-> 0]

NewOrder(player, type, unit) ==
  [type |-> type, player |-> player, unit |-> unit, turn |-> 0, route |-> <<>>,
   path |-> "", region |-> ""]

OnPath(player, type, unit, path) == [NewOrder(player, type, unit) EXCEPT !.path = path]

OnRegion(player, type, unit, region) ==
  [NewOrder(player, type, unit) EXCEPT !.region = region]

OnRoute(player, type, unit, route) ==
  [NewOrder(player, type, unit) EXCEPT !.route = route]

Attack(player, unit, region) == OnRegion(player, "ATTACK_REGION", unit, region)
Deploy(unit, region) == OnRegion("dark", "DEPLOY_NAZGUL", unit, region)
Assign(player, unit, route) == OnRoute(player, "ASSIGN_ROUTE", unit, route)
Block(player, unit, path) == OnPath(player, "BLOCK_PATH", unit, path)
Search(player, unit, path) == OnPath(player, "SEARCH_PATH", unit, path)
Maia(player, unit, path) == OnPath(player, "MAIA_ABILITY", unit, path)
=============================================================================
