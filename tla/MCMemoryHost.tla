---------------------------- MODULE MCMemoryHost ----------------------------
(***************************************************************************)
(* The books of the reference host, which share its lock and its clock but *)
(* no state, its combat component, and the algorithms without a state:     *)
(* "part" says which of them a behavior is about, the others keep their    *)
(* initial state.                                                          *)
(***************************************************************************)
EXTENDS MemoryHost, HostBooks, CombatComponent, MCAlgorithms

VARIABLE part
component == <<unit, stored, handler>>
all == <<host, ledger, owned, component, job, part>>

MCInit == /\ part \in {"life", "states", "owned", "component", "algorithms"}
          /\ Init /\ BooksInit /\ ComponentInit
          /\ IF part = "algorithms" THEN JobInit ELSE job = [kind |-> "none"]
MCNext == /\ \/ part = "life" /\ Next /\ UNCHANGED <<ledger, owned, component, job>>
             \/ part = "states" /\ LedgerNext /\ UNCHANGED <<host, owned, component, job>>
             \/ part = "owned" /\ OwnedNext /\ UNCHANGED <<host, ledger, component, job>>
             \/ part = "component" /\ ComponentNext /\ UNCHANGED <<host, ledger, owned, job>>
             \/ part = "algorithms" /\ JobNext /\ UNCHANGED <<host, ledger, owned, component>>
          /\ UNCHANGED part
MCSpec == MCInit /\ [][MCNext]_all

-----------------------------------------------------------------------------
(* Life: 1 strikes and drains life, 2 is tenacious and may be killed.      *)

MCEntity == {1, 2}
MCStats == 1 :> [NoSource EXCEPT !.alive = TRUE, !.maxHealth = 2, !.vamp = 4]
           @@ 2 :> [NoSource EXCEPT !.alive = TRUE, !.maxHealth = 2]
MCTenacity == 1 :> 0 @@ 2 :> 2
MCTags == 1 :> {} @@ 2 :> {}

Entry == [category |-> "buff", refresh |-> "stack", maxStacks |-> 1, dispellable |-> TRUE, priority |-> 1,
          hooks |-> {}, consumed |-> FALSE, immunity |-> {}, tags |-> {}, maxDuration |-> 2,
          tenacious |-> FALSE, ownership |-> "source", copyable |-> TRUE, transferable |-> TRUE,
          stealable |-> FALSE, durations |-> {}, bonus |-> <<"none", 0>>]
MCStatus == {"rage", "shield", "aegis", "stun"}
MCPolicy ==
    [s \in MCStatus |->
       CASE s = "rage" -> [Entry EXCEPT !.maxStacks = 2, !.hooks = {"critical_override"}, !.bonus = <<"mul_bp", 6>>]
         [] s = "shield" -> [Entry EXCEPT !.category = "shield", !.priority = 2, !.bonus = <<"add", 1>>]
         [] s = "aegis" -> [Entry EXCEPT !.refresh = "replace", !.consumed = TRUE, !.tags = {"steady"},
                                         !.hooks = {"death_prevention", "spell_shield", "control_immunity"}, !.copyable = FALSE]
         [] OTHER -> [Entry EXCEPT !.category = "control", !.immunity = {"steady"}, !.tenacious = TRUE]]

MCApplication == {<<"rage", 1, 1, 1, 2>>, <<"aegis", 2, 2, 1, 3>>, <<"stun", 1, 2, 1, 2>>}
MCModification == {<<"remove", 2, 0, 0, "">>, <<"set_stacks", 1, 0, 0, "">>, <<"add_stacks", 1, 2, 0, "">>, <<"refresh", 2, 0, 0, "">>,
                   <<"transfer_to", 1, 0, 2, "new_owner">>, <<"copy_to", 2, 0, 1, "original_owner">>,
                   <<"add_duration", 1, 1, 0, "">>}
Input == [amount |-> 2, type |-> "true", crit |-> TRUE, spell |-> FALSE]
MCHit == {<<1, 2, Input>>, <<1, 2, [Input EXCEPT !.spell = TRUE, !.amount = 3]>>}
MCGrant == {<<1, 2, 2, 1>>}
MCBonus == {<<"mul_bp", 3, 2>>}
MCAttribute == [base |-> 3, minimum |-> 0, maximum |-> 60, halfAway |-> TRUE]
MCStep == {<<2, 1>>}
MCCapture == {<<1, 2>>}
MCUnwalkable == 1 :> 0
MCProfile == [fields |-> {"health", "position", "statuses"}, perOwner |-> 1, age |-> 1, blocked |-> "nearest", revive |-> TRUE]

-----------------------------------------------------------------------------
(* States: a counter that is extended, a flag that keeps its time and the  *)
(* memory of an entity.                                                    *)
Counter == [type |-> "int", minimum |-> 0, maximum |-> 3, most |-> 2, expiry |-> "extend", default |-> 0,
            clearOn |-> {"owner_death", "match_end"}]
MCStatePolicy == [count |-> Counter,
                  flag |-> [Counter EXCEPT !.maximum = 1, !.most = 1, !.expiry = "keep", !.clearOn = {"target_death"}],
                  mark |-> [Counter EXCEPT !.type = "entity", !.most = 0, !.expiry = "refresh"]]
MCKey == {[owner |-> 1, subject |-> 0, policy |-> "count"], [owner |-> 1, subject |-> 2, policy |-> "flag"],
          [owner |-> 2, subject |-> 0, policy |-> "mark"]}
MCMutation == {<<"add", 2, 2>>, <<"set", 1, 1>>, <<"mul_bp", 6, 2>>, <<"max", 2, 1>>, <<"min", 1, 1>>, <<"add", Top, 1>>}
MCBeing == {1, 2}
MCResource == {"mana"}
MCCosts == {<<1, <<<<"mana", 1>>, <<"mana", 1>>>>>>, <<1, <<<<"mana", Top>>, <<"mana", Top>>>>>>}
MCChange == {<<1, "mana", "add", Top>>, <<1, "mana", "sub", 2>>, <<1, "mana", "set", 1>>}

(* Owned: the two owners of a team, with a turret that replaces and a mine *)
(* that does not.                                                          *)
MCHero == {1, 2}
MCTeam == 1 :> 1 @@ 2 :> 1
Turret == [perOwner |-> 2, perSource |-> 2, perTeam |-> 3, replacement |-> "replace_nearest", maximum |-> 2, lifetime |-> 2,
           ownerDeath |-> "despawn", skillRemoved |-> "despawn", matchEnd |-> "keep",
           commands |-> {"move_to", "return_to_owner", "despawn"}]
MCTemplate == [turret |-> Turret,
               mine |-> [Turret EXCEPT !.perSource = 1, !.perTeam = 0, !.replacement = "reject_new", !.maximum = 1,
                                       !.ownerDeath = "keep", !.matchEnd = "despawn", !.commands = {}]]
MCSpawn == {<<1, "turret", "a", 2, 0, 2, TRUE>>, <<2, "turret", "a", 1, 1, 1, FALSE>>, <<1, "turret", "b", 1, 0, 1, FALSE>>,
            <<2, "mine", "b", 1, 0, 2, FALSE>>, <<2, "turret", "b", 2, 0, 1, TRUE>>}
MCOrder == {<<1, "move_to", 1>>, <<2, "return_to_owner", 0>>, <<1, "despawn", 0>>}

(* Component: 1 drains life from 2, who resists; a stacking buff, one that *)
(* replaces itself, one that wards off and a plain modifier.               *)
MCUnit == {1, 2}
MCBorn == MCStats
MCResist == 1 :> 0 @@ 2 :> 2
Plain == [tags |-> {"magic"}, immunity |-> {}, most |-> 1, policy |-> "refresh", tenacious |-> FALSE, longest |-> 2,
          bonus |-> <<>>, replaces |-> FALSE, ownership |-> "source", stealable |-> FALSE, dispellable |-> TRUE,
          durations |-> {}, copyable |-> TRUE, transferable |-> TRUE]
MCCatalog == [haste |-> [Plain EXCEPT !.most = 2, !.bonus = <<1, 2>>, !.policy = "extend", !.stealable = TRUE],
              charm |-> [Plain EXCEPT !.replaces = TRUE, !.bonus = <<0, -2>>, !.tenacious = TRUE, !.tags = {"charm"}],
              ward |-> [Plain EXCEPT !.immunity = {"charm"}, !.policy = "ignore", !.ownership = "owner"],
              modifier |-> [Plain EXCEPT !.policy = "independent", !.bonus = <<1, 0>>, !.tags = {}]]
MCUse == {<<1, "haste", 2, 1, 1>>, <<2, "charm", 1, 2, 1>>, <<2, "ward", 1, 2, 2>>, <<1, "modifier", 1, 1, 2>>}
MCEdit == {<<"transfer_to", 2, 0, 2, "new_owner">>, <<"copy_to", 1, 0, 1, "original_owner">>, <<"add_stacks", 1, 1, 0, "">>,
           <<"set_stacks", 2, 0, 0, "">>, <<"add_duration", 1, 1, 0, "">>, <<"refresh", 2, 0, 0, "">>, <<"remove", 1, 0, 0, "">>}
MCBlow == {<<1, 2, Input>>, <<0, 1, Input>>}
MCBill == {<<1, <<1, 1>>>>, <<1, <<Top, Top>>>>}
MCGift == {<<1, "set", 1>>, <<1, "spend", 1>>}
=============================================================================
