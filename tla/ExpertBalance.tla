---------------------------- MODULE ExpertBalance ----------------------------
(***************************************************************************)
(* The dynamic load balancer of the experts of one MoE layer in an expert  *)
(* parallel group: MoELoadPlanner counts the tokens of every expert slot   *)
(* while a decode step runs, sums the counts over the ranks every          *)
(* moe_lb_trigger steps, and plans moves on every rank for itself;         *)
(* WeightMigrationExecutor sends the weights; then each rank updates its   *)
(* tables and routes tokens by them.  With as many slots as experts two    *)
(* experts exchange their slots; with more, a redundant slot gets a copy   *)
(* of a busy expert.                                                       *)
(*                                                                         *)
(* A slot is its global index: slot % capacity on rank slot / capacity.    *)
(* Layers are alike and share no slot, so one is modelled.  The group is   *)
(* the only one and starts at world rank 0.  All tensors are on a device   *)
(* index_select takes its index from.                                      *)
(***************************************************************************)
EXTENDS Integers, SequencesExt

CONSTANTS
  Configs,       \* the groups to consider, see args
  Every,         \* infer.moe_lb_trigger
  Threshold,     \* infer.moe_lb_threshold, in percent
  Loads,         \* pairs: tokens of the two slots that get any in a decode step
  WarmupSteps,   \* bound: decode steps of the warm-up
  MaxCounted,    \* bound: tokens counted between two aggregations
  MaxPlaces      \* bound: entries of an expert in expert_slots

ASSUME EveryAssumption == Every \in Nat \ {0}
ASSUME LoadsAssumption == Loads \subseteq Nat \X Nat

\* infer.ep_size, n_routed_experts and num_experts_slots (rounded up to whole ranks).
ASSUME ConfigsAssumption ==
  \A c \in Configs :
    /\ c \in [ep : Nat \ {0}, experts : Nat \ {0}, slots : Nat \ {0}]
    /\ c.slots % c.ep = 0 /\ c.experts <= c.slots

VARIABLES
  args,       \* one of Configs
  weights,    \* the expert whose weights a slot holds, Blank for zeroed buffers
  planner,    \* per rank: _mapping, inv_mappings, expert_slots, redundant_slots
  stats,      \* per rank: _stats_tensor
  counted,    \* local_slot_expert_stats, of the rank of the slot
  locked,     \* per rank: lock_stats
  warmup,     \* decode steps of the warm-up done, or Over
  step,       \* _lb_step modulo moe_lb_trigger
  pending,    \* per rank: the planned actions, until they are applied
  sent,       \* per rank: the weights it sends for the actions it has a part in
  pc          \* per rank

balancerVars == <<args, weights, planner, stats, counted, locked, warmup, step, pending, sent, pc>>

Blank == -1
Over == -1

Ranks == 0 .. args.ep - 1
Experts == 0 .. args.experts - 1
Slots == 0 .. args.slots - 1
Capacity == args.slots \div args.ep
RankOf(g) == g \div Capacity
SlotsOf(r) == {g \in Slots : RankOf(g) = r}
Redundant == {g \in Slots : g >= args.experts}
Exchange == args.slots = args.experts

FirstMax(S, f) == CHOOSE x \in S : \A y \in S : f[x] > f[y] \/ (f[x] = f[y] /\ x <= y)
FirstMin(S, f) == CHOOSE x \in S : \A y \in S : f[x] < f[y] \/ (f[x] = f[y] /\ x <= y)

-----------------------------------------------------------------------------
(* Placement at the start: the experts in turn, for the weights that are loaded *)
(* (naive_assign_slot) and for the tables (_init_default_mapping) alike.       *)

InitialPlace(c, g) == g % c.experts

\* The slots e is placed in, in order.
InitialSlots(c, e) ==
  [i \in 1 .. (c.slots - 1 - e) \div c.experts + 1 |-> e + (i - 1) * c.experts]

InitialPlanner(c, r) ==
  [mapping |-> [g \in 0 .. c.slots - 1 |-> InitialPlace(c, g)],
   inv |-> [e \in 0 .. c.experts - 1 |->
              InitialSlots(c, e)[(r % Len(InitialSlots(c, e))) + 1]],
   places |-> [e \in 0 .. c.experts - 1 |-> InitialSlots(c, e)],
   redundant |-> [g \in {s \in 0 .. c.slots - 1 : s >= c.experts} |-> 0]]

NoCounts == [g \in Slots |-> 0]

BalancerInit ==
  /\ args \in Configs
  /\ weights = [g \in Slots |-> InitialPlace(args, g)]
  /\ planner = [r \in Ranks |-> InitialPlanner(args, r)]
  /\ stats = [r \in Ranks |-> NoCounts]
  /\ counted = NoCounts
  /\ locked = [r \in Ranks |-> FALSE]
  /\ warmup = 0
  /\ step = 0
  /\ pending = [r \in Ranks |-> <<>>]
  /\ sent = [r \in Ranks |-> <<>>]
  /\ pc = [r \in Ranks |-> "forward"]

-----------------------------------------------------------------------------
(* Executor.step: the ranks exchange tokens in the forward pass, so it is one *)
(* step of all of them; the balancer follows.                                 *)

AtForward == \A r \in Ranks : pc[r] = "forward"

NextStep == step' = (step + 1) % Every

\* Prefill steps count no tokens and trigger nothing.
PrefillStep ==
  /\ AtForward
  /\ NextStep
  /\ UNCHANGED <<args, weights, planner, stats, counted, locked, warmup, pending, sent, pc>>

RoutedTo == {planner[r].inv[e] : r \in Ranks, e \in Experts}

\* The tokens of a decode step go where some rank routes them, and are counted on
\* arrival unless the statistics are locked.
DecodeStep ==
  /\ AtForward
  /\ warmup # Over => warmup < WarmupSteps
  /\ \A r \in Ranks, e \in Experts : Len(planner[r].places[e]) <= MaxPlaces
  /\ \E hot, warm \in RoutedTo, n \in Loads :
       /\ SumFunction(counted) + n[1] + n[2] <= MaxCounted
       /\ counted' = [g \in Slots |-> IF locked[RankOf(g)] THEN counted[g]
                                      ELSE counted[g] + (IF g = hot THEN n[1] ELSE 0)
                                                      + (IF g = warm THEN n[2] ELSE 0)]
  /\ NextStep
  /\ warmup' = IF warmup = Over THEN Over ELSE warmup + 1
  /\ pc' = [r \in Ranks |-> IF step = 0 THEN "aggregate" ELSE "commit"]
  /\ UNCHANGED <<args, weights, planner, stats, locked, pending, sent>>

\* set_warmup_mode(False)
EndWarmup ==
  /\ AtForward
  /\ warmup \in 1 .. WarmupSteps
  /\ warmup' = Over
  /\ UNCHANGED <<args, weights, planner, stats, counted, locked, step, pending, sent, pc>>

\* A slip: a rank keeps its own part of the counts.
AggregateLocally ==
  /\ \A r \in Ranks : pc[r] = "aggregate"
  /\ stats' = [r \in Ranks |-> [g \in Slots |-> IF RankOf(g) = r THEN stats[r][g] + counted[g]
                                                              ELSE stats[r][g]]]
  /\ locked' = [r \in Ranks |-> TRUE]
  /\ pc' = [r \in Ranks |-> "plan"]
  /\ UNCHANGED <<args, weights, planner, counted, warmup, step, pending, sent>>

\* aggregate_expert_stats_for_current_batch: every rank adds its part, and all_reduce
\* sums the tensors.
AggregateExpertStats ==
  /\ \A r \in Ranks : pc[r] = "aggregate"
  /\ stats' = [r \in Ranks |->
                 [g \in Slots |-> SumFunction([k \in Ranks |-> stats[k][g]]) + counted[g]]]
  /\ locked' = [r \in Ranks |-> TRUE]
  /\ pc' = [r \in Ranks |-> "plan"]
  /\ UNCHANGED <<args, weights, planner, counted, warmup, step, pending, sent>>

-----------------------------------------------------------------------------
(* Planning *)

Move(p, from, to) ==
  [from |-> from, to |-> to, fromExpert |-> p.mapping[from],
   toExpert |-> IF Exchange THEN p.mapping[to] ELSE p.redundant[to]]

\* load / (total / ep_size), compared with the threshold
Exceeds(load, total) == load * args.ep * 100 > Threshold * total
Reaches(load, total) == load * args.ep * 100 >= Threshold * total

\* _plan_layer: one exchange between the busiest and the idlest rank.  The counts of
\* slots are looked up by expert id.
PlanLayer(p, n) ==
  LET count == [g \in Slots |-> n[p.mapping[g]]]
      load == [r \in Ranks |-> SumFunctionOnSet(count, SlotsOf(r))]
      donor == FirstMax(Ranks, load)
      receiver == FirstMin(Ranks, load)
  IN  IF Exceeds(load[donor], SumFunction(n)) /\ donor # receiver
      THEN <<Move(p, FirstMax(SlotsOf(donor), count), FirstMin(SlotsOf(receiver), count))>>
      ELSE <<>>

\* One round of _plan_layer_replace_cpu: half of the busiest slot's tokens are expected
\* in the idlest redundant slot from then on.
PlanRound(p, total, plan) ==
  LET donor == FirstMax(Ranks, plan.loads)
      to == FirstMin(Redundant, plan.count)
      from == FirstMax(SlotsOf(donor), plan.count)
      half == plan.count[from] \div 2
  IN  IF ~Reaches(plan.loads[donor], total) \/ donor = RankOf(to) THEN plan
      ELSE [acts |-> Append(plan.acts, Move(p, from, to)),
            loads |-> [plan.loads EXCEPT ![donor] = @ - half,
                                         ![RankOf(to)] = @ + half - plan.count[to]],
            count |-> [plan.count EXCEPT ![from] = @ - half, ![to] = half]]

\* _plan_layer_replace_cpu with max_moves = 3; the tables stay as they were meanwhile.
PlanLayerReplace(p, n) ==
  LET total == SumFunction(n)
      start == [acts |-> <<>>, count |-> n, loads |-> [r \in Ranks |-> SumFunctionOnSet(n, SlotsOf(r))]]
      first == PlanRound(p, total, start)
      second == PlanRound(p, total, first)
  IN  PlanRound(p, total, second).acts

Plan(r) ==
  IF SumFunction(stats[r]) = 0 THEN <<>>
  ELSE IF Exchange THEN PlanLayer(planner[r], stats[r])
  ELSE PlanLayerReplace(planner[r], stats[r])

-----------------------------------------------------------------------------
(* Migration *)

HasRole(r, act) == r \in {RankOf(act.from), RankOf(act.to)}
RoleSlot(r, act) == IF RankOf(act.from) = r THEN act.from ELSE act.to
Peer(r, act) == IF RankOf(act.from) = r THEN RankOf(act.to) ELSE RankOf(act.from)
Receives(r, act) == Exchange \/ RankOf(act.to) = r

Roles(r) == {i \in DOMAIN pending[r] : HasRole(r, pending[r][i])}

\* generate_actions_and_order and launch_migration_async.  In the warm-up nothing is
\* planned, and nothing reset or unlocked.
GenerateActions(r) ==
  /\ pc[r] = "plan"
  /\ IF warmup # Over
     THEN UNCHANGED <<stats, counted, locked, pending, sent>>
     ELSE /\ pending' = [pending EXCEPT ![r] = Plan(r)]
          /\ sent' = [sent EXCEPT ![r] =
                        [i \in {j \in DOMAIN pending'[r] : HasRole(r, pending'[r][j])} |->
                           weights[RoleSlot(r, pending'[r][i])]]]
          /\ stats' = [stats EXCEPT ![r] = NoCounts]
          /\ counted' = [g \in Slots |-> IF RankOf(g) = r THEN 0 ELSE counted[g]]
          /\ locked' = [locked EXCEPT ![r] = FALSE]
  /\ pc' = [pc EXCEPT ![r] = "commit"]
  /\ UNCHANGED <<args, weights, planner, warmup, step>>

\* A slip: a sender installs what it has staged as well.
InstalledBySender(r, g) ==
  LET users == {i \in Roles(r) : RoleSlot(r, pending[r][i]) = g}
      last == pending[r][Max(users)]
  IN  IF users = {} THEN weights[g]
      ELSE IF Receives(r, last) THEN sent[Peer(r, last)][Max(users)]
      ELSE Blank

\* Buffers are staged by slot, a sender's too: of several actions with a part for one
\* slot the last one's are installed, and a sender's have received nothing.
Installed(r, g) ==
  LET users == {i \in Roles(r) : RoleSlot(r, pending[r][i]) = g}
      last == pending[r][Max(users)]
  IN  IF \A i \in users : ~Receives(r, pending[r][i]) THEN weights[g]
      ELSE IF Receives(r, last) THEN sent[Peer(r, last)][Max(users)]
      ELSE Blank

\* A slip: the inverse mapping is left alone, as if the next batch rebuilt it.
ExchangedKeepingInverse(p, a) ==
  [p EXCEPT !.mapping = [@ EXCEPT ![a.to] = a.fromExpert, ![a.from] = a.toExpert]]

\* The list without slot g, however often it is there.
Without(slots, g) ==
  LET kept[i \in 0 .. Len(slots)] == IF i = 0 THEN <<>>
                                     ELSE IF slots[i] = g THEN kept[i - 1]
                                     ELSE Append(kept[i - 1], slots[i])
  IN  kept[Len(slots)]

\* apply_actions
Exchanged(p, a) ==
  LET inv == [p.inv EXCEPT ![a.fromExpert] = IF @ = a.from THEN a.to ELSE @,
                           ![a.toExpert] = IF @ = a.to THEN a.from ELSE @]
      places == [p.places EXCEPT ![a.fromExpert] = Append(Without(@, a.from), a.to),
                                 ![a.toExpert] = Append(Without(@, a.to), a.from)]
  IN  [mapping |-> [p.mapping EXCEPT ![a.to] = a.fromExpert, ![a.from] = a.toExpert],
       inv |-> inv, places |-> places, redundant |-> p.redundant]

\* apply_actions_replace on rank r: the expert that loses the slot is routed to one of
\* its other slots, the one that gets it from the ranks with even numbers.
Replaced(p, r, a) ==
  LET left == Without(p.places[a.toExpert], a.to)
      rerouted == IF p.inv[a.toExpert] = a.to
                  THEN [p.inv EXCEPT ![a.toExpert] = left[(r % Len(left)) + 1]]
                  ELSE p.inv
      places == [p.places EXCEPT ![a.toExpert] = left]
  IN  [mapping |-> [p.mapping EXCEPT ![a.to] = a.fromExpert],
       inv |-> IF p.inv[a.fromExpert] = a.from /\ r % 2 = 0
               THEN [rerouted EXCEPT ![a.fromExpert] = a.to]
               ELSE rerouted,
       places |-> [places EXCEPT ![a.fromExpert] = Append(@, a.from)],
       redundant |-> [p.redundant EXCEPT ![a.to] = a.fromExpert]]

Applied(r) ==
  FoldLeft(LAMBDA p, a : IF Exchange THEN Exchanged(p, a) ELSE Replaced(p, r, a),
           planner[r], pending[r])

\* The last rank to finish leaves no buffers behind.
Finished(r) ==
  /\ pending' = [pending EXCEPT ![r] = <<>>]
  /\ pc' = [pc EXCEPT ![r] = "forward"]
  /\ sent' = IF \A k \in Ranks \ {r} : pc[k] = "forward" THEN [k \in Ranks |-> <<>>] ELSE sent

\* A slip: a rank without a part in the moves leaves its tables as they are.
CommitOwn(r) ==
  /\ pc[r] = "commit"
  /\ \A i \in Roles(r) : i \in DOMAIN sent[Peer(r, pending[r][i])]
  /\ weights' = [g \in Slots |-> IF RankOf(g) = r THEN Installed(r, g) ELSE weights[g]]
  /\ planner' = [planner EXCEPT ![r] = IF Roles(r) = {} THEN @ ELSE Applied(r)]
  /\ Finished(r)
  /\ UNCHANGED <<args, stats, counted, locked, warmup, step>>

\* commit_ready_layers: the rank waits for its transfers, installs what it received
\* and applies the actions to its tables.
CommitReadyLayers(r) ==
  /\ pc[r] = "commit"
  /\ \A i \in Roles(r) : i \in DOMAIN sent[Peer(r, pending[r][i])]
  /\ weights' = [g \in Slots |-> IF RankOf(g) = r THEN Installed(r, g) ELSE weights[g]]
  /\ planner' = [planner EXCEPT ![r] = Applied(r)]
  /\ Finished(r)
  /\ UNCHANGED <<args, stats, counted, locked, warmup, step>>

-----------------------------------------------------------------------------
Balance ==
  \/ AggregateExpertStats
  \/ \E r \in Ranks : GenerateActions(r) \/ CommitReadyLayers(r)

BalancerNext == PrefillStep \/ DecodeStep \/ EndWarmup \/ Balance

BalancerSpec == BalancerInit /\ [][BalancerNext]_balancerVars
-----------------------------------------------------------------------------

\* A token routed to an expert is computed with the weights of that expert: a rank's
\* inverse mapping leads to a slot that holds them ("subsequent routing follows new
\* placement").
RoutedToOwnWeights ==
  AtForward => \A r \in Ranks, e \in Experts : weights[planner[r].inv[e]] = e

\* With as many slots as experts routing is right after any number of exchanges, and the
\* three tables and the weights tell the same.
ExchangeKeepsRoutes ==
  Exchange /\ AtForward =>
    /\ RoutedToOwnWeights
    /\ \A r \in Ranks : planner[r].mapping = weights
    /\ \A r \in Ranks, e \in Experts : planner[r].places[e] = <<planner[r].inv[e]>>

\* No expert is lost: whatever is moved, overwritten or left blank, some slot has its
\* weights when tokens are computed.
ExpertsSurvive == AtForward => \A e \in Experts : \E g \in Slots : weights[g] = e

\* The ranks plan apart from each other and keep tables of their own, which agree in all
\* but the inverse mapping whenever they compute together: their next plans will match.
RanksAgree ==
  AtForward => \A r, k \in Ranks :
    /\ planner[r].mapping = planner[k].mapping
    /\ planner[r].places = planner[k].places
    /\ planner[r].redundant = planner[k].redundant
    /\ stats[r] = stats[k] /\ locked[r] = locked[k]

\* No rank waits for ever: whoever has a part in a move finds that its peer has planned
\* the same move, or is about to plan.
TransfersMatch ==
  \A r \in Ranks : pc[r] = "commit" =>
    \A i \in Roles(r) : LET k == Peer(r, pending[r][i])
                        IN  pc[k] = "plan" \/ i \in DOMAIN sent[k]
=============================================================================
