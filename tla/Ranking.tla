------------------------------ MODULE Ranking ------------------------------
(***************************************************************************)
(* "Melhor Trader": domain/leaderboard.ts and leaderboard.service.ts.  An  *)
(* order is a record with who, status and items, a sequence of [product,   *)
(* qty, paid, base]; orders is a sequence in order of creation.            *)
(***************************************************************************)
EXTENDS Pricing, Sequences, SequencesExt

CONSTANTS MaxScored,   \* LEADERBOARD_MAX_SCORED_UNITS
          MinUnits,    \* LEADERBOARD_MIN_UNITS
          TopSize      \* LEADERBOARD_TOP_SIZE

ASSUME ScoredAssumption == MaxScored \in Nat

Counted == {"PAID", "PARTIALLY_REDEEMED", "REDEEMED"}

\* Thousandths of a point, so that only the mean is rounded.
unitSaving(unit) == round((unit.base - unit.paid) * One * One, unit.base)

\* One unit per drink, in the order the orders were created.
expandUnits(items) ==
  FlattenSeq([i \in DOMAIN items |->
    [n \in 1 .. items[i].qty |-> [paid |-> items[i].paid, base |-> items[i].base]]])

UnitsOf(orders, who) ==
  FlattenSeq([n \in DOMAIN orders |->
    IF orders[n].who = who /\ orders[n].status \in Counted
      THEN expandUnits(orders[n].items) ELSE <<>>])

\* Fault: every unit counts.
scoreParticipant_All(units) ==
  LET n == Len(units)
      saved == SumFunction([i \in 1 .. n |-> unitSaving(units[i])])
  IN  [points |-> IF n = 0 THEN 0 ELSE round(saved, n * One),
       ranked |-> n >= MinUnits]

\* Only the first units count: scored units, their mean saving in points.
scoreParticipant(units) ==
  LET n == Min({MaxScored, Len(units)})
      saved == SumFunction([i \in 1 .. n |-> unitSaving(units[i])])
  IN  [points |-> IF n = 0 THEN 0 ELSE round(saved, n * One),
       ranked |-> n >= MinUnits]

\* Points, then the nickname (people carry its rank) break the order.
before(people, a, b) ==
  \/ a.points > b.points
  \/ a.points = b.points /\ people[a.who].nickname < people[b.who].nickname

\* Equal points share a position, and the next one skips.
rankEntries(entries) ==
  {[who |-> e.who, points |-> e.points, team |-> e.team,
    position |-> 1 + Cardinality({f \in entries : f.points > e.points})] : e \in entries}

\* An average, not a sum: 0 is "no team".
rankTeams(ranked) ==
  LET of(team) == {e \in ranked : e.team = team}
  IN  {[team |-> t, members |-> Cardinality(of(t)),
        points |-> round(SumFunction([e \in of(t) |-> e.points]), Cardinality(of(t)))] :
       t \in {e.team : e \in ranked} \ {0}}

\* What `me' sees: the top, its own row even outside it, and the teams.
\* people maps a participant to [optIn, team, nickname].
view(orders, people, me) ==
  LET score == [w \in DOMAIN people |-> scoreParticipant(UnitsOf(orders, w))]
      ranked == rankEntries({[who |-> w, points |-> score[w].points, team |-> people[w].team] :
                             w \in {v \in DOMAIN people : people[v].optIn /\ score[v].ranked}})
      mine == {e \in ranked : e.who = me}
  IN  [entries |-> {e \in ranked :
                     Cardinality({f \in ranked : before(people, f, e)}) < TopSize},
       me |-> [points |-> score[me].points, optedIn |-> people[me].optIn,
               position |-> IF mine = {} THEN 0 ELSE (CHOOSE e \in mine : TRUE).position],
       teams |-> rankTeams(ranked)]

=============================================================================
