------------------------------- MODULE Shortlist ------------------------------
(***************************************************************************)
(* cost/: from the rows of the model catalogue to the candidates of a      *)
(* benchmark.  A row becomes an entry or is dropped (openrouter.py), is    *)
(* kept by the filter or not (filter.py), gets a cost or none, and the     *)
(* entries in order of cost give each vendor its seats and fill up with    *)
(* the cheapest (estimator.py).  Amounts are small integers; a field the   *)
(* catalogue leaves out is Missing.                                        *)
(***************************************************************************)
EXTENDS Integers, Sequences, FiniteSets, FiniteSetsExt, Functions

CONSTANTS
    MaxOutput,     \* CostFilter.max_output_price_per_m
    MinContext,    \* CostFilter.min_context_length
    Penalty,       \* moderated_penalty, in percent: 115
    Profile        \* CostProfile: the tokens [cached, fresh, output] of a call

ASSUME ShortlistAssumption ==
    /\ MaxOutput \in Int /\ MinContext \in Int
    /\ Penalty \in Nat \ {0}
    /\ Profile \in [cached : Nat, fresh : Nat, output : Nat]

Missing == -99
Known(v) == v # Missing

-----------------------------------------------------------------------------
(* openrouter.py *)

Status(ep) == CASE ep.status \in {"live", "available"} -> 0
                [] ep.status \in {"degraded", "none"} -> 1
                [] OTHER -> 2

OrZero(v) == IF Known(v) THEN v ELSE 0

\* Slip: an uptime of zero is taken for no uptime.
UptimeTruthy(ep) == IF Known(ep.uptime30) /\ ep.uptime30 # 0 THEN ep.uptime30 ELSE OrZero(ep.uptime5)

Uptime(ep) == IF Known(ep.uptime30) THEN ep.uptime30 ELSE OrZero(ep.uptime5)

\* Missing latency is worse than any.
Slower(e, f) == Known(f.latency) /\ (~Known(e.latency) \/ e.latency > f.latency)

\* The sort key of _pick_best_upstream, field by field.
BeatenBy(e, f) ==
    \/ Status(e) > Status(f)
    \/ /\ Status(e) = Status(f)
       /\ \/ Uptime(e) < Uptime(f)
          \/ /\ Uptime(e) = Uptime(f)
             /\ \/ Slower(e, f)
                \/ (e.latency = f.latency /\ OrZero(e.throughput) < OrZero(f.throughput))

\* The first of the endpoints no other beats.
BestUpstream(endpoints) ==
    endpoints[Min({i \in DOMAIN endpoints : \A j \in DOMAIN endpoints : ~BeatenBy(endpoints[i], endpoints[j])})]

\* _per_token_to_per_m: the meta-routers' -1000000 is no price.
PerM(price) == IF price < 0 THEN Missing ELSE price

\* The smaller of the positive context lengths the row states.
Context(row) ==
    LET stated == {c \in {row.context, row.providerContext} : c > 0} IN
    IF stated = {} THEN Missing ELSE Min(stated)

\* _entry_from_or_row.
Entry(row) == [id |-> row.id, vendor |-> row.vendor, moderated |-> row.moderated, fits |-> row.fits,
               context |-> Context(row),
               input |-> PerM(row.prompt), output |-> PerM(row.completion), cacheRead |-> PerM(row.cacheRead)]

\* list_models, by the places in the catalogue: the rows of the paid tier.
Listed(rows) == [i \in {j \in DOMAIN rows : ~rows[j].free} |-> Entry(rows[i])]

-----------------------------------------------------------------------------
(* filter.py, estimator.py *)

\* CostFilter.keep: the bounds on the output price and on the context, and
\* whether the entry fits the others (input price, JSON mode, uptime, moderation).
Keep(e) ==
    /\ e.fits
    /\ Known(e.output) /\ e.output <= MaxOutput
    /\ Known(e.context) /\ e.context >= MinContext

\* Slip: a price of zero is taken for no price.
PricedTruthy(e) == Known(e.input) /\ Known(e.output) /\ e.input > 0 /\ e.output > 0

\* estimate_call_cost returns a cost.
Priced(e) == Known(e.input) /\ Known(e.output)

CacheRate(e) == IF e.cacheRead > 0 THEN e.cacheRead ELSE e.input

Cost(e) == Profile.cached * CacheRate(e) + Profile.fresh * e.input + Profile.output * e.output

\* Slip: moderated_penalty is read nowhere.
RankCostPlain(e) == 100 * Cost(e)

RankCost(e) == Cost(e) * (IF e.moderated THEN Penalty ELSE 100)

\* _sort_key, down to the context length.
Cheaper(e, f) ==
    \/ RankCost(e) < RankCost(f)
    \/ RankCost(e) = RankCost(f) /\ OrZero(e.context) > OrZero(f.context)

\* Of the entries listed those kept, not denied and priced.
Estimates(rows, denied) ==
    LET listed == Listed(rows)
    IN Restrict(listed, {i \in DOMAIN listed : listed[i].id \notin denied /\ Keep(listed[i]) /\ Priced(listed[i])})

\* The estimates in order: a stable sort.
Before(est, i, j) == Cheaper(est[i], est[j]) \/ (~Cheaper(est[j], est[i]) /\ i < j)

\* seen_ids: a model the catalogue lists twice is taken once.
First(est, i) == \A j \in DOMAIN est : Before(est, j, i) => est[j].id # est[i].id

Ahead(est, S, i) == Cardinality({j \in S : Before(est, j, i)})

OfVendor(est, v) == {j \in DOMAIN est : est[j].vendor = v}

\* include_topn_best_by_provider seats for each vendor.
Seats(est, perVendor) ==
    {i \in DOMAIN est : First(est, i) /\ Ahead(est, OfVendor(est, est[i].vendor), i) < perVendor}

Others(est, seats) == {i \in DOMAIN est \ seats : First(est, i)}

\* Slip: the fill-up does not count the seats taken.
ExtrasIgnoringSeats(est, seats, size) ==
    {i \in Others(est, seats) : Ahead(est, {j \in DOMAIN est : First(est, j)}, i) < size}

\* The cheapest others, until there are as many as asked for.
Extras(est, seats, size) ==
    {i \in Others(est, seats) : Cardinality(seats) + Ahead(est, Others(est, seats), i) < size}

\* estimate_top_n_by_cost: the places of the models selected, which are then
\* sorted as before.
Selected(est, size, perVendor) == LET seats == Seats(est, perVendor) IN seats \cup Extras(est, seats, size)

-----------------------------------------------------------------------------
(* Properties, of the rows of a catalogue and of the endpoints of a model *)

\* A catalogue is a list of rows with amounts that are numbers; the vendor is the
\* first part of the id.
IsCatalogue(rows) ==
    /\ Len(rows) \in Nat /\ DOMAIN rows = 1 .. Len(rows)
    /\ \A i \in DOMAIN rows :
         /\ {rows[i].prompt, rows[i].completion, rows[i].cacheRead} \subseteq Int
         /\ {rows[i].context, rows[i].providerContext} \subseteq Int
    /\ \A i, j \in DOMAIN rows : rows[i].id = rows[j].id => rows[i].vendor = rows[j].vendor

AreEndpoints(endpoints) ==
    /\ Len(endpoints) \in Nat \ {0} /\ DOMAIN endpoints = 1 .. Len(endpoints)
    /\ \A i \in DOMAIN endpoints :
         {endpoints[i].uptime30, endpoints[i].uptime5, endpoints[i].latency, endpoints[i].throughput} \subseteq Int

\* No endpoint is passed over for one that is up less and no better in any other
\* respect, a measured zero being what it says (openrouter.py,
\* _pick_best_upstream: zero is "a legitimate value here, and the worst one").
UpstreamIsUndominated(endpoints) ==
    LET best == BestUpstream(endpoints)
        now(ep) == IF Known(ep.uptime30) THEN ep.uptime30 ELSE ep.uptime5
    IN \A i \in DOMAIN endpoints : LET e == endpoints[i] IN
        ~ /\ Status(e) <= Status(best)
          /\ now(e) > now(best) /\ now(e) > 0
          /\ ~Slower(e, best)
          /\ e.throughput >= best.throughput

\* The shortlist names no model twice, has all that are usable unless it has as
\* many as were asked for, and is longer than that only by the vendors' seats
\* (estimator.py, "provider seats are added FIRST and are NOT truncated by n").
ShortlistIsFull(est, size, perVendor) ==
    LET ids(S) == {est[i].id : i \in S}
        places == Selected(est, size, perVendor)
        vendors == {est[i].vendor : i \in DOMAIN est}
        seated(v) == Cardinality(places \cap OfVendor(est, v))
    IN /\ Cardinality(ids(places)) = Cardinality(places)
       /\ Cardinality(places) >= size \/ ids(places) = ids(DOMAIN est)
       /\ perVendor > 0 => \A v \in vendors : seated(v) > 0
       /\ Cardinality(places) > size => \A v \in vendors : seated(v) <= perVendor

\* Who has no place is no cheaper than anyone in a place that is not among its
\* vendor's cheapest, a moderated model counting as dearer than it is
\* (estimator.py, the fill-up and _sort_key).
CheapestGoOn(est, size, perVendor) ==
    LET places == Selected(est, size, perVendor)
        out == {j \in DOMAIN est : \A i \in places : est[i].id # est[j].id}
        rank(e) == (IF e.moderated THEN Penalty ELSE 100) * Cost(e)
        betterOfVendor(i) == {j \in OfVendor(est, est[i].vendor) : Cheaper(est[j], est[i])}
    IN \A i \in places, j \in out :
         rank(est[j]) < rank(est[i]) => Cardinality(betterOfVendor(i)) < perVendor

\* A model that costs nothing, and passes the filter, is on top of the list: its
\* price is zero and not missing (estimator.py, estimate_call_cost).
FreeComesFirst(rows, denied, size, perVendor) ==
    LET est == Estimates(rows, denied)
        places == Selected(est, size, perVendor)
    IN /\ size > 0 \/ perVendor > 0
       /\ \E i \in DOMAIN rows : LET e == Entry(rows[i]) IN
            ~rows[i].free /\ e.input = 0 /\ e.output = 0 /\ e.cacheRead <= 0 /\ Keep(e) /\ e.id \notin denied
       => \E i \in places : Cost(est[i]) = 0 /\ \A j \in places : ~Before(est, j, i)
===============================================================================
