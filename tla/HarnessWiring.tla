----------------------------- MODULE HarnessWiring -----------------------------
(***************************************************************************)
(* Harnesses: a harness plugs into LRU connectors through endpoints, each  *)
(* with a mating connector whose pins are copies of the LRU's pins, and    *)
(* holds wires between LRU pins.  Wires come one by one                    *)
(* (batch_create_wires), from the auto-grow engine                         *)
(* (services/interface/auto_grow.py), which picks, extends or merges the   *)
(* harness for each pair of pins, or from the connection builder.          *)
(* Connection rows roll the wires up to pairs of units.                    *)
(*                                                                         *)
(* The session does not flush by itself (database.py: autoflush=False): a  *)
(* query does not see what the transaction has deleted but not flushed.    *)
(***************************************************************************)
EXTENDS InterfaceTopology, SequencesExt

CONSTANTS
  Harnesses, Wires,
  described,   \* [Pins -> [signal, type, direction, number]]: columns no step changes
  Rj45,        \* the connectors of that type
  Mappings,    \* strategies that auto-wire requests ask for
  Handled,     \* bound: the pins and connectors that single requests name
  Batches,     \* the pairs of pins that auto-grow requests name
  Decisions,   \* what a request decides for every ambiguous pair
  MaxMoved,    \* bound: wires that are given other pins
  Typed,       \* bound: wire numbers typed in
  Wirings      \* what a run starts from: [row, used]

VARIABLES
  drift,   \* pairs of units whose Connection row a request did not maintain
  moved    \* wires that were given other pins (update_wire)

wiring == <<topology, drift, moved>>

Drifts(P) == drift' = drift \cup P /\ UNCHANGED moved

-----------------------------------------------------------------------------
(* Pairs of units, and their Connection rows                                 *)

UnitAt(db, p) == db[db[p].connector].unit
Pair(db, w) == {UnitAt(db, db[w].from), UnitAt(db, db[w].to)}
IsPair(P) == None \notin P /\ \E u, v \in P : u # v
Joining(db, P) == {w \in Rows(db, "wire") : Pair(db, w) = P}
Connection(P) == <<"connection", P>>

ConnectionRow(P) ==
  LET u == CHOOSE x \in P : TRUE
  IN  [kind |-> "connection", a |-> u, b |-> CHOOSE x \in P : x # u]
Upserts(db, T) ==
  Insert(db, [x \in {Connection(P) : P \in {Q \in T : IsPair(Q)}} |-> ConnectionRow(x[2])])
UpsertConnection(db, P) == Upserts(db, {P})

\* Mutant: the pair counts as unwired when one of its wires goes.
Unjoined_Always(db, w) == {Connection(Pair(db, w))} \cap DOMAIN db

\* "Other wires" are those in the database, flushed deletions or not.
Unjoined(db, w) ==
  {x \in {Connection(Pair(db, w))} \cap DOMAIN db : Joining(db, Pair(db, w)) = {w}}

\* A wire of the pair is being deleted by another request.
Racing(P) == \E r \in pending : r.x \in Rows(row, "wire") /\ Pair(row, r.x) = P

-----------------------------------------------------------------------------
(* Harness endpoints                                                         *)

EndpointsOf(db, h) == Where(db, "endpoint", "harness", {h})
EndpointAt(db, c) == Where(db, "endpoint", "lru", {c})
HarnessOf(db, c) ==
  IF EndpointAt(db, c) = {} THEN None ELSE db[CHOOSE e \in EndpointAt(db, c) : TRUE].harness

Mate(c, h) == <<"mate", c, h>>
MatePin(p, h) == <<"matepin", p, h>>
Endpoint(c, h) == <<"endpoint", c, h>>

\* The mating connector is a copy that faces the LRU; its pins copy the pins
\* the LRU connector has now.
WithEndpoint(db, h, c) ==
  LET k == Mate(c, h)
      copies == {MatePin(p, h) : p \in PinsOf(db, c)}
      e == Endpoint(c, h)
  IN  Insert(db, [x \in {k, e} \cup copies |->
        CASE x = k -> ConnectorRow(None)
          [] x = e -> [kind |-> "endpoint", harness |-> h, mating |-> k, lru |-> c]
          [] OTHER -> PinRow(k, db[c].unit)])

\* The pin of the harness's mating connector with the number of an LRU pin.
MatingPin(db, h, p) ==
  LET mates == {db[e].mating : e \in {x \in EndpointsOf(db, h) : db[x].lru = db[p].connector}}
      found == {q \in Rows(db, "pin") : db[q].connector \in mates /\ q[2] = p}
  IN  IF found = {} THEN None ELSE CHOOSE q \in found : TRUE

WireRow(db, h, p, q, number) ==
  [kind |-> "wire", harness |-> h, from |-> p, to |-> q,
   fromMate |-> MatingPin(db, h, p), toMate |-> MatingPin(db, h, q), number |-> number]

WiresOf(db, h) == Where(db, "wire", "harness", {h})
Numbers(db, h) == {db[w].number : w \in WiresOf(db, h)}

HarnessRow(c, d) ==
  [kind |-> "harness", fromUnit |-> row[c].unit, fromConnector |-> c,
   toUnit |-> row[d].unit, toConnector |-> d]

LruConnectors == {c \in Rows(row, "connector") : row[c].unit # None}

\* Two connectors; no endpoints.
CreateHarness(h) ==
  /\ h \in New(Harnesses)
  /\ \E c, d \in LruConnectors \cap Handled : Creates([x \in {h} |-> HarnessRow(c, d)])
  /\ UNCHANGED <<drift, moved>>

CreateHarnessEndpoint(h) ==
  /\ h \in Rows(row, "harness")
  /\ \E c \in LruConnectors \cap Handled :
       /\ EndpointAt(row, c) = {}
       /\ row' = WithEndpoint(row, h, c)
       /\ used' = used \cup (DOMAIN row' \cap (Harnesses \cup Wires))
  /\ UNCHANGED <<links, announced, pending, drift, moved>>

WiresThrough(k) ==
  {w \in Rows(row, "wire") :
     \E q \in {row[w].fromMate, row[w].toMate} : q # None /\ row[q].connector = k}

\* Its wires and its mating connector go with an endpoint.  The wires are not
\* flushed one by one: two of one pair each count as the other's company.
DeleteHarnessEndpoint(e) ==
  /\ e \in Rows(row, "endpoint")
  /\ LET W == WiresThrough(row[e].mating)
         G == Falls(row, W \cup {e, row[e].mating}, Orm) \cup UNION {Unjoined(row, w) : w \in W}
         Company(P) == \E v, w \in W : v # w /\ Pair(row, v) = P /\ Pair(row, w) = P IN
       /\ \E force \in BOOLEAN : Passes(force, W)
       /\ ~Held(row, G)
       /\ row' = Without(row, G)
       /\ Drifts({P \in {Pair(row, w) : w \in W} : Racing(P) \/ Company(P)})
  /\ UNCHANGED <<links, used, announced, pending>>

-----------------------------------------------------------------------------
(* Wires, one by one                                                         *)

\* Harnesses of create_harness have no endpoints: their two connectors count.
ValidConnectors(h) ==
  LET lrus == {row[e].lru : e \in EndpointsOf(row, h)} \ {None}
  IN  IF lrus = {} THEN {row[h].fromConnector, row[h].toConnector} ELSE lrus

MayWire(h, p, q) ==
  LET c == row[p].connector
      d == row[q].connector IN
  /\ {c, d} \subseteq ValidConnectors(h)
  /\ c # d
  /\ Cardinality(EndpointsOf(row, h)) <= 2 =>
       c = row[h].fromConnector /\ d = row[h].toConnector
  /\ \A w \in WiresOf(row, h) : row[w].from # p /\ row[w].to # q

BatchCreateWires(h, w) ==
  /\ h \in Rows(row, "harness")
  /\ w \in New(Wires)
  /\ \E p, q \in Rows(row, "pin") \cap Handled, n \in Typed :
       /\ MayWire(h, p, q)
       /\ <<"W%03d", n>> \notin Numbers(row, h)
       /\ row' = UpsertConnection(
                   Insert(row, [x \in {w} |-> WireRow(row, h, p, q, <<"W%03d", n>>)]),
                   {UnitAt(row, p), UnitAt(row, q)})
       /\ used' = used \cup {w}
  /\ UNCHANGED <<links, announced, pending, drift, moved>>

\* Nothing is checked of the new pins, and the mating pins stay what they were.
UpdateWire(w) ==
  /\ w \in Rows(row, "wire")
  /\ Cardinality(moved) < MaxMoved
  /\ \E p, q \in Rows(row, "pin") \cap Handled :
       /\ <<p, q>> # <<row[w].from, row[w].to>>
       /\ row' = LET torn == Without(row, Unjoined(row, w))
                 IN  UpsertConnection([torn EXCEPT ![w].from = p, ![w].to = q],
                                      {UnitAt(row, p), UnitAt(row, q)})
       /\ drift' = drift \cup {P \in {Pair(row, w)} : Racing(P)}
                         \cup {P \in {Pair(row', w)} : \E r \in pending : r.x = w}
  /\ moved' = moved \cup {w}
  /\ UNCHANGED <<links, used, announced, pending>>

\* The Connection row goes with the event, the wire after it.
BeginWire(w, force) ==
  /\ w \in Rows(row, "wire")
  /\ Passes(force, LinksTo({w}))
  /\ Begins(w, force, Unjoined(row, w), LinksTo({w}), {})
  /\ Drifts({P \in {Pair(row, w)} : Racing(P)})

FinishWire(r) == Finishes(r, {r.x}, {}) /\ UNCHANGED <<drift, moved>>

\* The Connection rows of the wires are not looked at.
BeginHarness(h, force) ==
  /\ h \in Rows(row, "harness")
  /\ Passes(force, WiresOf(row, h) \cup LinksTo({h}))
  /\ Begins(h, force, WiresOf(row, h), LinksTo({h}), {})
  /\ Drifts({Pair(row, w) : w \in WiresOf(row, h)})

\* The endpoints go with the harness; their mating connectors stay.
FinishHarness(r) ==
  /\ Finishes(r, Falls(row, {r.x}, Orm), {})
  /\ Drifts({Pair(row, w) : w \in WiresOf(row, r.x)})

-----------------------------------------------------------------------------
(* The auto-grow engine.  A batch is worked off pair by pair on a copy of    *)
(* the database, [db, status, touched, skipped]; "full" is the bound on keys. *)

\* What to do for a pair: with both connectors on different harnesses the
\* request must decide, and a new harness is never a valid decision there.
Classify(db, p, q, decision) ==
  LET u == UnitAt(db, p)
      v == UnitAt(db, q)
      ha == HarnessOf(db, db[p].connector)
      hb == HarnessOf(db, db[q].connector) IN
  IF None \in {u, v} \/ u = v THEN [kind |-> "cancelled"]
  ELSE IF ha = None /\ hb = None THEN [kind |-> "new_harness"]
  ELSE IF ha = hb THEN [kind |-> "existing_harness", on |-> ha]
  ELSE IF hb = None THEN [kind |-> "extend_harness", on |-> ha, new |-> q]
  ELSE IF ha = None THEN [kind |-> "extend_harness", on |-> hb, new |-> p]
  ELSE CASE decision = "none" -> [kind |-> "ambiguous"]
         [] decision = "merge_into_a" -> [kind |-> "merge", on |-> ha, fold |-> hb]
         [] decision = "merge_into_b" -> [kind |-> "merge", on |-> hb, fold |-> ha]
         [] decision = "cancel" -> [kind |-> "cancelled"]
         [] OTHER -> [kind |-> "invalid"]

Fresh(S, db) == S \ (used \cup DOMAIN db)
NextNumber(db, h) ==
  <<"W%03d", CHOOSE n \in 1 .. Cardinality(Wires) + 1 :
               /\ <<"W%03d", n>> \notin Numbers(db, h)
               /\ \A m \in 1 .. n - 1 : <<"W%03d", m>> \in Numbers(db, h)>>

\* A pin that is wired on the harness already is skipped, not refused.
CreateWire(st, h, p, q) ==
  LET taken == \E w \in WiresOf(st.db, h) : {st.db[w].from, st.db[w].to} \cap {p, q} # {}
      free == Fresh(Wires, st.db) IN
  IF taken THEN [st EXCEPT !.skipped = @ \cup {{UnitAt(st.db, p), UnitAt(st.db, q)}}]
  ELSE IF free = {} THEN [st EXCEPT !.status = "full"]
  ELSE [st EXCEPT !.db = Insert(st.db, [x \in {CHOOSE w \in free : TRUE} |->
                                          WireRow(st.db, h, p, q, NextNumber(st.db, h))])]

CreateHarnessWithEndpoints(db, h, c, d) ==
  WithEndpoint(WithEndpoint(Insert(db, [x \in {h} |->
    [kind |-> "harness", fromUnit |-> db[c].unit, fromConnector |-> c,
     toUnit |-> db[d].unit, toConnector |-> d]]), h, c), h, d)

\* Wires and endpoints change their harness, and its row goes.  Two wires of
\* one number on the kept harness violate uq_wire_number: all is rolled back.
MergeHarness(db, keep, fold) ==
  Without([x \in DOMAIN db |->
             IF x \in WiresOf(db, fold) \cup EndpointsOf(db, fold)
             THEN [db[x] EXCEPT !.harness = keep] ELSE db[x]], {fold})

ExecutePair(st, p, q, decision) ==
  LET cls == Classify(st.db, p, q, decision)
      free == Fresh(Harnesses, st.db)
      Failed == [st EXCEPT !.status = "failed"]
      On(db, h) == CreateWire([st EXCEPT !.db = db,
                                 !.touched = @ \cup {{UnitAt(db, p), UnitAt(db, q)}}], h, p, q) IN
  IF st.status # "ok" THEN st ELSE
  CASE cls.kind = "cancelled" -> st
    [] cls.kind \in {"ambiguous", "invalid"} -> Failed
    [] cls.kind = "new_harness" ->
         IF free = {} THEN [st EXCEPT !.status = "full"]
         ELSE LET h == CHOOSE x \in free : TRUE
              IN  On(CreateHarnessWithEndpoints(st.db, h, st.db[p].connector,
                                                st.db[q].connector), h)
    [] cls.kind = "existing_harness" -> On(st.db, cls.on)
    [] cls.kind = "extend_harness" ->
         On(WithEndpoint(st.db, cls.on, st.db[cls.new].connector), cls.on)
    [] OTHER ->
         IF Numbers(st.db, cls.on) \cap Numbers(st.db, cls.fold) # {} THEN Failed
         ELSE On(MergeHarness(st.db, cls.on, cls.fold), cls.on)

\* Phase A looks for pairs that need a decision; phase B classifies anew.
Pending(batch, decision) ==
  \E i \in DOMAIN batch :
    Classify(row, batch[i][1], batch[i][2], decision).kind \in {"ambiguous", "invalid"}

Grown(batch, decision) ==
  LET st[i \in 0 .. Len(batch)] ==
        IF i = 0 THEN [db |-> row, status |-> "ok", touched |-> {}, skipped |-> {}]
        ELSE ExecutePair(st[i - 1], batch[i][1], batch[i][2], decision)
  IN  st[Len(batch)]

\* All pairs of a batch, or none.
Run(batch, decision) ==
  /\ ~Pending(batch, decision)
  /\ LET st == Grown(batch, decision) IN
       /\ st.status = "ok"
       /\ row' = Upserts(st.db, st.touched)
       /\ used' = used \cup (DOMAIN row' \cap (Harnesses \cup Wires))
       /\ Drifts(st.skipped)
  /\ UNCHANGED <<links, announced, pending>>

\* A decision makes no difference to a single pair that is not ambiguous.
Asked(batch) ==
  IF Len(batch) = 1 /\ ~Pending(batch, "none") THEN {"none"} ELSE Decisions

AutoGrow(batch) ==
  /\ \A i \in DOMAIN batch : {batch[i][1], batch[i][2]} \subseteq Rows(row, "pin")
  /\ \E decision \in Asked(batch) : Run(batch, decision)

\* Pins of the harness's two connectors that none of its wires uses.
FreeFrom(h) == {p \in PinsOf(row, row[h].fromConnector) :
                  \A w \in WiresOf(row, h) : row[w].from # p}
FreeTo(h) == {q \in PinsOf(row, row[h].toConnector) :
                \A w \in WiresOf(row, h) : row[w].to # q}

\* A strategy pairs free pins of the two connectors.  Rows come in no promised
\* order: where the code takes the first that fits, this takes any one of them.

\* by_signal: of the pins that carry a signal one is taken, for each that asks.
BySignal(from, to) ==
  {x \in from \X to :
     /\ described[x[1]].signal \notin {"", "SPARE", "NC"}
     /\ described[x[1]].signal = described[x[2]].signal
     /\ x[2] = CHOOSE q \in to : described[q].signal = described[x[1]].signal}

Complementary(a, b) == {a, b} \in {{"bidirectional"}, {"input", "output"}}
Conjugate(p, q) ==
  /\ described[p].signal = described[q].signal /\ described[p].type = described[q].type
  /\ Complementary(described[p].direction, described[q].direction)

\* by_peer_lru: pins that name each other's unit, each of them once, until no
\* two are left that fit.
ByPeer(u, v, from, to) ==
  LET fit == {x \in from \X to : /\ row[x[1]].mates = v /\ row[x[2]].mates = u
                                 /\ Conjugate(x[1], x[2])} IN
  {pairs \in SUBSET fit :
     /\ \A x, y \in pairs : x[1] = y[1] <=> x[2] = y[2]
     /\ \A x \in fit : \E y \in pairs : x[1] = y[1] \/ x[2] = y[2]}

\* T568B: the pairs that send and receive change places.
Crossed(n) == CASE n = 1 -> 3 [] n = 3 -> 1 [] n = 2 -> 6 [] n = 6 -> 2 [] OTHER -> n
\* straight_through and crossover: by number, where a pin has one.
ByNumber(from, to, crossing) ==
  {x \in from \X to :
     LET n == described[x[1]].number IN
     n # None /\ described[x[2]].number = IF crossing THEN Crossed(n) ELSE n}

\* auto: the strategy that the pins and the connectors suggest.
Chosen(c, d, mapping) ==
  LET Claim(k, other) == \E p \in PinsOf(row, k) : row[p].mates = row[other].unit IN
  IF mapping # "auto" THEN mapping
  ELSE IF Claim(c, d) /\ Claim(d, c) THEN "by_peer_lru"
  ELSE IF /\ {c, d} \subseteq Rj45 /\ PinsOf(row, c) # {}
          /\ Cardinality(PinsOf(row, c)) = Cardinality(PinsOf(row, d))
  THEN "straight_through" ELSE "by_signal"

\* The sets of pairs that a strategy may come to.
Matched(c, d, strategy, from, to) ==
  CASE strategy = "by_signal" -> {BySignal(from, to)}
    [] strategy = "by_peer_lru" -> ByPeer(row[c].unit, row[d].unit, from, to)
    [] strategy = "straight_through" -> {ByNumber(from, to, FALSE)}
    [] OTHER -> {ByNumber(from, to, TRUE)}

\* The engine decides which harness gets the wires, which need not be the
\* harness that was asked.
AutoWireHarness(h, mapping) ==
  /\ h \in Rows(row, "harness")
  /\ LET c == row[h].fromConnector
         d == row[h].toConnector IN
       /\ {c, d} \subseteq DOMAIN row
       /\ mapping = "crossover" => {c, d} \subseteq Rj45
       /\ \E pairs \in Matched(c, d, Chosen(c, d, mapping), FreeFrom(h), FreeTo(h)) :
            pairs # {} /\ Run(SetToSeq(pairs), "none")

-----------------------------------------------------------------------------
(* The connection builder                                                    *)

\* One harness between the first pins' connectors, no endpoints, no mating
\* pins, no Connection row.
CbCommit(i, h) ==
  /\ i \in Rows(row, "interface")
  /\ None \notin {row[i].sourceUnit, row[i].targetUnit}
  /\ h \in New(Harnesses)
  /\ \E p, q \in Rows(row, "pin") \cap Handled, w \in New(Wires) :
       /\ UnitAt(row, p) = row[i].sourceUnit
       /\ UnitAt(row, q) = row[i].targetUnit
       /\ Creates([x \in {h, w} |->
            IF x = h THEN HarnessRow(row[p].connector, row[q].connector)
            ELSE [kind |-> "wire", harness |-> h, from |-> p, to |-> q,
                  fromMate |-> None, toMate |-> None, number |-> <<"W%04d", 1>>]])
       /\ drift' = drift \cup {{row[i].sourceUnit, row[i].targetUnit}}
  /\ UNCHANGED moved

-----------------------------------------------------------------------------
(* What a run starts from                                                    *)

\* What harnesses plug into: units, their connectors and the pins of these.
Lru(db) ==
  {x \in DOMAIN db : \/ db[x].kind = "unit"
                     \/ db[x].kind = "connector" /\ db[x].unit # None
                     \/ db[x].kind = "pin" /\ UnitAt(db, x) # None}
LruKeys == UNION {Lru(seed.row) : seed \in Wirings}

\* The keys that the wiring gives out, and the kind of row each is for.
Mates == {Mate(c, h) : c \in LruKeys, h \in Harnesses}
MatePins == {MatePin(p, h) : p \in LruKeys, h \in Harnesses}
Endpoints == {Endpoint(c, h) : c \in LruKeys, h \in Harnesses}
Rollups == {Connection({u, v}) : u \in LruKeys \cup {None}, v \in LruKeys \cup {None}}
OfKind(x, kind) ==
  /\ x \in Wires <=> kind = "wire"
  /\ x \in Harnesses <=> kind = "harness"
  /\ x \in Mates => kind = "connector"
  /\ x \in MatePins => kind = "pin"
  /\ x \in Endpoints => kind = "endpoint"
  /\ x \in Rollups => kind = "connection"

\* A foreign key that may be NULL says so; but a harness's connector has no unit.
NotNull(db, x) ==
  \A c \in DOMAIN Keys[db[x].kind] :
    db[x].kind # "connector" /\ Keys[db[x].kind][c] # "null" => db[x][c] # None

\* What requests leave: harnesses between units, and a Connection row under the
\* key of its pair.
Orderly(db) ==
  /\ Valid(db) /\ Lru(db) \subseteq LruKeys
  /\ \A x \in DOMAIN db :
       /\ OfKind(x, db[x].kind) /\ NotNull(db, x)
       /\ db[x].kind = "harness" => {db[x].fromConnector, db[x].toConnector} \subseteq Lru(db)
       /\ db[x].kind = "connection" =>
            \E u, v \in LruKeys : /\ u # v /\ x = Connection({u, v})
                                 /\ {db[x].a, db[x].b} = {u, v}

\* Outside the pairs D, a pair has a Connection row if a wire not in R joins it.
RolledUp(db, D, R) ==
  \A u, v \in LruKeys : u # v /\ {u, v} \notin D =>
    (Connection({u, v}) \in DOMAIN db <=>
       \E w \in Rows(db, "wire") \ R : Pair(db, w) = {u, v})

\* Keys of different tables are different.
ASSUME WiringAssumption ==
  /\ None \notin Wires \cup Harnesses /\ Wires \cap Harnesses = {}
  /\ (Mates \cup MatePins \cup Endpoints \cup Rollups)
       \cap (LruKeys \cup Wires \cup Harnesses \cup {None}) = {}
  /\ IsFiniteSet(LruKeys)
  /\ \A batch \in Batches : batch \in Seq(Pins \X Pins)
  /\ \A seed \in Wirings : /\ Orderly(seed.row) /\ RolledUp(seed.row, {}, {})
                           /\ DOMAIN seed.row \subseteq seed.used

-----------------------------------------------------------------------------
\* Pairs whose wires go with something else than a wire.
Lost == {Pair(row, w) : w \in Rows(row, "wire") \ DOMAIN row'}

WireStep ==
  \/ \E h \in Harnesses :
       \/ CreateHarness(h) \/ CreateHarnessEndpoint(h)
       \/ \E mapping \in Mappings : AutoWireHarness(h, mapping)
       \/ \E w \in Wires : BatchCreateWires(h, w)
       \/ \E i \in Interfaces : CbCommit(i, h)
       \/ \E force \in BOOLEAN : BeginHarness(h, force)
  \/ \E batch \in Batches : AutoGrow(batch)
  \/ \E e \in Where(row, "endpoint", "lru", Handled) : DeleteHarnessEndpoint(e)
  \/ \E w \in Wires : UpdateWire(w)
  \/ \E w \in Wires, force \in BOOLEAN : BeginWire(w, force)
  \/ \E r \in pending :
       \/ r.kind = "wire" /\ FinishWire(r)
       \/ r.kind = "harness" /\ FinishHarness(r)

\* The deletion of an LRU connector, as InterfaceTopology has it.
ConnectorStep ==
  /\ \/ \E c \in Handled, force \in BOOLEAN : BeginConnector(c, force)
     \/ \E r \in pending : r.kind = "connector" /\ FinishConnector(r)
  /\ drift' = drift \cup Lost
  /\ UNCHANGED moved

WiringInit ==
  /\ \E seed \in Wirings : row = seed.row /\ used = seed.used
  /\ links = {} /\ announced = {} /\ pending = {}
  /\ drift = {} /\ moved = {}
WiringNext == WireStep \/ ConnectorStep
WiringSpec == WiringInit /\ [][WiringNext]_wiring

-----------------------------------------------------------------------------
(* Properties                                                                *)

Connected(db) == {{db[x].a, db[x].b} : x \in Rows(db, "connection")}
Joined(db) == {P \in {Pair(db, w) : w \in Rows(db, "wire")} : IsPair(P)}
Settled(P) == P \notin drift /\ ~Racing(P)

\* The Connection table says which units are wired: outside the pairs a request
\* left alone (see "drift"), two units have a Connection row exactly if a wire
\* joins them, through every batch, merge, re-pinning and deletion
\* (auto_grow.py:_upsert_connection, maybe_delete_connection_for_wire; F-049).
ConnectionsFollowWires ==
  \A P \in Connected(row) \cup Joined(row) :
    Settled(P) => (P \in Connected(row) <=> P \in Joined(row))

=============================================================================
