------------------------------ MODULE MCInterface ------------------------------
EXTENDS HarnessWiring
CONSTANTS w0, s1, s2, u1, u2, u3, c1, c2, c3, c4, p1, p2, p3, p4, p5, p6, b1, m1, f1,
          i1, h1, h2, w1, w2, w3, r1

VARIABLE part    \* where a behaviour starts, and which of the two it shows

Plug(c, u) == c :> ConnectorRow(u)
Pin(p, c) == p :> PinRow(c, None)

Empty == s1 :> SystemRow(None)
Bare == Empty @@ u1 :> UnitRow(s1)
Bus == Bare @@ Plug(c1, u1) @@ Pin(p1, c1) @@ b1 :> BusRow(u1)
\* Two units, wired as create_harness and batch_create_wires leave them.
Wired ==
  Bare @@ Plug(c1, u1) @@ Pin(p1, c1)
  @@ u2 :> UnitRow(s1) @@ Plug(c2, u2) @@ Pin(p2, c2)
  @@ h1 :> [kind |-> "harness", fromUnit |-> u1, fromConnector |-> c1,
            toUnit |-> u2, toConnector |-> c2]
  @@ w1 :> [kind |-> "wire", harness |-> h1, from |-> p1, to |-> p2,
            fromMate |-> None, toMate |-> None, number |-> <<"W%03d", 1>>]
  @@ <<"connection", {u1, u2}>> :> [kind |-> "connection", a |-> u1, b |-> u2]

AllKeys == Systems \cup Units \cup Connectors \cup Pins \cup Buses \cup Messages
           \cup Fields \cup Interfaces \cup Harnesses \cup Wires
\* All other keys but the ones listed were given out, and are deleted.
Seed(db, fresh) == [row |-> db, used |-> DOMAIN db \cup (AllKeys \ fresh)]
DefSeeds == {Seed(Wired, {i1}), Seed(Bus, {m1, f1}), Seed(Empty, {s2, u1}),
             Seed(Bare, {c1, p1, b1})}

\* Three units not wired yet: u1 with two connectors, u2, u3.
Unwired ==
  Bare @@ u2 :> UnitRow(s1) @@ u3 :> UnitRow(s1)
  @@ Plug(c1, u1) @@ Plug(c2, u2) @@ Plug(c3, u1) @@ Plug(c4, u3)
  @@ Pin(p1, c1) @@ Pin(p3, c2) @@ Pin(p5, c3) @@ Pin(p6, c4)
Triangle ==
  Bare @@ u2 :> UnitRow(s1) @@ u3 :> UnitRow(s1)
  @@ Plug(c1, u1) @@ Plug(c2, u2) @@ Plug(c4, u3)
  @@ Pin(p1, c1) @@ p2 :> PinRow(c1, u2) @@ Pin(p3, c2) @@ p4 :> PinRow(c2, u1) @@ Pin(p6, c4)
Link == i1 :> [kind |-> "interface", source |-> s1, target |-> s1,
               sourceUnit |-> u1, targetUnit |-> u2]
Plugged(h, c, pins) ==
  <<"endpoint", c, h>> :> [kind |-> "endpoint", harness |-> h, mating |-> Mate(c, h), lru |-> c]
  @@ Mate(c, h) :> ConnectorRow(None)
  @@ [x \in {MatePin(p, h) : p \in pins} |-> PinRow(Mate(c, h), Unwired[c].unit)]
\* A harness with one wire, as auto_grow leaves it.
Grown1(h, c, p, d, q, w, n, pc, pd) ==
  h :> [kind |-> "harness", fromUnit |-> Unwired[c].unit, fromConnector |-> c,
        toUnit |-> Unwired[d].unit, toConnector |-> d]
  @@ Plugged(h, c, pc) @@ Plugged(h, d, pd)
  @@ w :> [kind |-> "wire", harness |-> h, from |-> p, to |-> q,
           fromMate |-> MatePin(p, h), toMate |-> MatePin(q, h), number |-> <<"W%03d", n>>]
  @@ Connection({Unwired[c].unit, Unwired[d].unit}) :>
       [kind |-> "connection", a |-> Unwired[c].unit, b |-> Unwired[d].unit]
TwoHarnesses ==
  Unwired @@ Grown1(h1, c1, p1, c2, p3, w1, 1, {p1}, {p3})
          @@ Grown1(h2, c3, p5, c4, p6, w2, 2, {p5}, {p6})
\* Two pins that name each other's unit; crossed, each meets the other pair's.
DefDescribed == [p \in Pins |->
  [signal |-> CASE p \in {p1, p3, p6} -> "a" [] p \in {p2, p4} -> "b" [] OTHER -> "SPARE",
   type |-> "digital", direction |-> IF p \in {p1, p2} THEN "output" ELSE "input",
   number |-> CASE p \in {p1, p3} -> 1 [] p \in {p2, p4} -> 3 [] OTHER -> None]]
DefBatches == {<<<<p1, p3>>, <<p2, p4>>>>, <<<<p1, p6>>>>, <<<<p5, p6>>>>}

Moving == Seed(Triangle @@ Link, {h1, w1})
Growing == Seed(Triangle, {h1, w1, w2})
Merging == Seed(TwoHarnesses, {w3})
DefWirings == {Moving, Growing, Merging}
Starts(seed) ==
  /\ row = seed.row /\ used = seed.used
  /\ links = {} /\ announced = {b1} /\ pending = {}

\* In all but one wiring a wire that is gone has used up the bound on moves.
MCInit ==
  /\ drift = {}
  /\ \/ part = "topology" /\ Init /\ moved = {}
     \/ part = "moving" /\ Starts(Moving) /\ moved = {}
     \/ part = "growing" /\ Starts(Growing) /\ moved = {w0}
     \/ part = "merging" /\ Starts(Merging) /\ moved = {w0}
MCNext ==
  /\ UNCHANGED part
  /\ IF part = "topology" THEN Next /\ drift' = drift \cup Lost /\ UNCHANGED moved
                         ELSE WiringNext
=============================================================================
