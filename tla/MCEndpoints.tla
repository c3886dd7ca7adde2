----------------------------- MODULE MCEndpoints -----------------------------
(* Small installations of three nodes.                                        *)
EXTENDS Endpoints

ThreeNodes == {1, 2, 3}

Sensor(e, p) == [kind |-> "sensor", entity |-> e, endpoint |-> p, source |-> NoEntity, bindings |-> <<>>]
Button(e, p) == [Sensor(e, p) EXCEPT !.kind = "button"]
Light(e, p, bindings) == [Sensor(e, p) EXCEPT !.kind = "light", !.bindings = bindings]
Switch(e, p, source, bindings) ==
  [Light(e, p, bindings) EXCEPT !.kind = "switch", !.source = source]

Click(e)     == [entity |-> e, gesture |-> "click", action |-> "toggle"]
LongPress(e) == [entity |-> e, gesture |-> "long_press", action |-> "turn_off"]

\* A sensor, two switches that mirror it, one that mirrors the second of these.
Chain == << <<Sensor(1, 1)>>, <<Switch(2, 1, 1, <<>>), Switch(3, 2, 1, <<>>)>>,
            <<Switch(4, 2, 3, <<>>)>> >>

\* A button with two automations, and what it toggles.
Buttons == << <<Button(1, 1), Button(1, 1)>>, <<Light(2, 1, <<Click(1)>>)>>,
              <<Switch(3, 1, 0, <<Click(1)>>)>> >>

\* Two switches that mirror each other, one of them bound to a button.
Circle == << <<Switch(1, 1, 2, <<Click(3), LongPress(3)>>)>>, <<Switch(2, 1, 1, <<>>)>>, <<Button(3, 1)>> >>

\* Tables that are too small for the third switch and its source.
Crowded == << <<Switch(1, 1, 9, <<Click(7)>>), Switch(2, 2, 9, <<>>), Switch(3, 3, 8, <<>>)>>,
              <<>>, <<>> >>

\* A switch without an entity, declarations that share or clash, sources without an
\* entity that fill a table, a switch bound to the button of its own node.
Clashing == << <<Switch(0, 1, 0, <<Click(2)>>), Button(5, 1)>>,
               <<Button(2, 1), Switch(2, 1, 0, <<Click(2)>>), Switch(2, 2, 0, <<>>)>>,
               <<Switch(3, 1, 2, <<Click(0), Click(8), Click(7)>>)>> >>

AllLayouts == {Chain, Buttons, Circle, Crowded, Clashing}
=============================================================================
