-------------------------------- MODULE MCDon --------------------------------
(* Small instances of Don for TLC. *)
EXTENDS Don

CONSTANTS n1, n2, n3

Report(s, oracles) == [seq |-> s, signed |-> oracles, valid |-> oracles, readable |-> TRUE]

\* The names and the (missing) keys of TestCrossDONCommunication.
MCTest == [members |-> {n1, n2}, listeners |-> {n1, n3}, topics |-> {"id"},
           manipulators |-> {}, dons |-> None, outside |-> {}, clients |-> {},
           ticks |-> 2]

\* Listeners that know the topic and the keys; one node has a manipulator.
MCTransmit == [members |-> {n1, n2}, listeners |-> {n1, n3}, topics |-> {"don.id"},
               manipulators |-> {n2}, dons |-> {n1, n2}, outside |-> {}, clients |-> {},
               ticks |-> 2]

\* Reports of another program: in order, with a gap, and one without a quorum.
MCOutside == [members |-> {n2}, listeners |-> {n1, n3}, topics |-> {"don.id"},
              manipulators |-> {}, dons |-> {n1, n2}, clients |-> {n1}, ticks |-> 0,
              outside |-> {Report(1, {n1, n2}), Report(2, {n1, n2}), Report(4, {n1, n2}),
                           Report(3, {n1})}]

MCSetups == {MCTest, MCTransmit, MCOutside}
==============================================================================
