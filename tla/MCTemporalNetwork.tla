------------------------ MODULE MCTemporalNetwork -------------------------
(* Two gates in a row, the second one with a ticket, as in main.rs, and    *)
(* the packets of two chains.                                              *)
EXTENDS TemporalNetwork

CONSTANTS g1, g2, g3

Secret == {<<"secret">>}

ControlOf(chain) == NewPacket(chain, "A", 0, 20, "zero", "x")
DataOf(chain) ==
  WithTicket(NewPacket(chain, "B", 0, 20, "zero", "x"),
             XorHashes(Secret, ControlOf(chain).chain_hash))

MCPackets == {ControlOf("c1"), ControlOf("c2"), DataOf("c1")}

MCGateDefs ==
  {NewGate(g1, 0, 10, <<g2, g3>>, <<g3>>),
   GateWithTicket(NewGate(g2, 10, 20, <<>>, <<>>), Secret)}

MCCalls ==
  {<<g1, 5, ControlOf("c1")>>, <<g1, 5, DataOf("c1")>>,
   <<g2, 15, ControlOf("c2")>>, <<g2, 15, DataOf("c1")>>}

MCAddress == {g1, g2, g3}
=============================================================================
