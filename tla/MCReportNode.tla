---------------------------- MODULE MCReportNode ----------------------------
(* Small instances of ReportNode for TLC. *)
EXTENDS ReportNode

\* Signer 1 of four leads the second of these numbers, signer 3 the first.  With
\* two slots the first two share one, with three bits the first seems to be 3
\* ahead of the last, and the last is out of reach of the first.
MCSeqs == {2, 4, 7}

\* In one world the other signers send partial reports: all of them for the
\* first number, while the second, of which one report is forged, overwrites
\* what the node signed.  In the other they send final reports.
MCForged == {<<3, 4>>}
MCWorlds == {[partials |-> {<<2, 2>>, <<3, 2>>, <<4, 2>>, <<3, 4>>}, finals |-> {}],
             [partials |-> {}, finals |-> Seqs]}

\* Two reports that meet, one of them the leader's.
MCPair == {[partials |-> {<<3, 2>>, <<4, 2>>}, finals |-> {}]}
MCNone == {}
=============================================================================
