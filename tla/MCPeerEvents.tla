---------------------------- MODULE MCPeerEvents ----------------------------
(* Small instances of PeerEvents for TLC. *)
EXTENDS PeerEvents

CONSTANTS p1, p2

\* mDNS and a bootstrapper, with routers and a subscription, without the tracer;
\* the tracer with and without a skiplist.
MCConfigs ==
    {[tagged |-> TRUE, bootstrappers |-> {p1}, routers |-> 1, calls |-> 2,
      trace |-> FALSE, skiplist |-> {}],
     [tagged |-> FALSE, bootstrappers |-> {}, routers |-> 0, calls |-> 0,
      trace |-> TRUE, skiplist |-> {"ADD_PEER"}],
     [tagged |-> FALSE, bootstrappers |-> {p1}, routers |-> 0, calls |-> 0,
      trace |-> TRUE, skiplist |-> {}]}
=============================================================================
