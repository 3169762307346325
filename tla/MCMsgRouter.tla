---------------------------- MODULE MCMsgRouter ----------------------------
(* Small instances of MsgRouter for TLC. *)
EXTENDS MsgRouter

\* The tests of api/grpc and of the examples start the controllers, which
\* connect to each other, and refresh the routers then.
MCLive == { <<"start", "refresh", "close">>,
            <<"refresh", "start", "refresh", "close">> }

\* cmd/pmq/main.go refreshes, then starts; core's own tests only start.
MCPrograms == MCLive \cup { <<"refresh", "start", "close">>,
                            <<"start", "close">>,
                            <<"start", "refresh">> }

\* The boot of cmd/pmq/main.go.
MCBoots == { <<"refresh", "start">> }

\* TestMsgRouter of core/router_test.go only starts the router.
MCStarts == { <<"start">> }
=============================================================================
