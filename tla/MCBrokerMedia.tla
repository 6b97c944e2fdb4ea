---------------------------- MODULE MCBrokerMedia ----------------------------
(***************************************************************************)
(* Small products of MediaStream.                                          *)
(***************************************************************************)
EXTENDS BrokerMedia

\* One owner of every kind, and a second source.
Product == (DOMAIN StartPriority) \cup {"Second"}
ProductKind == [o \in Product |-> IF o = "Second" THEN "Source" ELSE o]
ProductStart ==
    <<"Cleanup", "Sink", "Route", "Socket", "Codec", "Processor", "Source", "Second">>
ProductStop ==
    <<"Source", "Second", "Processor", "Codec", "Socket", "Route", "Sink", "Cleanup">>
=============================================================================
