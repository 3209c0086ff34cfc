--------------------------- MODULE MCInstanceCalls ---------------------------
(***************************************************************************)
(* InstanceCalls with three manifests: needs that overlap between          *)
(* operations, a provider that takes the place of the network, nothing at  *)
(* all.                                                                    *)
(***************************************************************************)
EXTENDS InstanceCalls

MCManifests ==
  { [a |-> {"network"}, b |-> {"secret"}],
    [a |-> {"network", "provider"}, b |-> {}],
    [a |-> {"network", "secret"}, b |-> {"provider"}] }

=============================================================================
