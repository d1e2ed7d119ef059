----------------------------- MODULE MCLifecycle -----------------------------
(* Lifecycle with two lidars, of which one is in the configuration file, and *)
(* two nodes.                                                                *)
EXTENDS Lifecycle

RawAndOther == {kSourceRawLidar, 1}
LivoxAndNone == {kLivoxLidarType, 0}
=============================================================================
