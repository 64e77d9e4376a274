---------------------------- MODULE MCServiceUpdate ----------------------------
(* Small instances of ServiceUpdate: the bounds are in the configuration.    *)
EXTENDS ServiceUpdate
=============================================================================
