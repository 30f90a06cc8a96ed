---------------------------- MODULE MCProvisioning ----------------------------
(***************************************************************************)
(* A small instance of Provisioning for TLC.                               *)
(***************************************************************************)
EXTENDS Provisioning

CONSTANTS cronista, impaginatore, segreteria, gianni, bozze, immagini

\* One agent writes a bucket, the other reads both.
KeySpecs ==
    {<<cronista, bozze>>, <<impaginatore, bozze>>, <<impaginatore, immagini>>}
=============================================================================
