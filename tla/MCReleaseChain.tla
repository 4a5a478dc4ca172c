---------------------------- MODULE MCReleaseChain ----------------------------
(***************************************************************************)
(* Two runs of the builder, with every script or with fewer, and a version *)
(* that changes once.                                                      *)
(***************************************************************************)
EXTENDS ReleaseChain

MCOptions ==
    {[build |-> TRUE, extras |-> {"procurement", "queue", "figma"}],
     [build |-> TRUE, extras |-> {"procurement"}],
     [build |-> FALSE, extras |-> {}]}
=============================================================================
