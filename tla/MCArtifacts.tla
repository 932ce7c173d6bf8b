---------------------------- MODULE MCArtifacts ----------------------------
(* Two versions of the game with one platform, two node numbers. *)
EXTENDS Artifacts
CONSTANTS v1, v2, html, n1, n2
=============================================================================
