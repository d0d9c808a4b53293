---------------------------- MODULE MCWidgetPush ----------------------------
(* Values for the constants of WidgetPush. *)
EXTENDS WidgetPush, TLC

CONSTANTS p1, p2, p3, small, big

MCBlobs == {small, big}
MCPresigned == {big}
\* Builds with small blobs only, with large ones only, and with both.
MCManifests == {{small}, {big}, {small, big}}
MCSymmetry == Permutations(Pushes \ Headless)
=============================================================================
