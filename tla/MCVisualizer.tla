---------------------------- MODULE MCVisualizer ----------------------------
(* Visualizer on small instances: what the visitor clicks. *)
EXTENDS Visualizer

\* A sequence of two requests; the ladder; a failure that may be replayed; a
\* refusal, then garbage.
AllKinds == {<<"duplicate">>, <<"exhaust">>, <<"permanent">>, <<"malformed", "poison">>}
Ladder == {<<"transient">>}
=============================================================================
