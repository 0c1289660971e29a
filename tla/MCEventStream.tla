--------------------------- MODULE MCEventStream ---------------------------
EXTENDS EventStream

(* A quiet tick, a tick with an event nobody subscribes to, a change of     *)
(* state, and a tick with more events than a poll may read.                 *)
MCBatches == {<<"digest">>, <<"other", "digest">>, <<"lifecycle">>,
              <<"other", "other", "digest">>}
=============================================================================
