----------------------------- MODULE RecordMode -----------------------------
(* The record modes (crates/cassetter-core/src/recording.rs).              *)

Modes == {"None", "Once", "NewEpisodes", "All", "Rewrite", "Verify"}

Replays(m) == m \notin {"All", "Rewrite"}

CanRecord(m, cassette_exists) ==
    \/ m \in {"NewEpisodes", "All", "Rewrite"}
    \/ m = "Once" /\ ~ cassette_exists

Replaces(m) == m \in {"All", "Rewrite"}
=============================================================================
