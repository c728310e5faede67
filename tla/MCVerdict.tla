----------------------------- MODULE MCVerdict -----------------------------
(* Verdict for TLC: a run of each worker type or of a pair of them, and another started after it. *)
EXTENDS Verdict

MCKinds == AllWorkerNames
MCStartupKinds == {"streaming_pull", "dead_letter"}
MCEnabledSets ==
    <<{{k} : k \in Kinds} \cup {{}, {"fan_out", "filtering"}},
      {{"streaming_pull"}}>>
MCMaxDeviations == <<2, 0>>
=============================================================================
