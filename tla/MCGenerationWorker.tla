--------------------------- MODULE MCGenerationWorker ---------------------------
(* Small instances of GenerationWorker: one provider, lanes of capacity one.    *)
EXTENDS GenerationWorker

\* A clip, and a still whose lane the provider does not offer.
MixedResources == {"clip", "still"}
MixedMediaOf == [clip |-> "video", still |-> "image"]
MixedEpisodeOf == [clip |-> "ep1", still |-> "ep1"]
MixedProviderOf == [clip |-> "ark", still |-> "ark"]

MCProviders == {"ark"}
OneVideoSlot == [p \in MCProviders |-> [image |-> 0, video |-> 1, audio |-> 0]]
=============================================================================
