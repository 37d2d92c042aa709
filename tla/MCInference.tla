---------------------------- MODULE MCInference ----------------------------
(* Inference with the settings' names, those the factory refuses too.      *)
EXTENDS Inference

MCProviders == {"mock", "ollama", "openai"}
MCModels == {"", "llama"}
=============================================================================
