---------------------------- MODULE MCJobPipeline ----------------------------
(* JobPipeline.tla on small instances; the constants are in the cfg file.  *)
EXTENDS JobPipeline
==============================================================================
