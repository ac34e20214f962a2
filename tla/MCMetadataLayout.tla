-------------------------- MODULE MCMetadataLayout --------------------------
(* One TCP flow with plain headers and payloads longer than a vector keeps.  *)
EXTENDS MetadataLayout
=============================================================================
