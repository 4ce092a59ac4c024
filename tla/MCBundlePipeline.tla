-------------------------- MODULE MCBundlePipeline --------------------------
(* Bundles of 4 units with a header of 1: two small messages or one large    *)
(* one fill a bundle, a message of 4 fits none.                              *)
EXTENDS BundlePipeline

MCMsgSizes == {1, 3, 4}

=============================================================================
