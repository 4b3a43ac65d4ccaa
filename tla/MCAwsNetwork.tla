---------------------------- MODULE MCAwsNetwork ----------------------------
(* TLC instance of AwsNetwork.                                              *)
EXTENDS AwsNetwork
CONSTANTS s1, s2, s3
=============================================================================
