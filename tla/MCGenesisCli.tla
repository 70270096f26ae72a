---------------------------- MODULE MCGenesisCli ----------------------------
(***************************************************************************)
(* GenesisCli for TLC: two regions of AWS, two GCP keys, an Azure key, and *)
(* shells with nothing set, with everything set, and with another region,  *)
(* GCP key and Azure version.                                              *)
(***************************************************************************)
EXTENDS GenesisCli

MCKmsKeys ==
  {[provider |-> "aws-kms", name |-> "a", region |-> r] : r \in {"west", "east"}}
  \cup {[provider |-> "gcp-kms", name |-> n, region |-> None] : n \in {"g", "h"}}
  \cup {[provider |-> "azure-keyvault", name |-> "z", region |-> None]}

GcpKey(n) == [provider |-> "gcp-kms", name |-> n, region |-> None]

Bare ==
  [aws_credentials |-> None, aws_default_region |-> None, genesis_aws_kms_key_arn |-> None,
   genesis_gcp_kms_key |-> None, genesis_gcp_access_token |-> None,
   azure_key |-> None, azure_key_version |-> None, azure_access_token |-> None]

Full(region, gcp, version) ==
  [Bare EXCEPT !.aws_credentials = "aws", !.aws_default_region = region,
               !.genesis_gcp_kms_key = gcp, !.genesis_gcp_access_token = "gcp",
               !.azure_access_token = "azure", !.azure_key_version = version]

MCEnvironments ==
  {Bare, Full("west", GcpKey("g"), None), Full("east", GcpKey("h"), 1), Full(None, None, None)}
=============================================================================
