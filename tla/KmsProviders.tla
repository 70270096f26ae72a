---------------------------- MODULE KmsProviders ----------------------------
(***************************************************************************)
(* Which key of which cloud a genesis program ends up using: the KMS       *)
(* providers of genesis-core and what they are configured with (kms/aws.rs,*)
(* kms/gcp.rs, kms/azure.rs, kms/config.rs), the settings the operator     *)
(* (bridge/kmsconfig.go) and the CLI (cmd/genesis/init.go) build for them, *)
(* and the providers in Go that the CLI also has (internal/kms).           *)
(*                                                                         *)
(* A key is named by a record with the provider it lives in; an AWS name   *)
(* (ARN) contains the key's region.  A ciphertext tells the key version it *)
(* is under.  Settings and environments are records of everything that can *)
(* be set, None where it is not.                                           *)
(***************************************************************************)
EXTENDS Naturals

CONSTANT None  \* no value, or an error

OrElse(value, other) == IF value # None THEN value ELSE other

-----------------------------------------------------------------------------
(***************************************************************************)
(* genesis-core: the constructors.                                         *)
(***************************************************************************)
NoProvider == [type |-> "none"]

aws_from_env_vars(credentials, region, key_arn) ==
  IF None \in {credentials, region, key_arn} THEN NoProvider
  ELSE [type |-> "aws", key |-> key_arn, region |-> region]

\* Credentials in the settings: the environment is not looked at.
aws_from_config(settings, env) ==
  IF settings.credentials # None
    THEN aws_from_env_vars(settings.credentials, settings.region, settings.key_arn)
    ELSE aws_from_env_vars(env.aws_credentials,
                           OrElse(settings.region, env.aws_default_region),
                           OrElse(settings.key_arn, env.genesis_aws_kms_key_arn))

gcp_from_config(settings, env) ==
  LET key_resource_name == OrElse(settings.key_resource_name, env.genesis_gcp_kms_key)
      access_token == OrElse(settings.access_token, env.genesis_gcp_access_token)
  IN IF None \in {key_resource_name, access_token} THEN NoProvider
     ELSE [type |-> "gcp", key |-> key_resource_name]

azure_from_config(settings, env) ==
  LET key == OrElse(settings.key, env.azure_key)
      access_token == OrElse(settings.access_token, env.azure_access_token)
  IN IF None \in {key, access_token} THEN NoProvider
     ELSE [type |-> "azure", key |-> key,
           key_version |-> OrElse(settings.key_version, env.azure_key_version)]

\* "local" and every other name: an error.
create_provider(provider_type, settings, env) ==
  CASE provider_type = "aws" -> aws_from_config(settings, env)
    [] provider_type = "gcp" -> gcp_from_config(settings, env)
    [] provider_type = "azure" -> azure_from_config(settings, env)
    [] OTHER -> NoProvider

-----------------------------------------------------------------------------
(***************************************************************************)
(* The calls.  latest is the newest version of the Azure keys, the one the *)
(* service takes when the URL names none; AWS is asked at the endpoint of  *)
(* the provider's region, and the others at the key's own address.         *)
(***************************************************************************)
Version(p, latest) == IF p.type = "azure" THEN OrElse(p.key_version, latest) ELSE None

\* Does the address the provider calls have the key?
Reaches(p, key) ==
  \/ p.type = "aws" /\ key.provider = "aws-kms" /\ key.region = p.region
  \/ p.type \in {"gcp", "azure"} /\ key = p.key

encrypt(p, plaintext, latest) ==
  IF p.type = "none" THEN None
  ELSE IF ~Reaches(p, p.key) THEN None
  ELSE [key |-> p.key, version |-> Version(p, latest), plaintext |-> plaintext]

\* AWS: the request has no key, the ciphertext says which.
decrypt(p, ciphertext, latest) ==
  IF p.type = "none" \/ ciphertext = None THEN None
  ELSE IF Reaches(p, ciphertext.key) /\ ciphertext.version = Version(p, latest)
         THEN ciphertext.plaintext ELSE None

-----------------------------------------------------------------------------
(***************************************************************************)
(* The settings.  spec is the provider's part of a bootstrap file or of a  *)
(* GenesisBootstrap: the key, for AWS the region or None, for Azure the    *)
(* version or None.                                                        *)
(***************************************************************************)
mapProviderName(provider) ==
  CASE provider = "aws-kms" -> "aws"
    [] provider = "gcp-kms" -> "gcp"
    [] provider = "azure-keyvault" -> "azure"
    [] OTHER -> provider

NoSettings ==
  [key_arn |-> None, region |-> None, credentials |-> None, key_resource_name |-> None,
   key_name |-> None, key |-> None, key_version |-> None, access_token |-> None]

\* Bug: the name that the CLI has for the GCP key.
BugBuildKmsConfigJSON(provider, spec, env) ==
  CASE provider = "aws-kms" ->
         [NoSettings EXCEPT !.key_arn = spec.key, !.credentials = env.aws_credentials,
                            !.region = OrElse(spec.region, env.aws_default_region)]
    [] provider = "gcp-kms" ->
         [NoSettings EXCEPT !.key_name = spec.key, !.access_token = env.genesis_gcp_access_token]
    [] provider = "azure-keyvault" ->
         [NoSettings EXCEPT !.key = spec.key, !.key_version = spec.version,
                            !.access_token = env.azure_access_token]

\* The operator puts the credentials it finds in the environment in.
BuildKmsConfigJSON(provider, spec, env) ==
  CASE provider = "aws-kms" ->
         [NoSettings EXCEPT !.key_arn = spec.key, !.credentials = env.aws_credentials,
                            !.region = OrElse(spec.region, env.aws_default_region)]
    [] provider = "gcp-kms" ->
         [NoSettings EXCEPT !.key_resource_name = spec.key,
                            !.access_token = env.genesis_gcp_access_token]
    [] provider = "azure-keyvault" ->
         [NoSettings EXCEPT !.key = spec.key, !.key_version = spec.version,
                            !.access_token = env.azure_access_token]

\* The CLI does not, and has another name for the GCP key.
kmsSettingsFromBootstrapConfig(provider, spec) ==
  CASE provider = "aws-kms" ->
         [NoSettings EXCEPT !.key_arn = spec.key, !.region = spec.region]
    [] provider = "gcp-kms" -> [NoSettings EXCEPT !.key_name = spec.key]
    [] provider = "azure-keyvault" ->
         [NoSettings EXCEPT !.key = spec.key, !.key_version = spec.version]

-----------------------------------------------------------------------------
(***************************************************************************)
(* The providers in Go, which `genesis rotate` and `genesis unseal` use.   *)
(* Their SDKs find credentials on their own; they always name the key.     *)
(***************************************************************************)
extractRegionFromArn(arn) == arn.region

NewProvider(provider, spec) ==
  CASE provider = "aws-kms" ->
         [type |-> "aws", key |-> spec.key,
          region |-> OrElse(spec.region, extractRegionFromArn(spec.key))]
    [] provider = "gcp-kms" -> [type |-> "gcp", key |-> spec.key]
    [] provider = "azure-keyvault" ->
         [type |-> "azure", key |-> spec.key, key_version |-> spec.version]
    [] OTHER -> NoProvider

Encrypt(p, plaintext, latest) == encrypt(p, plaintext, latest)

Decrypt(p, ciphertext, latest) ==
  IF p.type = "none" \/ ciphertext = None THEN None
  ELSE IF ciphertext.key = p.key THEN decrypt(p, ciphertext, latest) ELSE None
=============================================================================
