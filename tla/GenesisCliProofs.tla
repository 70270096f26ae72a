-------------------------- MODULE GenesisCliProofs --------------------------
(***************************************************************************)
(* The command line, for any keys, environments and number of commands:    *)
(* what a bootstrap file can hold, however it was cut off, and therefore   *)
(* whose key it names and what opens it.                                   *)
(***************************************************************************)
EXTENDS GenesisCli, TLAPS

\* c is what a command means to write: for the age keypair k, by command w.
IsEnvelope(c, k, w) ==
  /\ DOMAIN c = Fields
  /\ c.publicKey = k
  /\ \/ w = "init" /\ c.provider = "local" /\ c.ciphertext = None
     \/ /\ c.provider \in CloudProviders
        /\ c.envelopePath = None
        /\ c.spec \in [key : KmsKeys, region : {None}, version : Nat \cup {None}]
        /\ c.spec.key.provider = c.provider
        /\ c.ciphertext \in [key : KmsKeys, version : Nat \cup {None}, plaintext : Nat]
        /\ c.ciphertext.plaintext = k
        /\ c.ciphertext.key = c.spec.key \/ (w = "init" /\ c.provider = "gcp-kms")
        /\ c.provider # "azure-keyvault" => c.ciphertext.version = None
        /\ c.provider = "azure-keyvault" /\ c.spec.version # None =>
             c.ciphertext.version = c.spec.version

\* The file is what the last command that touched it meant to write, or a part.
BootstrapInv ==
  bootstrap # None =>
    \E c : IsEnvelope(c, initKey, writer) /\ bootstrap \in Cut(Marshal(c))

\* A file of the local mode has its identity beside it.
IdentityInUse ==
  Readable(bootstrap) /\ Load(bootstrap).provider = "local" => identity = initKey

SettledInv == settled => sops = initKey /\ IdentityInUse

Doc(file, contents) == [file |-> file, contents |-> contents]

\* Where a command is.
TodoInv ==
  \/ command = "none" /\ todo = <<>>
  \/ /\ command = "rotate"
     /\ \E c : IsEnvelope(c, initKey, "rotate") /\ todo = <<Doc("bootstrap", Marshal(c))>>
  \/ /\ command = "init" /\ ~settled /\ nextKey > 1
     /\ \/ \E c : /\ IsEnvelope(c, nextKey - 1, "init")
                  /\ todo = <<Doc("identity", nextKey - 1), Doc("bootstrap", Marshal(c)),
                              Doc("sops", nextKey - 1)>>
        \/ \E c : /\ IsEnvelope(c, nextKey - 1, "init")
                  /\ c.provider = "local" => identity = nextKey - 1
                  /\ todo = <<Doc("bootstrap", Marshal(c)), Doc("sops", nextKey - 1)>>
        \/ /\ todo = <<Doc("sops", nextKey - 1)>>
           /\ initKey = nextKey - 1 /\ IdentityInUse

IInv == TypeOK /\ BootstrapInv /\ SettledInv /\ TodoInv

-----------------------------------------------------------------------------
(***************************************************************************)
(* Documents: what is written is loaded, and a field that a cut left is    *)
(* preceded by whole fields.                                               *)
(***************************************************************************)
LEMMA Places ==
  /\ Fields = {"provider", "publicKey", "spec", "ciphertext", "mlkemPublicKey",
               "envelopePath", "output"}
  /\ EnvelopeFields["provider"] = 1 /\ EnvelopeFields["publicKey"] = 2
  /\ EnvelopeFields["spec"] = 3 /\ EnvelopeFields["ciphertext"] = 4
  /\ EnvelopeFields["mlkemPublicKey"] = 5 /\ EnvelopeFields["envelopePath"] = 6
  /\ EnvelopeFields["output"] = 7
BY DEF Fields, EnvelopeFields

LEMMA PlaceType == \A f \in Fields : EnvelopeFields[f] \in Nat
BY Places

LEMMA MarshalLoads ==
  ASSUME NEW c, DOMAIN c = Fields
  PROVE  \A f \in Fields : Load(Marshal(c))[f] = c[f]
BY DEF Load, Marshal

LEMMA MarshalIsACut == \A c : Marshal(c) \in Cut(Marshal(c))
BY DEF Cut

LEMMA CutLoads ==
  ASSUME NEW c, DOMAIN c = Fields, NEW d \in Cut(Marshal(c)), NEW g \in Fields,
         Load(d)[g] # None
  PROVE  /\ g \in DOMAIN d /\ c[g] # None /\ Load(d)[g] \in {c[g], Torn}
         /\ \A f \in Fields : EnvelopeFields[f] < EnvelopeFields[g] => Load(d)[f] = c[f]
<1>1. g \in DOMAIN d
  BY DEF Load
<1>2. CASE d = Marshal(c)
  BY <1>1, <1>2, MarshalLoads DEF Marshal
<1>3. CASE d # Marshal(c)
  <2>1. PICK at \in DOMAIN Marshal(c), torn \in BOOLEAN : d = Part(Marshal(c), at, torn)
    BY <1>3 DEF Cut
  <2>2. /\ DOMAIN Marshal(c) = {f \in Fields : c[f] # None}
        /\ \A f \in DOMAIN Marshal(c) : Marshal(c)[f] = c[f]
    BY DEF Marshal
  <2>3. /\ DOMAIN d = {f \in DOMAIN Marshal(c) : EnvelopeFields[f] < EnvelopeFields[at]
                                                   \/ (torn /\ f = at)}
        /\ \A f \in DOMAIN d : d[f] = IF f = at THEN Torn ELSE Marshal(c)[f]
    BY <2>1 DEF Part
  <2>4. at \in Fields
    BY <2>2
  <2>5. ASSUME NEW f \in Fields, EnvelopeFields[f] < EnvelopeFields[g]
        PROVE  Load(d)[f] = c[f]
    <3>1. EnvelopeFields[f] < EnvelopeFields[at] /\ f # at
      BY <1>1, <2>3, <2>4, <2>5, PlaceType
    <3>2. CASE c[f] # None
      BY <2>2, <2>3, <3>1, <3>2 DEF Load
    <3>3. CASE c[f] = None
      BY <2>2, <2>3, <3>3 DEF Load
    <3>. QED  BY <3>2, <3>3
  <2>6. c[g] # None /\ Load(d)[g] \in {c[g], Torn}
    BY <1>1, <2>2, <2>3 DEF Load
  <2>. QED  BY <1>1, <2>5, <2>6
<1>. QED  BY <1>2, <1>3

LEMMA WholeLoads ==
  ASSUME NEW c, DOMAIN c = Fields, NEW d \in Cut(Marshal(c)), Whole(d)
  PROVE  \A f \in Fields : Load(d)[f] = c[f]
<1>1. CASE d = Marshal(c)
  BY <1>1, MarshalLoads
<1>2. CASE d # Marshal(c)
  <2>1. PICK at \in DOMAIN Marshal(c), torn \in BOOLEAN : d = Part(Marshal(c), at, torn)
    BY <1>2 DEF Cut
  <2>2. at \in Fields /\ "output" \in DOMAIN d
    BY DEF Marshal, Whole
  <2>3. at = "output" => d["output"] = Torn
    BY <2>1, <2>2 DEF Part
  <2>4. ~(EnvelopeFields["output"] < EnvelopeFields[at])
    BY <2>2, Places
  <2>. QED  BY <2>1, <2>2, <2>3, <2>4 DEF Part, Whole
<1>. QED  BY <1>1, <1>2

(***************************************************************************)
(* What Validate accepts has the age key, and the ciphertext up to where   *)
(* it was cut off.                                                         *)
(***************************************************************************)
LEMMA ReadableLoads ==
  ASSUME NEW c, NEW k, NEW w, IsEnvelope(c, k, w), NEW d \in Cut(Marshal(c)),
         Validate(Load(d))
  PROVE  /\ Load(d).provider = c.provider /\ Load(d).publicKey = k
         /\ c.provider \in CloudProviders =>
              /\ Load(d).spec = c.spec
              /\ Load(d).ciphertext \in {c.ciphertext, Torn}
         /\ c.provider \notin CloudProviders => Load(d).ciphertext = None
<1>1. DOMAIN c = Fields /\ c.publicKey = k
  BY DEF IsEnvelope
<1>2. "local" \notin CloudProviders
  BY DEF CloudProviders
<1>3. CASE Load(d).provider = "local" /\ Load(d).envelopePath # None
  <2>1. /\ c.envelopePath # None
        /\ \A f \in Fields : EnvelopeFields[f] < EnvelopeFields["envelopePath"] =>
             Load(d)[f] = c[f]
    BY <1>1, <1>3, CutLoads, Places
  <2>2. /\ Load(d).provider = c.provider /\ Load(d).publicKey = c.publicKey
        /\ Load(d).ciphertext = c.ciphertext
    BY <2>1, Places
  <2>3. c.provider \notin CloudProviders /\ c.ciphertext = None
    BY <1>2, <2>1 DEF IsEnvelope
  <2>. QED  BY <1>1, <2>2, <2>3
<1>4. CASE Load(d).provider \in CloudProviders /\ Load(d).ciphertext # None
  <2>1. /\ c.ciphertext # None /\ Load(d).ciphertext \in {c.ciphertext, Torn}
        /\ \A f \in Fields : EnvelopeFields[f] < EnvelopeFields["ciphertext"] =>
             Load(d)[f] = c[f]
    BY <1>1, <1>4, CutLoads, Places
  <2>2. /\ Load(d).provider = c.provider /\ Load(d).publicKey = c.publicKey
        /\ Load(d).spec = c.spec
    BY <2>1, Places
  <2>. QED  BY <1>1, <1>4, <2>1, <2>2
<1>. QED  BY <1>3, <1>4 DEF Validate

-----------------------------------------------------------------------------
(***************************************************************************)
(* The providers.                                                          *)
(***************************************************************************)
LEMMA DecryptGives ==
  ASSUME NEW p, NEW ct
  PROVE  /\ decrypt(p, ct, latest) \in {ct.plaintext, None}
         /\ Decrypt(p, ct, latest) \in {ct.plaintext, None}
         /\ Decrypt(p, ct, latest) # None => ct # None
BY DEF decrypt, Decrypt

\* What init encrypts with: the key that it records, for GCP another perhaps.
LEMMA InitEncrypts ==
  ASSUME NEW env \in Environments, NEW key \in KmsKeys, NEW version \in Nat \cup {None},
         NEW n \in Nat, latest \in Nat,
         LET p == create_provider(mapProviderName(key.provider),
                    kmsSettingsFromBootstrapConfig(key.provider, SpecOf(key, version)), env)
         IN encrypt(p, n, latest) # None
  PROVE  LET p == create_provider(mapProviderName(key.provider),
                    kmsSettingsFromBootstrapConfig(key.provider, SpecOf(key, version)), env)
             ct == encrypt(p, n, latest)
         IN /\ ct \in [key : KmsKeys, version : Nat \cup {None}, plaintext : Nat]
            /\ ct.plaintext = n
            /\ ct.key = key \/ key.provider = "gcp-kms"
            /\ key.provider # "azure-keyvault" => ct.version = None
            /\ key.provider = "azure-keyvault" /\ version # None => ct.version = version
<1>. DEFINE spec == SpecOf(key, version)
            settings == kmsSettingsFromBootstrapConfig(key.provider, spec)
            p == create_provider(mapProviderName(key.provider), settings, env)
            ct == encrypt(p, n, latest)
<1>1. spec.key = key /\ spec.region = None /\ spec.version = version
  BY DEF SpecOf
<1>2. key.provider \in CloudProviders /\ key # None
  BY KmsKeysAssumption
<1>3. ct # None
  OBVIOUS
<1>. HIDE DEF spec
<1>4. ASSUME key.provider = "aws-kms"
      PROVE  p.type = "none" \/ (p.type = "aws" /\ p.key = key)
  <2>1. settings = [NoSettings EXCEPT !.key_arn = key, !.region = None]
    BY <1>1, <1>4 DEF kmsSettingsFromBootstrapConfig
  <2>2. settings.key_arn = key
    BY <2>1 DEF NoSettings
  <2>3. p = aws_from_config(settings, env)
    BY <1>4 DEF create_provider, mapProviderName
  <2>. HIDE DEF settings, p
  <2>. QED  BY <1>2, <2>2, <2>3 DEF aws_from_config, aws_from_env_vars, OrElse, NoProvider
<1>5. ASSUME key.provider = "gcp-kms"
      PROVE  p.type = "none" \/ (p.type = "gcp" /\ p.key \in KmsKeys)
  <2>1. settings = [NoSettings EXCEPT !.key_name = key]
    BY <1>1, <1>5 DEF kmsSettingsFromBootstrapConfig
  <2>2. settings.key_resource_name = None
    BY <2>1 DEF NoSettings
  <2>3. p = gcp_from_config(settings, env)
    BY <1>5 DEF create_provider, mapProviderName
  <2>. HIDE DEF settings, p
  <2>. QED  BY <2>2, <2>3, EnvironmentsAssumption DEF gcp_from_config, OrElse, NoProvider
<1>6. ASSUME key.provider = "azure-keyvault"
      PROVE  \/ p.type = "none"
             \/ /\ p.type = "azure" /\ p.key = key
                /\ p.key_version = OrElse(version, env.azure_key_version)
  <2>1. settings = [NoSettings EXCEPT !.key = key, !.key_version = version]
    BY <1>1, <1>6 DEF kmsSettingsFromBootstrapConfig
  <2>2. settings.key = key /\ settings.key_version = version
    BY <2>1 DEF NoSettings
  <2>3. p = azure_from_config(settings, env)
    BY <1>6 DEF create_provider, mapProviderName
  <2>. HIDE DEF settings, p
  <2>. QED  BY <1>2, <2>2, <2>3 DEF azure_from_config, OrElse, NoProvider
<1>. HIDE DEF p
<1>7. p.type # "none" /\ ct = [key |-> p.key, version |-> Version(p, latest), plaintext |-> n]
  BY <1>3 DEF encrypt
<1>8. ct.key = p.key /\ ct.version = Version(p, latest) /\ ct.plaintext = n
  BY <1>7
<1>9. p.key \in KmsKeys /\ (p.key = key \/ key.provider = "gcp-kms")
  BY <1>2, <1>4, <1>5, <1>6, <1>7 DEF CloudProviders
<1>10. /\ key.provider # "azure-keyvault" => Version(p, latest) = None
       /\ key.provider = "azure-keyvault" /\ version # None => Version(p, latest) = version
       /\ Version(p, latest) \in Nat \cup {None}
  <2>1. CASE key.provider = "azure-keyvault"
    <3>1. env.azure_key_version \in Nat \cup {None}
      BY EnvironmentsAssumption
    <3>2. p.type = "azure" /\ p.key_version = OrElse(version, env.azure_key_version)
      BY <1>6, <1>7, <2>1
    <3>. QED  BY <2>1, <3>1, <3>2 DEF Version, OrElse
  <2>2. CASE key.provider # "azure-keyvault"
    <3>1. p.type # "azure"
      BY <1>2, <1>4, <1>5, <1>7, <2>2 DEF CloudProviders
    <3>. QED  BY <2>2, <3>1 DEF Version
  <2>. QED  BY <2>1, <2>2
<1>11. ct \in [key : KmsKeys, version : Nat \cup {None}, plaintext : Nat]
  BY <1>7, <1>9, <1>10
<1>. HIDE DEF ct
<1>12. /\ ct \in [key : KmsKeys, version : Nat \cup {None}, plaintext : Nat]
       /\ ct.plaintext = n
       /\ ct.key = key \/ key.provider = "gcp-kms"
       /\ key.provider # "azure-keyvault" => ct.version = None
       /\ key.provider = "azure-keyvault" /\ version # None => ct.version = version
  BY <1>8, <1>9, <1>10, <1>11
<1>. QED  BY <1>12 DEF ct, p, settings, spec

\* rotate encrypts with the key that it records.
LEMMA RotateEncrypts ==
  ASSUME NEW key \in KmsKeys, key.provider # "azure-keyvault", NEW n \in Nat,
         Encrypt(NewProvider(key.provider, SpecOf(key, None)), n, latest) # None
  PROVE  Encrypt(NewProvider(key.provider, SpecOf(key, None)), n, latest) =
           [key |-> key, version |-> None, plaintext |-> n]
<1>1. key.provider \in {"aws-kms", "gcp-kms"}
  BY KmsKeysAssumption DEF CloudProviders
<1>. QED  BY <1>1 DEF Encrypt, encrypt, NewProvider, SpecOf, Version

(***************************************************************************)
(* What opens a complete envelope: the SDKs, the operator, and the CLI's   *)
(* bridge if it has the name of the GCP key.                               *)
(***************************************************************************)
LEMMA CiphertextIsWhole ==
  ASSUME NEW cfg, NEW k, NEW w, IsEnvelope(cfg, k, w), cfg.provider \in CloudProviders
  PROVE  /\ Ciphertext(cfg) = cfg.ciphertext /\ cfg.ciphertext # None
         /\ cfg.ciphertext.plaintext = k /\ cfg.publicKey = k
         /\ cfg.spec.key \in KmsKeys /\ cfg.spec.key # None /\ cfg.spec.region = None
         /\ cfg.spec.key.provider = cfg.provider
         /\ cfg.provider # "azure-keyvault" => cfg.ciphertext.version = None
         /\ cfg.provider # "gcp-kms" => cfg.ciphertext.key = cfg.spec.key
         /\ cfg.provider = "azure-keyvault" /\ cfg.spec.version # None =>
              cfg.ciphertext.version = cfg.spec.version
<1>1. cfg.provider # "local"
  BY DEF CloudProviders
<1>2. cfg.ciphertext \in [key : KmsKeys, version : Nat \cup {None}, plaintext : Nat]
  BY <1>1 DEF IsEnvelope
<1>3. cfg.ciphertext \notin {None, Torn}
  BY <1>2, CiphertextAssumption
<1>4. cfg.spec \in [key : KmsKeys, region : {None}, version : Nat \cup {None}]
  BY <1>1 DEF IsEnvelope
<1>5. cfg.spec.key \in KmsKeys /\ cfg.spec.key # None /\ cfg.spec.region = None
  BY <1>4, KmsKeysAssumption
<1>. QED  BY <1>1, <1>3, <1>5 DEF IsEnvelope, Ciphertext

LEMMA SdkOpens ==
  ASSUME NEW cfg, NEW k, NEW w, IsEnvelope(cfg, k, w), cfg.provider \in CloudProviders,
         cfg.ciphertext.key = cfg.spec.key, ~OtherVersion(cfg)
  PROVE  OpenWithSdk(cfg) = k
<1>. DEFINE p == NewProvider(cfg.provider, cfg.spec)
            ct == cfg.ciphertext
<1>1. /\ Ciphertext(cfg) = ct /\ ct # None /\ ct.plaintext = k
      /\ cfg.spec.region = None /\ cfg.spec.key.provider = cfg.provider
      /\ cfg.provider # "azure-keyvault" => ct.version = None
      /\ cfg.provider = "azure-keyvault" /\ cfg.spec.version # None =>
           ct.version = cfg.spec.version
  BY CiphertextIsWhole
<1>2. p.type # "none" /\ p.key = ct.key /\ Reaches(p, ct.key) /\ ct.version = Version(p, latest)
  <2>1. CASE cfg.provider = "aws-kms"
    BY <1>1, <2>1 DEF NewProvider, OrElse, extractRegionFromArn, Reaches, Version
  <2>2. CASE cfg.provider = "gcp-kms"
    BY <1>1, <2>2 DEF NewProvider, Reaches, Version
  <2>3. CASE cfg.provider = "azure-keyvault"
    BY <1>1, <2>3 DEF NewProvider, Reaches, Version, OrElse, OtherVersion
  <2>. QED  BY <2>1, <2>2, <2>3 DEF CloudProviders
<1>. HIDE DEF p, ct
<1>3. Decrypt(p, ct, latest) = ct.plaintext
  BY <1>1, <1>2 DEF Decrypt, decrypt
<1>. QED  BY <1>1, <1>3 DEF OpenWithSdk, p, ct

LEMMA OperatorOpens ==
  ASSUME NEW cfg, NEW k, NEW w, IsEnvelope(cfg, k, w), cfg.provider \in CloudProviders,
         cfg.ciphertext.key = cfg.spec.key, ~OtherVersion(cfg), NEW env, Suits(env, cfg)
  PROVE  OpenInOperator(cfg, env) = k
<1>. DEFINE settings == BuildKmsConfigJSON(cfg.provider, cfg.spec, env)
            p == create_provider(mapProviderName(cfg.provider), settings, env)
            ct == cfg.ciphertext
<1>1. /\ Ciphertext(cfg) = ct /\ ct # None /\ ct.plaintext = k
      /\ cfg.spec.key \in KmsKeys /\ cfg.spec.key # None
      /\ cfg.spec.region = None /\ cfg.spec.key.provider = cfg.provider
      /\ cfg.provider # "azure-keyvault" => ct.version = None
      /\ cfg.provider = "azure-keyvault" /\ cfg.spec.version # None =>
           ct.version = cfg.spec.version
  BY CiphertextIsWhole
<1>2. p.type # "none" /\ Reaches(p, ct.key) /\ ct.version = Version(p, latest)
  <2>1. CASE cfg.provider = "aws-kms"
    <3>1. settings.key_arn = cfg.spec.key /\ settings.credentials = env.aws_credentials
          /\ settings.region = env.aws_default_region
      BY <1>1, <2>1 DEF BuildKmsConfigJSON, NoSettings, OrElse
    <3>2. p = aws_from_config(settings, env)
      BY <2>1 DEF create_provider, mapProviderName
    <3>3. env.aws_credentials # None /\ env.aws_default_region = cfg.spec.key.region
          /\ cfg.spec.key.region # None
      BY <1>1, <2>1, KmsKeysAssumption DEF Suits
    <3>. HIDE DEF settings
    <3>4. p = [type |-> "aws", key |-> cfg.spec.key, region |-> cfg.spec.key.region]
      BY <1>1, <3>1, <3>2, <3>3 DEF aws_from_config, aws_from_env_vars
    <3>. QED  BY <1>1, <2>1, <3>4 DEF Reaches, Version
  <2>2. CASE cfg.provider = "gcp-kms"
    <3>1. /\ settings.key_resource_name = cfg.spec.key
          /\ settings.access_token = env.genesis_gcp_access_token
      BY <2>2 DEF BuildKmsConfigJSON, NoSettings
    <3>2. p = gcp_from_config(settings, env)
      BY <2>2 DEF create_provider, mapProviderName
    <3>3. env.genesis_gcp_access_token # None
      BY <2>2 DEF Suits
    <3>. HIDE DEF settings
    <3>4. p = [type |-> "gcp", key |-> cfg.spec.key]
      BY <1>1, <3>1, <3>2, <3>3 DEF gcp_from_config, OrElse
    <3>. QED  BY <1>1, <2>2, <3>4 DEF Reaches, Version
  <2>3. CASE cfg.provider = "azure-keyvault"
    <3>1. /\ settings.key = cfg.spec.key /\ settings.key_version = cfg.spec.version
          /\ settings.access_token = env.azure_access_token
      BY <2>3 DEF BuildKmsConfigJSON, NoSettings
    <3>2. p = azure_from_config(settings, env)
      BY <2>3 DEF create_provider, mapProviderName
    <3>3. /\ env.azure_access_token # None
          /\ cfg.spec.version = None => env.azure_key_version \in {None, ct.version}
      BY <2>3 DEF Suits
    <3>. HIDE DEF settings
    <3>4. p = [type |-> "azure", key |-> cfg.spec.key,
               key_version |-> OrElse(cfg.spec.version, env.azure_key_version)]
      BY <1>1, <3>1, <3>2, <3>3 DEF azure_from_config, OrElse
    <3>5. ct.version = OrElse(OrElse(cfg.spec.version, env.azure_key_version), latest)
      BY <1>1, <2>3, <3>3 DEF OrElse, OtherVersion
    <3>. QED  BY <3>4, <3>5 DEF Reaches, Version
  <2>. QED  BY <2>1, <2>2, <2>3 DEF CloudProviders
<1>. HIDE DEF p, ct
<1>3. decrypt(p, ct, latest) = ct.plaintext
  BY <1>1, <1>2 DEF decrypt
<1>. QED  BY <1>1, <1>3 DEF OpenInOperator, p, settings, ct

LEMMA BridgeOpens ==
  ASSUME NEW cfg, NEW k, NEW w, IsEnvelope(cfg, k, w), cfg.provider \in CloudProviders,
         cfg.ciphertext.key = cfg.spec.key, ~OtherVersion(cfg), NEW env, Suits(env, cfg),
         cfg.provider # "gcp-kms" \/ env.genesis_gcp_kms_key = cfg.spec.key
  PROVE  OpenWithBridge(cfg, env) = k
<1>. DEFINE settings == kmsSettingsFromBootstrapConfig(cfg.provider, cfg.spec)
            p == create_provider(mapProviderName(cfg.provider), settings, env)
            ct == cfg.ciphertext
<1>1. /\ Ciphertext(cfg) = ct /\ ct # None /\ ct.plaintext = k
      /\ cfg.spec.key \in KmsKeys /\ cfg.spec.key # None
      /\ cfg.spec.region = None /\ cfg.spec.key.provider = cfg.provider
      /\ cfg.provider # "azure-keyvault" => ct.version = None
      /\ cfg.provider = "azure-keyvault" /\ cfg.spec.version # None =>
           ct.version = cfg.spec.version
  BY CiphertextIsWhole
<1>2. p.type # "none" /\ Reaches(p, ct.key) /\ ct.version = Version(p, latest)
  <2>1. CASE cfg.provider = "aws-kms"
    <3>1. settings.key_arn = cfg.spec.key /\ settings.credentials = None
          /\ settings.region = None
      BY <1>1, <2>1 DEF kmsSettingsFromBootstrapConfig, NoSettings
    <3>2. p = aws_from_config(settings, env)
      BY <2>1 DEF create_provider, mapProviderName
    <3>3. env.aws_credentials # None /\ env.aws_default_region = cfg.spec.key.region
          /\ cfg.spec.key.region # None
      BY <1>1, <2>1, KmsKeysAssumption DEF Suits
    <3>. HIDE DEF settings
    <3>4. p = [type |-> "aws", key |-> cfg.spec.key, region |-> cfg.spec.key.region]
      BY <1>1, <3>1, <3>2, <3>3 DEF aws_from_config, aws_from_env_vars, OrElse
    <3>. QED  BY <1>1, <2>1, <3>4 DEF Reaches, Version
  <2>2. CASE cfg.provider = "gcp-kms"
    <3>1. settings.key_resource_name = None /\ settings.access_token = None
      BY <2>2 DEF kmsSettingsFromBootstrapConfig, NoSettings
    <3>2. p = gcp_from_config(settings, env)
      BY <2>2 DEF create_provider, mapProviderName
    <3>3. env.genesis_gcp_access_token # None /\ env.genesis_gcp_kms_key = cfg.spec.key
      BY <2>2 DEF Suits
    <3>. HIDE DEF settings
    <3>4. p = [type |-> "gcp", key |-> cfg.spec.key]
      BY <1>1, <3>1, <3>2, <3>3 DEF gcp_from_config, OrElse
    <3>. QED  BY <1>1, <2>2, <3>4 DEF Reaches, Version
  <2>3. CASE cfg.provider = "azure-keyvault"
    <3>1. /\ settings.key = cfg.spec.key /\ settings.key_version = cfg.spec.version
          /\ settings.access_token = None
      BY <2>3 DEF kmsSettingsFromBootstrapConfig, NoSettings
    <3>2. p = azure_from_config(settings, env)
      BY <2>3 DEF create_provider, mapProviderName
    <3>3. /\ env.azure_access_token # None
          /\ cfg.spec.version = None => env.azure_key_version \in {None, ct.version}
      BY <2>3 DEF Suits
    <3>. HIDE DEF settings
    <3>4. p = [type |-> "azure", key |-> cfg.spec.key,
               key_version |-> OrElse(cfg.spec.version, env.azure_key_version)]
      BY <1>1, <3>1, <3>2, <3>3 DEF azure_from_config, OrElse
    <3>5. ct.version = OrElse(OrElse(cfg.spec.version, env.azure_key_version), latest)
      BY <1>1, <2>3, <3>3 DEF OrElse, OtherVersion
    <3>. QED  BY <3>4, <3>5 DEF Reaches, Version
  <2>. QED  BY <2>1, <2>2, <2>3 DEF CloudProviders
<1>. HIDE DEF p, ct
<1>3. decrypt(p, ct, latest) = ct.plaintext
  BY <1>1, <1>2 DEF decrypt
<1>. QED  BY <1>1, <1>3 DEF OpenWithBridge, p, settings, ct

-----------------------------------------------------------------------------
(***************************************************************************)
(* The invariant, action by action.                                        *)
(***************************************************************************)
LEMMA ShortTodo ==
  ASSUME NEW a, NEW b, NEW c
  PROVE  /\ Head(<<a>>) = a /\ Tail(<<a>>) = <<>> /\ Len(<<a>>) = 1
         /\ Head(<<a, b>>) = a /\ Tail(<<a, b>>) = <<b>> /\ Len(<<a, b>>) = 2
         /\ Head(<<a, b, c>>) = a /\ Tail(<<a, b, c>>) = <<b, c>> /\ Len(<<a, b, c>>) = 3
         /\ Len(<<>>) = 0
         /\ <<a>> # <<>> /\ <<a, b>> # <<>> /\ <<a, b, c>> # <<>>
OBVIOUS

LEMMA InitIInv == Init => IInv
<1>. SUFFICES ASSUME Init PROVE IInv
  OBVIOUS
<1>1. nextKey \in 1..MaxKey + 1 /\ latest \in 1..MaxVersion
  BY BoundsAssumption DEF Init
<1>2. todo = <<>> /\ Len(todo) <= 3 /\ command = "none"
  BY ShortTodo DEF Init
<1>. QED
  BY <1>1, <1>2 DEF Init, IInv, TypeOK, BootstrapInv, SettledInv, TodoInv

LEMMA StutterKeeps == IInv /\ UNCHANGED vars => IInv'
BY DEF IInv, TypeOK, AgeKey, BootstrapInv, SettledInv, IdentityInUse, TodoInv, vars

LEMMA NewVersionKeeps == IInv /\ NewAzureVersion => IInv'
<1>. SUFFICES ASSUME IInv, NewAzureVersion PROVE IInv'
  OBVIOUS
<1>1. latest' \in 1..MaxVersion
  BY BoundsAssumption DEF IInv, TypeOK, NewAzureVersion
<1>. QED
  BY <1>1 DEF IInv, TypeOK, AgeKey, BootstrapInv, SettledInv, IdentityInUse, TodoInv,
     NewAzureVersion, files

LEMMA InitLocalKeeps == IInv /\ runInitLocal => IInv'
<1>. SUFFICES ASSUME IInv, runInitLocal PROVE IInv'
  OBVIOUS
<1>. DEFINE c == [NoConfig EXCEPT !.provider = "local", !.publicKey = nextKey,
                                  !.mlkemPublicKey = nextKey, !.envelopePath = "path",
                                  !.output = DefaultOutput]
<1>1. /\ nextKey \in 1..MaxKey + 1 /\ nextKey <= MaxKey /\ nextKey' = nextKey + 1
      /\ command' = "init" /\ settled' = FALSE
      /\ UNCHANGED <<bootstrap, sops, identity, latest, initKey, writer>>
      /\ todo' = <<Doc("identity", nextKey), Doc("bootstrap", Marshal(c)), Doc("sops", nextKey)>>
  BY DEF IInv, TypeOK, runInitLocal, files, Doc
<1>2. IsEnvelope(c, nextKey, "init")
  BY Places DEF IsEnvelope, NoConfig
<1>. HIDE DEF c
<1>3. nextKey' - 1 = nextKey /\ nextKey' > 1 /\ nextKey' \in 1..MaxKey + 1
      /\ AgeKey \subseteq AgeKey'
  BY <1>1, BoundsAssumption DEF AgeKey
<1>4. TypeOK'
  <2>1. todo' # <<>> /\ Len(todo') <= 3
    BY <1>1, ShortTodo
  <2>. QED  BY <1>1, <1>3, <2>1 DEF IInv, TypeOK
<1>5. TodoInv'
  BY <1>1, <1>2, <1>3 DEF TodoInv
<1>6. BootstrapInv' /\ SettledInv'
  BY <1>1 DEF IInv, BootstrapInv, SettledInv
<1>. QED  BY <1>4, <1>5, <1>6 DEF IInv

LEMMA InitCloudKeeps == ASSUME NEW env \in Environments PROVE IInv /\ runInitCloudKMS(env) => IInv'
<1>. SUFFICES ASSUME IInv, runInitCloudKMS(env) PROVE IInv'
  OBVIOUS
<1>. DEFINE prov(key, version) ==
              create_provider(mapProviderName(key.provider),
                kmsSettingsFromBootstrapConfig(key.provider, SpecOf(key, version)), env)
            conf(key, version) ==
              [NoConfig EXCEPT !.provider = key.provider, !.publicKey = nextKey,
                 !.spec = SpecOf(key, version),
                 !.ciphertext = encrypt(prov(key, version), nextKey, latest),
                 !.output = DefaultOutput]
<1>1. PICK key \in KmsKeys, version \in {None, latest} :
        /\ encrypt(prov(key, version), nextKey, latest) # None
        /\ todo' = <<Doc("bootstrap", Marshal(conf(key, version))), Doc("sops", nextKey)>>
  BY DEF runInitCloudKMS, Doc
<1>2. /\ nextKey \in 1..MaxKey + 1 /\ nextKey <= MaxKey /\ nextKey' = nextKey + 1
      /\ command' = "init" /\ settled' = FALSE
      /\ UNCHANGED <<bootstrap, sops, identity, latest, initKey, writer>>
  BY DEF IInv, TypeOK, runInitCloudKMS, files
<1>3. /\ nextKey \in Nat /\ latest \in Nat /\ version \in Nat \cup {None}
  BY <1>1, <1>2, BoundsAssumption DEF IInv, TypeOK
<1>. DEFINE ct == encrypt(prov(key, version), nextKey, latest)
            c == conf(key, version)
<1>4. /\ ct \in [key : KmsKeys, version : Nat \cup {None}, plaintext : Nat]
      /\ ct.plaintext = nextKey
      /\ ct.key = key \/ key.provider = "gcp-kms"
      /\ key.provider # "azure-keyvault" => ct.version = None
      /\ key.provider = "azure-keyvault" /\ version # None => ct.version = version
  BY <1>1, <1>3, InitEncrypts
<1>. HIDE DEF ct
<1>5. /\ DOMAIN c = Fields /\ c.provider = key.provider /\ c.publicKey = nextKey
      /\ c.spec = SpecOf(key, version) /\ c.ciphertext = ct /\ c.envelopePath = None
  BY Places DEF NoConfig, ct
<1>. HIDE DEF c
<1>6. IsEnvelope(c, nextKey, "init")
  <2>1. key.provider \in CloudProviders
    BY KmsKeysAssumption
  <2>2. /\ c.spec \in [key : KmsKeys, region : {None}, version : Nat \cup {None}]
        /\ c.spec.key = key /\ c.spec.version = version
    BY <1>3, <1>5 DEF SpecOf
  <2>. QED  BY <1>4, <1>5, <2>1, <2>2 DEF IsEnvelope
<1>7. c.provider # "local"
  BY <1>5, KmsKeysAssumption DEF CloudProviders
<1>8. nextKey' - 1 = nextKey /\ nextKey' > 1 /\ nextKey' \in 1..MaxKey + 1
      /\ AgeKey \subseteq AgeKey'
  BY <1>2, BoundsAssumption DEF AgeKey
<1>9. todo' = <<Doc("bootstrap", Marshal(c)), Doc("sops", nextKey)>>
  BY <1>1 DEF c
<1>10. TypeOK'
  <2>1. todo' # <<>> /\ Len(todo') <= 3
    BY <1>9, ShortTodo
  <2>. QED  BY <1>2, <1>8, <2>1 DEF IInv, TypeOK
<1>11. TodoInv'
  BY <1>2, <1>6, <1>7, <1>8, <1>9 DEF TodoInv
<1>12. BootstrapInv' /\ SettledInv'
  BY <1>2 DEF IInv, BootstrapInv, SettledInv
<1>. QED  BY <1>10, <1>11, <1>12 DEF IInv

\* What a readable file holds.
LEMMA ReadableHolds ==
  ASSUME IInv, Readable(bootstrap)
  PROVE  LET cfg == Load(bootstrap) IN
         /\ DOMAIN cfg = Fields /\ cfg.publicKey = initKey
         /\ Ciphertext(cfg) # None =>
              /\ cfg.provider \in CloudProviders /\ cfg.envelopePath = None
              /\ cfg.ciphertext.plaintext = initKey /\ initKey \in Nat
<1>1. PICK c : IsEnvelope(c, initKey, writer) /\ bootstrap \in Cut(Marshal(c))
  BY DEF IInv, BootstrapInv, Readable
<1>. DEFINE cfg == Load(bootstrap)
<1>2. /\ cfg.provider = c.provider /\ cfg.publicKey = initKey
      /\ c.provider \in CloudProviders => cfg.ciphertext \in {c.ciphertext, Torn}
      /\ c.provider \notin CloudProviders => cfg.ciphertext = None
  BY <1>1, ReadableLoads DEF Readable
<1>3. DOMAIN cfg = Fields
  BY DEF Load
<1>4. ASSUME Ciphertext(cfg) # None
      PROVE  /\ cfg.provider \in CloudProviders /\ cfg.envelopePath = None
             /\ cfg.ciphertext.plaintext = initKey /\ initKey \in Nat
  <2>1. cfg.ciphertext # None /\ cfg.ciphertext # Torn
    BY <1>4 DEF Ciphertext
  <2>. HIDE DEF cfg
  <2>2. c.provider \in CloudProviders /\ cfg.ciphertext = c.ciphertext
    BY <1>2, <2>1
  <2>3. c.provider # "local"
    BY <2>2 DEF CloudProviders
  <2>4. /\ c.envelopePath = None /\ c.ciphertext.plaintext = initKey
        /\ c.ciphertext \in [key : KmsKeys, version : Nat \cup {None}, plaintext : Nat]
        /\ DOMAIN c = Fields
    BY <1>1, <2>3 DEF IsEnvelope
  <2>5. cfg.envelopePath = None
    BY <1>1, <2>4, CutLoads, Places DEF cfg
  <2>. QED  BY <1>2, <2>2, <2>4, <2>5
<1>. QED  BY <1>2, <1>3, <1>4

LEMMA RotateKeeps == IInv /\ runRotate => IInv'
<1>. SUFFICES ASSUME IInv, runRotate PROVE IInv'
  OBVIOUS
<1>. DEFINE cfg == Load(bootstrap)
            privateKey == OpenWithSdk(cfg)
            output == IF cfg.output \in {None, Torn} THEN [secretName |-> None] ELSE cfg.output
            newEnv(key) == Encrypt(NewProvider(key.provider, SpecOf(key, None)), privateKey, latest)
            conf(key) == [cfg EXCEPT !.provider = key.provider, !.ciphertext = newEnv(key),
                                     !.spec = SpecOf(key, None), !.output = output]
<1>1. /\ Readable(bootstrap) /\ privateKey # None
      /\ command' = "rotate"
      /\ UNCHANGED <<bootstrap, sops, identity, nextKey, latest, initKey, writer, settled>>
  BY DEF runRotate, files
<1>2. PICK key \in {k \in KmsKeys : k.provider # "azure-keyvault"} :
        newEnv(key) # None /\ todo' = <<Doc("bootstrap", Marshal(conf(key)))>>
  BY DEF runRotate, Doc
<1>. DEFINE ct == newEnv(key)
            c == conf(key)
<1>3. privateKey = initKey /\ initKey \in Nat /\ DOMAIN cfg = Fields
      /\ cfg.publicKey = initKey /\ cfg.envelopePath = None
  <2>1. Ciphertext(cfg) # None /\ privateKey \in {Ciphertext(cfg).plaintext, None}
    BY <1>1, DecryptGives DEF OpenWithSdk
  <2>2. Ciphertext(cfg) = cfg.ciphertext
    BY <2>1 DEF Ciphertext
  <2>3. /\ DOMAIN cfg = Fields /\ cfg.publicKey = initKey
        /\ cfg.ciphertext.plaintext = initKey /\ initKey \in Nat /\ cfg.envelopePath = None
    BY <1>1, <2>1, ReadableHolds
  <2>. HIDE DEF cfg, privateKey
  <2>. QED  BY <1>1, <2>1, <2>2, <2>3
<1>. HIDE DEF privateKey
<1>4. ct = [key |-> key, version |-> None, plaintext |-> initKey]
  BY <1>2, <1>3, RotateEncrypts
<1>. HIDE DEF ct
<1>5. /\ DOMAIN c = Fields /\ c.provider = key.provider /\ c.publicKey = initKey
      /\ c.spec = SpecOf(key, None) /\ c.ciphertext = ct /\ c.envelopePath = None
  <2>. HIDE DEF cfg, output
  <2>. QED  BY <1>3, Places DEF ct
<1>. HIDE DEF c
<1>6. IsEnvelope(c, initKey, "rotate")
  <2>1. key.provider \in CloudProviders /\ key \in KmsKeys
    BY KmsKeysAssumption
  <2>2. /\ c.spec \in [key : KmsKeys, region : {None}, version : Nat \cup {None}]
        /\ c.spec.key = key /\ c.spec.version = None
    BY <1>5 DEF SpecOf
  <2>3. /\ ct \in [key : KmsKeys, version : Nat \cup {None}, plaintext : Nat]
        /\ ct.plaintext = initKey /\ ct.key = key /\ ct.version = None
    BY <1>3, <1>4
  <2>. QED  BY <1>5, <2>1, <2>2, <2>3 DEF IsEnvelope
<1>7. todo' = <<Doc("bootstrap", Marshal(c))>>
  BY <1>2 DEF c
<1>8. TypeOK'
  <2>1. todo' # <<>> /\ Len(todo') <= 3
    BY <1>7, ShortTodo
  <2>. QED  BY <1>1, <2>1 DEF IInv, TypeOK, AgeKey
<1>9. TodoInv'
  BY <1>1, <1>6, <1>7 DEF TodoInv
<1>10. BootstrapInv' /\ SettledInv'
  BY <1>1 DEF IInv, BootstrapInv, SettledInv, IdentityInUse
<1>. QED  BY <1>8, <1>9, <1>10 DEF IInv

\* A write to bootstrap: all of the document, or what is left of it.
LEMMA WrittenBootstrap ==
  ASSUME NEW c, NEW k, IsEnvelope(c, k, command), NEW d \in Cut(Marshal(c)),
         command = "init" => k = nextKey - 1, command = "rotate" => k = initKey,
         command \in {"init", "rotate"}, Written("bootstrap", d)
  PROVE  /\ bootstrap' = d /\ UNCHANGED <<sops, identity>>
         /\ writer' = command /\ initKey' = k
         /\ BootstrapInv'
         /\ Readable(bootstrap') => Load(bootstrap').provider = c.provider
<1>1. /\ bootstrap' = d /\ UNCHANGED <<sops, identity>>
      /\ writer' = command /\ initKey' = k
  BY DEF Written
<1>2. Readable(bootstrap') => Load(bootstrap').provider = c.provider
  BY <1>1, ReadableLoads DEF Readable
<1>. QED  BY <1>1, <1>2 DEF BootstrapInv

\* A write to another file.
LEMMA WrittenKey ==
  ASSUME NEW file \in {"sops", "identity"}, NEW k, Written(file, k)
  PROVE  /\ UNCHANGED <<bootstrap, writer, initKey>>
         /\ sops' = IF file = "sops" THEN k ELSE sops
         /\ identity' = IF file = "identity" THEN k ELSE identity
         /\ BootstrapInv => BootstrapInv'
<1>1. /\ UNCHANGED <<bootstrap, writer, initKey>>
      /\ sops' = IF file = "sops" THEN k ELSE sops
      /\ identity' = IF file = "identity" THEN k ELSE identity
  BY DEF Written
<1>. QED  BY <1>1 DEF BootstrapInv

LEMMA NewestKey == TypeOK /\ nextKey > 1 => nextKey - 1 \in AgeKey
BY BoundsAssumption DEF TypeOK, AgeKey

LEMMA SaveKeeps == IInv /\ Save => IInv'
<1>. SUFFICES ASSUME IInv, Save PROVE IInv'
  OBVIOUS
<1>1. /\ todo # <<>> /\ Written(Head(todo).file, Head(todo).contents)
      /\ todo' = Tail(todo) /\ UNCHANGED <<nextKey, latest>>
      /\ command' = IF Tail(todo) = <<>> THEN "none" ELSE command
      /\ settled' = IF Tail(todo) = <<>> /\ command = "init" THEN TRUE ELSE settled
  BY DEF Save
<1>2. /\ TypeOK /\ AgeKey' = AgeKey
      /\ nextKey \in 1..MaxKey + 1 /\ settled \in BOOLEAN
  BY <1>1 DEF IInv, TypeOK, AgeKey
<1>3. CASE /\ command = "rotate"
           /\ \E c : IsEnvelope(c, initKey, "rotate") /\ todo = <<Doc("bootstrap", Marshal(c))>>
  <2>1. PICK c : IsEnvelope(c, initKey, "rotate") /\ todo = <<Doc("bootstrap", Marshal(c))>>
    BY <1>3
  <2>2. Head(todo) = Doc("bootstrap", Marshal(c)) /\ Tail(todo) = <<>>
    BY <2>1, ShortTodo
  <2>3. Written("bootstrap", Marshal(c))
    BY <1>1, <2>2 DEF Doc
  <2>4. /\ UNCHANGED <<sops, identity>> /\ writer' = "rotate" /\ initKey' = initKey
        /\ BootstrapInv'
        /\ Readable(bootstrap') => Load(bootstrap').provider = c.provider
    BY <1>3, <2>1, <2>3, MarshalIsACut, WrittenBootstrap
  <2>5. c.provider # "local"
    BY <2>1 DEF IsEnvelope, CloudProviders
  <2>6. todo' = <<>> /\ command' = "none" /\ settled' = settled
    BY <1>1, <1>3, <2>2
  <2>7. TypeOK'
    <3>1. Len(todo') <= 3
      BY <2>6, ShortTodo
    <3>. QED  BY <1>1, <1>2, <2>4, <2>6, <3>1 DEF TypeOK
  <2>8. SettledInv'
    BY <2>4, <2>5, <2>6 DEF IInv, SettledInv, IdentityInUse
  <2>. QED  BY <2>4, <2>6, <2>7, <2>8 DEF IInv, TodoInv
<1>4. CASE /\ command = "init" /\ ~settled /\ nextKey > 1
           /\ \E c : /\ IsEnvelope(c, nextKey - 1, "init")
                     /\ todo = <<Doc("identity", nextKey - 1), Doc("bootstrap", Marshal(c)),
                                 Doc("sops", nextKey - 1)>>
  <2>1. PICK c : /\ IsEnvelope(c, nextKey - 1, "init")
                 /\ todo = <<Doc("identity", nextKey - 1), Doc("bootstrap", Marshal(c)),
                             Doc("sops", nextKey - 1)>>
    BY <1>4
  <2>2. /\ Head(todo) = Doc("identity", nextKey - 1)
        /\ Tail(todo) = <<Doc("bootstrap", Marshal(c)), Doc("sops", nextKey - 1)>>
        /\ Tail(todo) # <<>> /\ Len(Tail(todo)) = 2
    BY <2>1, ShortTodo
  <2>3. Written("identity", nextKey - 1)
    BY <1>1, <2>2 DEF Doc
  <2>4. /\ UNCHANGED <<bootstrap, sops, writer, initKey>> /\ identity' = nextKey - 1
        /\ BootstrapInv'
    BY <2>3, WrittenKey DEF IInv
  <2>5. /\ todo' = <<Doc("bootstrap", Marshal(c)), Doc("sops", nextKey - 1)>>
        /\ todo' # <<>> /\ Len(todo') = 2 /\ command' = "init" /\ settled' = settled
    BY <1>1, <1>4, <2>2
  <2>6. TypeOK'
    BY <1>1, <1>2, <1>4, <2>4, <2>5, NewestKey DEF TypeOK
  <2>7. TodoInv'
    BY <1>1, <1>4, <2>1, <2>4, <2>5 DEF TodoInv
  <2>. QED  BY <1>4, <2>4, <2>5, <2>6, <2>7 DEF IInv, SettledInv
<1>5. CASE /\ command = "init" /\ ~settled /\ nextKey > 1
           /\ \E c : /\ IsEnvelope(c, nextKey - 1, "init")
                     /\ c.provider = "local" => identity = nextKey - 1
                     /\ todo = <<Doc("bootstrap", Marshal(c)), Doc("sops", nextKey - 1)>>
  <2>1. PICK c : /\ IsEnvelope(c, nextKey - 1, "init")
                 /\ c.provider = "local" => identity = nextKey - 1
                 /\ todo = <<Doc("bootstrap", Marshal(c)), Doc("sops", nextKey - 1)>>
    BY <1>5
  <2>2. /\ Head(todo) = Doc("bootstrap", Marshal(c))
        /\ Tail(todo) = <<Doc("sops", nextKey - 1)>>
        /\ Tail(todo) # <<>> /\ Len(Tail(todo)) = 1
    BY <2>1, ShortTodo
  <2>3. Written("bootstrap", Marshal(c))
    BY <1>1, <2>2 DEF Doc
  <2>4. /\ UNCHANGED <<sops, identity>> /\ writer' = "init" /\ initKey' = nextKey - 1
        /\ BootstrapInv'
        /\ Readable(bootstrap') => Load(bootstrap').provider = c.provider
    BY <1>5, <2>1, <2>3, MarshalIsACut, WrittenBootstrap
  <2>5. /\ todo' = <<Doc("sops", nextKey - 1)>>
        /\ todo' # <<>> /\ Len(todo') = 1 /\ command' = "init" /\ settled' = settled
    BY <1>1, <1>5, <2>2
  <2>6. TypeOK'
    BY <1>1, <1>2, <1>5, <2>4, <2>5, NewestKey DEF TypeOK
  <2>7. IdentityInUse'
    BY <2>1, <2>4 DEF IdentityInUse
  <2>8. TodoInv'
    BY <1>1, <1>5, <2>4, <2>5, <2>7 DEF TodoInv
  <2>. QED  BY <1>5, <2>4, <2>5, <2>6, <2>8 DEF IInv, SettledInv
<1>6. CASE /\ command = "init" /\ ~settled /\ nextKey > 1
           /\ todo = <<Doc("sops", nextKey - 1)>>
           /\ initKey = nextKey - 1 /\ IdentityInUse
  <2>1. Head(todo) = Doc("sops", nextKey - 1) /\ Tail(todo) = <<>>
    BY <1>6, ShortTodo
  <2>2. Written("sops", nextKey - 1)
    BY <1>1, <2>1 DEF Doc
  <2>3. /\ UNCHANGED <<bootstrap, identity, writer, initKey>> /\ sops' = nextKey - 1
        /\ BootstrapInv'
    BY <2>2, WrittenKey DEF IInv
  <2>4. todo' = <<>> /\ command' = "none" /\ settled' = TRUE
    BY <1>1, <1>6, <2>1
  <2>5. TypeOK'
    BY <1>1, <1>2, <1>6, <2>3, <2>4, NewestKey, ShortTodo DEF TypeOK
  <2>6. SettledInv'
    BY <1>6, <2>3 DEF SettledInv, IdentityInUse
  <2>. QED  BY <2>3, <2>4, <2>5, <2>6 DEF IInv, TodoInv
<1>. QED  BY <1>1, <1>3, <1>4, <1>5, <1>6 DEF IInv, TodoInv

\* The document that a running command writes next.
LEMMA NextWrite ==
  ASSUME IInv, todo # <<>>
  PROVE  \/ \E c, k : /\ command \in {"init", "rotate"} /\ IsEnvelope(c, k, command)
                      /\ Head(todo) = Doc("bootstrap", Marshal(c))
                      /\ command = "init" => ~settled /\ nextKey > 1 /\ k = nextKey - 1
                      /\ command = "rotate" => k = initKey
         \/ ~settled /\ \E file \in {"sops", "identity"} : Head(todo) = Doc(file, nextKey - 1)
<1>1. CASE /\ command = "rotate"
           /\ \E c : IsEnvelope(c, initKey, "rotate") /\ todo = <<Doc("bootstrap", Marshal(c))>>
  <2>1. PICK c : IsEnvelope(c, initKey, "rotate") /\ todo = <<Doc("bootstrap", Marshal(c))>>
    BY <1>1
  <2>. QED  BY <1>1, <2>1, ShortTodo
<1>2. CASE /\ command = "init" /\ ~settled /\ nextKey > 1
           /\ \E c : /\ IsEnvelope(c, nextKey - 1, "init")
                     /\ todo = <<Doc("identity", nextKey - 1), Doc("bootstrap", Marshal(c)),
                                 Doc("sops", nextKey - 1)>>
  BY <1>2, ShortTodo
<1>3. CASE /\ command = "init" /\ ~settled /\ nextKey > 1
           /\ \E c : /\ IsEnvelope(c, nextKey - 1, "init")
                     /\ c.provider = "local" => identity = nextKey - 1
                     /\ todo = <<Doc("bootstrap", Marshal(c)), Doc("sops", nextKey - 1)>>
  <2>1. PICK c : /\ IsEnvelope(c, nextKey - 1, "init")
                 /\ todo = <<Doc("bootstrap", Marshal(c)), Doc("sops", nextKey - 1)>>
    BY <1>3
  <2>. QED  BY <1>3, <2>1, ShortTodo
<1>4. CASE command = "init" /\ ~settled /\ todo = <<Doc("sops", nextKey - 1)>>
  BY <1>4, ShortTodo
<1>. QED  BY <1>1, <1>2, <1>3, <1>4 DEF IInv, TodoInv

LEMMA InterruptedKeeps == IInv /\ Interrupted => IInv'
<1>. SUFFICES ASSUME IInv, Interrupted PROVE IInv'
  OBVIOUS
<1>1. /\ todo # <<>> /\ todo' = <<>> /\ command' = "none"
      /\ UNCHANGED <<nextKey, latest, settled>>
  BY DEF Interrupted
<1>2. /\ TypeOK /\ AgeKey' = AgeKey
      /\ Len(todo') <= 3
  BY <1>1, ShortTodo DEF IInv, AgeKey
<1>3. CASE UNCHANGED <<files, writer, initKey>>
  <2>1. UNCHANGED <<bootstrap, sops, identity, writer, initKey>>
    BY <1>3 DEF files
  <2>2. TypeOK'
    BY <1>1, <1>2, <2>1 DEF TypeOK
  <2>. QED  BY <1>1, <2>1, <2>2 DEF IInv, BootstrapInv, SettledInv, IdentityInUse, TodoInv
<1>4. ASSUME NEW c, NEW k, command \in {"init", "rotate"}, IsEnvelope(c, k, command),
             Head(todo) = Doc("bootstrap", Marshal(c)),
             command = "init" => ~settled /\ nextKey > 1 /\ k = nextKey - 1,
             command = "rotate" => k = initKey,
             NEW part \in Leftovers(Head(todo)), Written(Head(todo).file, part)
      PROVE  IInv'
  <2>1. part \in Cut(Marshal(c)) /\ Written("bootstrap", part)
    BY <1>4 DEF Doc, Leftovers
  <2>2. /\ UNCHANGED <<sops, identity>> /\ writer' = command /\ initKey' = k
        /\ BootstrapInv'
        /\ Readable(bootstrap') => Load(bootstrap').provider = c.provider
    BY <1>4, <2>1, WrittenBootstrap
  <2>3. command = "init" => k \in AgeKey
    BY <1>2, <1>4, NewestKey
  <2>4. TypeOK'
    <3>1. initKey' \in AgeKey \cup {None}
      BY <1>2, <1>4, <2>2, <2>3 DEF TypeOK
    <3>. QED  BY <1>1, <1>2, <2>2, <3>1 DEF TypeOK
  <2>5. SettledInv'
    <3>1. CASE settled
      <4>1. command = "rotate" /\ initKey' = initKey /\ sops = initKey
        BY <1>4, <2>2, <3>1 DEF IInv, SettledInv
      <4>2. c.provider # "local"
        BY <1>4, <4>1 DEF IsEnvelope, CloudProviders
      <4>. QED  BY <1>1, <2>2, <4>1, <4>2 DEF SettledInv, IdentityInUse
    <3>2. CASE ~settled
      BY <1>1, <3>2 DEF SettledInv
    <3>. QED  BY <3>1, <3>2
  <2>. QED  BY <1>1, <2>2, <2>4, <2>5 DEF IInv, TodoInv
<1>5. ASSUME ~settled, NEW file \in {"sops", "identity"}, Head(todo) = Doc(file, nextKey - 1),
             NEW part \in Leftovers(Head(todo)), Written(Head(todo).file, part)
      PROVE  IInv'
  <2>1. part = Torn /\ Written(file, Torn)
    BY <1>5 DEF Doc, Leftovers
  <2>2. /\ UNCHANGED <<bootstrap, writer, initKey>>
        /\ sops' \in {sops, Torn} /\ identity' \in {identity, Torn}
        /\ BootstrapInv'
    BY <2>1, WrittenKey DEF IInv
  <2>3. TypeOK'
    BY <1>1, <1>2, <2>2 DEF TypeOK
  <2>. QED  BY <1>1, <1>5, <2>2, <2>3 DEF IInv, SettledInv, TodoInv
<1>6. CASE \E part \in Leftovers(Head(todo)) : Written(Head(todo).file, part)
  <2>1. PICK part \in Leftovers(Head(todo)) : Written(Head(todo).file, part)
    BY <1>6
  <2>2. CASE ~settled /\ \E file \in {"sops", "identity"} : Head(todo) = Doc(file, nextKey - 1)
    BY <1>5, <2>1, <2>2
  <2>3. ASSUME ~(~settled /\ \E file \in {"sops", "identity"} :
                              Head(todo) = Doc(file, nextKey - 1))
        PROVE  IInv'
    <3>1. PICK c, k : /\ command \in {"init", "rotate"} /\ IsEnvelope(c, k, command)
                      /\ Head(todo) = Doc("bootstrap", Marshal(c))
                      /\ command = "init" => ~settled /\ nextKey > 1 /\ k = nextKey - 1
                      /\ command = "rotate" => k = initKey
      BY <1>1, <2>3, NextWrite
    <3>. QED  BY <1>4, <2>1, <3>1
  <2>. QED  BY <2>2, <2>3
<1>. QED  BY <1>3, <1>6 DEF Interrupted

LEMMA NextKeeps == IInv /\ [Next]_vars => IInv'
BY InitCloudKeeps, InitLocalKeeps, RotateKeeps, SaveKeeps, InterruptedKeeps, NewVersionKeeps,
   StutterKeeps DEF Next

\* The files are at any time what the commands wrote, or parts of it.
THEOREM Invariance == Spec => []IInv
<1>. QED  BY InitIInv, NextKeeps, PTL DEF Spec

-----------------------------------------------------------------------------
(***************************************************************************)
(* The keys, the counters and the running command have their types.        *)
(***************************************************************************)
THEOREM TypeCorrect == Spec => []TypeOK
<1>1. IInv => TypeOK
  BY DEF IInv
<1>. QED  BY <1>1, Invariance, PTL

(***************************************************************************)
(* Whatever was cut off, and however often the key was rotated, a file     *)
(* that the commands accept names the age key of init and holds no other.  *)
(***************************************************************************)
THEOREM AgeKeyIsFromInit == Spec => []AgeKeyFromInit
<1>1. IInv => AgeKeyFromInit
  BY ReadableHolds DEF AgeKeyFromInit
<1>. QED  BY <1>1, Invariance, PTL

(***************************************************************************)
(* As long as no init was interrupted, unseal has the key that seal        *)
(* encrypts for, or none.                                                  *)
(***************************************************************************)
THEOREM SealedForTheKeyIsInUse == Spec => []SealedForTheKeyInUse
<1>1. ASSUME IInv, settled, Readable(bootstrap)
      PROVE  runUnseal(Load(bootstrap)) \in {None, runSeal}
  <2>. DEFINE cfg == Load(bootstrap)
  <2>1. sops = initKey /\ IdentityInUse
    BY <1>1 DEF IInv, SettledInv
  <2>2. CASE cfg.provider = "local"
    BY <1>1, <2>1, <2>2 DEF IdentityInUse, runUnseal, runSeal
  <2>3. CASE cfg.provider # "local"
    <3>1. OpenWithSdk(cfg) \in {Ciphertext(cfg).plaintext, None}
      BY DecryptGives DEF OpenWithSdk
    <3>2. OpenWithSdk(cfg) # None => Ciphertext(cfg) # None
      BY DecryptGives DEF OpenWithSdk
    <3>3. Ciphertext(cfg) # None => Ciphertext(cfg).plaintext = initKey
      BY <1>1, ReadableHolds DEF Ciphertext
    <3>. QED  BY <2>1, <2>3, <3>1, <3>2, <3>3 DEF runUnseal, runSeal
  <2>. QED  BY <2>2, <2>3
<1>2. IInv => SealedForTheKeyInUse
  BY <1>1 DEF SealedForTheKeyInUse
<1>. QED  BY <1>2, Invariance, PTL

\* A loaded document that is complete is an envelope.
LEMMA WholeIsEnvelope ==
  ASSUME IInv, Whole(bootstrap)
  PROVE  IsEnvelope(Load(bootstrap), initKey, writer)
<1>1. PICK c : IsEnvelope(c, initKey, writer) /\ bootstrap \in Cut(Marshal(c))
  BY DEF IInv, BootstrapInv, Whole
<1>2. \A f \in Fields : Load(bootstrap)[f] = c[f]
  BY <1>1, WholeLoads DEF IsEnvelope
<1>3. DOMAIN Load(bootstrap) = Fields
  BY DEF Load
<1>. DEFINE cfg == Load(bootstrap)
<1>. HIDE DEF cfg
<1>4. /\ cfg.provider = c.provider /\ cfg.publicKey = c.publicKey /\ cfg.spec = c.spec
      /\ cfg.ciphertext = c.ciphertext /\ cfg.envelopePath = c.envelopePath
  BY <1>2, Places DEF cfg
<1>5. IsEnvelope(cfg, initKey, writer)
  BY <1>1, <1>3, <1>4 DEF IsEnvelope, cfg
<1>. QED  BY <1>5 DEF cfg

(***************************************************************************)
(* The three programs that open a complete file get the age key that it    *)
(* names, for any keys and environments, with the two exceptions.          *)
(***************************************************************************)
THEOREM RecordedKeyIsTheOne == Spec => []RecordedKeyOpens
<1>1. ASSUME IInv, Whole(bootstrap), Load(bootstrap).provider \in CloudProviders,
             ~NamedByEnvironment(Load(bootstrap)), ~OtherVersion(Load(bootstrap))
      PROVE  LET cfg == Load(bootstrap) IN
             /\ OpenWithSdk(cfg) = cfg.publicKey
             /\ \A env \in Environments : Suits(env, cfg) =>
                  /\ OpenInOperator(cfg, env) = cfg.publicKey
                  /\ cfg.provider # "gcp-kms" \/ env.genesis_gcp_kms_key = cfg.spec.key =>
                       OpenWithBridge(cfg, env) = cfg.publicKey
  <2>. DEFINE cfg == Load(bootstrap)
  <2>1. IsEnvelope(cfg, initKey, writer)
    BY <1>1, WholeIsEnvelope
  <2>2. cfg.publicKey = initKey
    BY <2>1 DEF IsEnvelope
  <2>3. cfg.ciphertext.key = cfg.spec.key
    <3>. HIDE DEF cfg
    <3>1. cfg.provider \in CloudProviders /\ ~NamedByEnvironment(cfg)
      BY <1>1 DEF cfg
    <3>2. cfg.provider # "local"
      BY <3>1 DEF CloudProviders
    <3>. QED  BY <2>1, <3>1, <3>2 DEF IsEnvelope, NamedByEnvironment
  <2>. HIDE DEF cfg
  <2>4. cfg.provider \in CloudProviders /\ ~OtherVersion(cfg)
    BY <1>1 DEF cfg
  <2>5. OpenWithSdk(cfg) = initKey
    BY <2>1, <2>3, <2>4, SdkOpens
  <2>6. ASSUME NEW env \in Environments, Suits(env, cfg)
        PROVE  /\ OpenInOperator(cfg, env) = initKey
               /\ cfg.provider # "gcp-kms" \/ env.genesis_gcp_kms_key = cfg.spec.key =>
                    OpenWithBridge(cfg, env) = initKey
    BY <2>1, <2>3, <2>4, <2>6, OperatorOpens, BridgeOpens
  <2>. QED  BY <2>2, <2>5, <2>6 DEF cfg
<1>2. IInv => RecordedKeyOpens
  BY <1>1 DEF RecordedKeyOpens
<1>. QED  BY <1>2, Invariance, PTL
=============================================================================
