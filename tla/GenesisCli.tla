----------------------------- MODULE GenesisCli -----------------------------
(***************************************************************************)
(* The genesis command line (cmd/genesis) on one configuration directory:  *)
(* genesis-bootstrap.yaml, .sops.yaml and genesis-identity.key.  Commands  *)
(* run one at a time, each in an environment of its own; each of their     *)
(* writes may fail, or be cut off by the end of the process, before the    *)
(* file is truncated or after any part of it.                              *)
(*                                                                         *)
(* An age keypair is named by a number, and so are its two keys.           *)
(***************************************************************************)
EXTENDS KmsProviders, Sequences

CONSTANTS
  Torn,         \* a value that a write left in the middle
  KmsKeys,      \* the keys of the clouds
  Environments, \* the environments a command, or the operator, may run in
  MaxKey,       \* bound on the age keypairs
  MaxVersion    \* bound on the versions of the Azure keys

CloudProviders == {"aws-kms", "gcp-kms", "azure-keyvault"}

\* A key is a key of some cloud, and the name of an AWS key has its region.
ASSUME KmsKeysAssumption ==
  \A key \in KmsKeys :
    /\ key # None /\ key.provider \in CloudProviders
    /\ key.provider = "aws-kms" => key.region # None

\* What a shell names is a key, and a version of one.
ASSUME EnvironmentsAssumption ==
  \A env \in Environments :
    /\ env.genesis_gcp_kms_key \in KmsKeys \cup {None}
    /\ env.azure_key_version \in Nat \cup {None}

\* Neither nothing nor a part of a value is a ciphertext.
ASSUME CiphertextAssumption ==
  {None, Torn} \cap [key : KmsKeys, version : Nat \cup {None}, plaintext : Nat] = {}

ASSUME BoundsAssumption == MaxKey \in Nat /\ MaxVersion \in Nat \ {0}

VARIABLES
  bootstrap,  \* genesis-bootstrap.yaml: a document, or None
  sops,       \* .sops.yaml: its age key, Torn, or None
  identity,   \* genesis-identity.key: likewise
  todo,       \* what the running command has yet to write
  command,    \* the command: "none", "init" or "rotate"
  nextKey,    \* the next age keypair
  latest,     \* the newest version of the Azure keys
  initKey,    \* history: the keypair of the last init that touched bootstrap
  writer,     \* history: the command that touched bootstrap last
  settled     \* history: no init was interrupted since the last one that ended

vars == <<bootstrap, sops, identity, todo, command, nextKey, latest, initKey, writer, settled>>
files == <<bootstrap, sops, identity>>

-----------------------------------------------------------------------------
(***************************************************************************)
(* internal/config: the bootstrap file.  yaml.Marshal writes the fields in *)
(* the order of the struct and leaves out those that are empty.  A cut off *)
(* file ends in the middle of a field.                                     *)
(***************************************************************************)
\* The places of the fields.  Bug: the ciphertext comes first.
BugEnvelopeFields ==
  [provider |-> 1, ciphertext |-> 2, spec |-> 3, publicKey |-> 4, mlkemPublicKey |-> 5,
   envelopePath |-> 6, output |-> 7]
EnvelopeFields ==
  [provider |-> 1, publicKey |-> 2, spec |-> 3, ciphertext |-> 4, mlkemPublicKey |-> 5,
   envelopePath |-> 6, output |-> 7]
Fields == DOMAIN EnvelopeFields

\* A document is a function of the fields it has.
Marshal(cfg) == [f \in {g \in Fields : cfg[g] # None} |-> cfg[f]]

\* What a write may leave of a document: all, or the part before a place at or
\* in a field.
Part(doc, at, torn) ==
  [f \in {g \in DOMAIN doc : \/ EnvelopeFields[g] < EnvelopeFields[at]
                             \/ torn /\ g = at} |-> IF f = at THEN Torn ELSE doc[f]]
Cut(doc) == {doc} \cup {Part(doc, at, torn) : at \in DOMAIN doc, torn \in BOOLEAN}

Whole(doc) == doc # None /\ "output" \in DOMAIN doc /\ doc["output"] # Torn

\* Load: a document that ends early is a document without the rest.
Load(doc) == [f \in Fields |-> IF f \in DOMAIN doc THEN doc[f] ELSE None]

\* BootstrapConfig.Validate.
Validate(cfg) ==
  \/ cfg.provider = "local" /\ cfg.envelopePath # None
  \/ cfg.provider \in CloudProviders /\ cfg.ciphertext # None /\ cfg.spec # None

Readable(doc) == doc # None /\ Validate(Load(doc))

\* Base64 of a part of a ciphertext is not a ciphertext, and a part of the
\* name of a key is not a key.
Ciphertext(cfg) == IF cfg.ciphertext = Torn THEN None ELSE cfg.ciphertext

-----------------------------------------------------------------------------
(***************************************************************************)
(* How the programs get the age key of a bootstrap file.                   *)
(***************************************************************************)
\* envelope.Open with createRotateProvider or createUnsealProvider.
OpenWithSdk(cfg) ==
  Decrypt(NewProvider(cfg.provider, cfg.spec), Ciphertext(cfg), latest)

\* `genesis verify`: genesis-core with the settings of the CLI.
OpenWithBridge(cfg, env) ==
  decrypt(create_provider(mapProviderName(cfg.provider),
                          kmsSettingsFromBootstrapConfig(cfg.provider, cfg.spec), env),
          Ciphertext(cfg), latest)

\* The operator, on a GenesisBootstrap with the contents of the file.
OpenInOperator(cfg, env) ==
  decrypt(create_provider(mapProviderName(cfg.provider),
                          BuildKmsConfigJSON(cfg.provider, cfg.spec, env), env),
          Ciphertext(cfg), latest)

-----------------------------------------------------------------------------
Init ==
  /\ bootstrap = None /\ sops = None /\ identity = None
  /\ todo = <<>> /\ command = "none"
  /\ nextKey = 1 /\ latest = 1 /\ initKey = None
  /\ writer = "none" /\ settled = FALSE

Idle == command = "none"

NoConfig == [f \in Fields |-> None]
DefaultOutput == [secretName |-> "sops-age"]

\* init records neither a region nor, unless it is given, a version.
SpecOf(key, version) == [key |-> key, region |-> None, version |-> version]

(***************************************************************************)
(* genesis init with a cloud provider: the bridge makes the keypair and    *)
(* encrypts it; then the two files are written.                            *)
(***************************************************************************)
runInitCloudKMS(env) ==
  /\ Idle /\ nextKey <= MaxKey
  /\ \E key \in KmsKeys :
     \E version \in IF key.provider = "azure-keyvault" THEN {None, latest} ELSE {None} :
       LET spec == SpecOf(key, version)
           p == create_provider(mapProviderName(key.provider),
                                kmsSettingsFromBootstrapConfig(key.provider, spec), env)
           cfg == [NoConfig EXCEPT !.provider = key.provider, !.publicKey = nextKey,
                                   !.spec = spec, !.ciphertext = encrypt(p, nextKey, latest),
                                   !.output = DefaultOutput]
       IN /\ encrypt(p, nextKey, latest) # None
          /\ todo' = <<[file |-> "bootstrap", contents |-> Marshal(cfg)],
                       [file |-> "sops", contents |-> nextKey]>>
  /\ command' = "init" /\ nextKey' = nextKey + 1 /\ settled' = FALSE
  /\ UNCHANGED <<files, latest, initKey, writer>>

\* Bug: the keypair of an earlier init again.
BugrunInitLocal ==
  /\ Idle /\ nextKey <= MaxKey
  /\ todo' = <<[file |-> "identity", contents |-> nextKey]>>
  /\ command' = "init" /\ settled' = FALSE
  /\ UNCHANGED <<files, nextKey, latest, initKey, writer>>

\* genesis init --provider local: the envelope of the master key is LocalKms's.
runInitLocal ==
  /\ Idle /\ nextKey <= MaxKey
  /\ LET cfg == [NoConfig EXCEPT !.provider = "local", !.publicKey = nextKey,
                                 !.mlkemPublicKey = nextKey, !.envelopePath = "path",
                                 !.output = DefaultOutput]
     IN todo' = <<[file |-> "identity", contents |-> nextKey],
                  [file |-> "bootstrap", contents |-> Marshal(cfg)],
                  [file |-> "sops", contents |-> nextKey]>>
  /\ command' = "init" /\ nextKey' = nextKey + 1 /\ settled' = FALSE
  /\ UNCHANGED <<files, latest, initKey, writer>>

(***************************************************************************)
(* genesis rotate: the same age key under another key, whatever the file   *)
(* still tells of the output.  createRotateProvider knows no local         *)
(* provider; createNewRotateProvider passes azurekv no key name, which it  *)
(* refuses.                                                                *)
(***************************************************************************)
runRotate ==
  /\ Idle /\ Readable(bootstrap)
  /\ LET cfg == Load(bootstrap)
         privateKey == OpenWithSdk(cfg)
         output == IF cfg.output \in {None, Torn} THEN [secretName |-> None] ELSE cfg.output
     IN /\ privateKey # None
        /\ \E key \in {k \in KmsKeys : k.provider # "azure-keyvault"} :
             LET spec == SpecOf(key, None)
                 newEnv == Encrypt(NewProvider(key.provider, spec), privateKey, latest)
             IN /\ newEnv # None
                /\ todo' = <<[file |-> "bootstrap",
                              contents |-> Marshal([cfg EXCEPT !.provider = key.provider,
                                !.ciphertext = newEnv, !.spec = spec, !.output = output])]>>
  /\ command' = "rotate"
  /\ UNCHANGED <<files, nextKey, latest, initKey, writer, settled>>

\* os.WriteFile of the next document, to its end.
Written(file, contents) ==
  /\ bootstrap' = IF file = "bootstrap" THEN contents ELSE bootstrap
  /\ sops' = IF file = "sops" THEN contents ELSE sops
  /\ identity' = IF file = "identity" THEN contents ELSE identity
  /\ writer' = IF file = "bootstrap" THEN command ELSE writer
  /\ initKey' = IF file = "bootstrap" /\ command = "init" THEN nextKey - 1 ELSE initKey

Save ==
  /\ todo # <<>>
  /\ Written(Head(todo).file, Head(todo).contents)
  /\ todo' = Tail(todo)
  /\ command' = IF Tail(todo) = <<>> THEN "none" ELSE command
  /\ settled' = IF Tail(todo) = <<>> /\ command = "init" THEN TRUE ELSE settled
  /\ UNCHANGED <<nextKey, latest>>

\* What is left of it when the disk is full or the process ends.
Leftovers(w) == IF w.file = "bootstrap" THEN Cut(w.contents) ELSE {Torn}

\* Bug: the command goes on.
BugInterrupted ==
  /\ todo # <<>>
  /\ UNCHANGED <<files, writer, initKey>>
  /\ todo' = Tail(todo)
  /\ command' = IF Tail(todo) = <<>> THEN "none" ELSE command
  /\ settled' = IF Tail(todo) = <<>> /\ command = "init" THEN TRUE ELSE settled
  /\ UNCHANGED <<nextKey, latest>>

\* The write fails or the process ends: the rest of the command is not done.
Interrupted ==
  /\ todo # <<>>
  /\ \/ UNCHANGED <<files, writer, initKey>>
     \/ \E part \in Leftovers(Head(todo)) : Written(Head(todo).file, part)
  /\ todo' = <<>> /\ command' = "none"
  /\ UNCHANGED <<nextKey, latest, settled>>

\* The vault makes a new version of its keys.
NewAzureVersion ==
  /\ latest < MaxVersion
  /\ latest' = latest + 1
  /\ UNCHANGED <<files, todo, command, nextKey, initKey, writer, settled>>

Next ==
  \/ \E env \in Environments : runInitCloudKMS(env)
  \/ runInitLocal
  \/ runRotate
  \/ Save
  \/ Interrupted
  \/ NewAzureVersion

Spec == Init /\ [][Next]_vars

-----------------------------------------------------------------------------
(***************************************************************************)
(* What the files promise.                                                 *)
(***************************************************************************)
AgeKey == 1..nextKey - 1
TypeOK ==
  /\ sops \in AgeKey \cup {None, Torn} /\ identity \in AgeKey \cup {None, Torn}
  /\ initKey \in AgeKey \cup {None} /\ nextKey \in 1..MaxKey + 1
  /\ latest \in 1..MaxVersion
  /\ command \in {"none", "init", "rotate"} /\ (command = "none" <=> todo = <<>>)
  /\ Len(todo) <= 3 /\ settled \in BOOLEAN

(***************************************************************************)
(* A bootstrap file that the commands accept, however it was cut off and   *)
(* whatever was made of it since, names the age key that init made, and    *)
(* its ciphertext, if there is one, has that key: rotate and unseal, which *)
(* do not compare the two, may rely on it (config.go: EnvelopeSpec,        *)
(* Validate; rotate.go: "The age keypair itself is NOT regenerated").      *)
(***************************************************************************)
AgeKeyFromInit ==
  Readable(bootstrap) =>
    LET cfg == Load(bootstrap) IN
    /\ cfg.publicKey = initKey
    /\ Ciphertext(cfg) # None => cfg.ciphertext.plaintext = initKey

\* The environment has what the reader of a file cannot get from the file.
Suits(env, cfg) ==
  CASE cfg.provider = "aws-kms" ->
         env.aws_credentials # None /\ env.aws_default_region = cfg.spec.key.region
    [] cfg.provider = "gcp-kms" -> env.genesis_gcp_access_token # None
    [] cfg.provider = "azure-keyvault" ->
         /\ env.azure_access_token # None
         /\ cfg.spec.version = None => env.azure_key_version \in {None, cfg.ciphertext.version}

(***************************************************************************)
(* The two cases in which a file names a key its ciphertext is not under:  *)
(* init takes the GCP key from GENESIS_GCP_KMS_KEY and records --key-name, *)
(* and it records no version of an Azure key unless one is given.          *)
(***************************************************************************)
NamedByEnvironment(cfg) ==
  cfg.provider = "gcp-kms" /\ writer = "init" /\ cfg.ciphertext.key # cfg.spec.key
OtherVersion(cfg) ==
  cfg.provider = "azure-keyvault" /\ cfg.spec.version = None /\ cfg.ciphertext.version # latest

(***************************************************************************)
(* With these exceptions, a complete file opens wherever it is used: by    *)
(* rotate and unseal, which use the clouds' SDKs, by the operator and, if  *)
(* the environment names the GCP key, by verify.                           *)
(***************************************************************************)
RecordedKeyOpens ==
  Whole(bootstrap) /\ Load(bootstrap).provider \in CloudProviders =>
    LET cfg == Load(bootstrap) IN
    \/ NamedByEnvironment(cfg)
    \/ OtherVersion(cfg)
    \/ /\ OpenWithSdk(cfg) = cfg.publicKey
       /\ \A env \in Environments : Suits(env, cfg) =>
            /\ OpenInOperator(cfg, env) = cfg.publicKey
            /\ cfg.provider # "gcp-kms" \/ env.genesis_gcp_kms_key = cfg.spec.key =>
                 OpenWithBridge(cfg, env) = cfg.publicKey

\* runSeal encrypts for the age key of .sops.yaml; runUnseal decrypts with the
\* identity file, or with what the envelope holds.
runSeal == sops
runUnseal(cfg) == IF cfg.provider = "local" THEN identity ELSE OpenWithSdk(cfg)

(***************************************************************************)
(* As long as no init was interrupted, what `genesis seal` encrypts is for *)
(* the key that `genesis unseal` gets, if it gets one: an init that leaves *)
(* an old .sops.yaml beside a new bootstrap file reports an error          *)
(* (init.go: runInitCloudKMS, runInitLocal).                               *)
(***************************************************************************)
SealedForTheKeyInUse ==
  settled /\ Readable(bootstrap) =>
    runUnseal(Load(bootstrap)) \in {None, runSeal}
=============================================================================
