--------------------------- MODULE HandlerConfig ----------------------------
(***************************************************************************)
(* The handler's configuration, from the daemon's arguments to the object  *)
(* store a handler uploads to: to_handler_config and env_path              *)
(* (src/src/main.rs), HandlerConfig (src/src/config.rs) and the store      *)
(* construction of src/src/upload.rs, as operators.                        *)
(*                                                                         *)
(* A path is abstracted to its directory and to whether it is absolute, a  *)
(* store URL to its scheme ("garbage" does not parse), an environment to   *)
(* the set of variables it has.  An Option is a set of at most one value.  *)
(***************************************************************************)
EXTENDS Naturals, FiniteSets

CONSTANTS Dirs,        \* directories hostRunDir may name
          DefaultDir   \* the one of DEFAULT_CONFIG_PATH

ASSUME DirAssumption == DefaultDir \in Dirs

\* What the builders read from the environment, and something they do not.
ALLOWED_STORE_OPTS == {"AWS_REGION", "AZURE_STORAGE_ACCOUNT_NAME"}
Environments == SUBSET (ALLOWED_STORE_OPTS \cup {"RUST_LOG"})

\* "memory" stands for both local backends, "http" for the rest that parse.
Urls == {"empty", "s3", "gs", "az", "memory", "http", "garbage"}

\* DaemonArgs, as the chart's values render them; settings stands for those a
\* handler takes as they are (cluster, caps, deadlines, no_redact).
DaemonArgs == [store_url : SUBSET Urls, env : Environments, dir : Dirs,
               absolute : BOOLEAN, settings : {"default", "custom"}]

\* HandlerConfig: rate_state_path and event_socket_path lie in dir.
Configs == [store_url : SUBSET Urls, store_options : SUBSET ALLOWED_STORE_OPTS,
            dir : Dirs, absolute : BOOLEAN, settings : {"default", "custom"}]

\* A handler that finds no config: no store, and the default paths.
Default == [store_url |-> {}, store_options |-> {}, dir |-> DefaultDir,
            absolute |-> TRUE, settings |-> "default"]

\* Plausible bug: the variables the Azure builder needs are not forwarded.
store_options_without_azure(env) == env \cap {"AWS_REGION"}

store_options_from_env(env) == env \cap ALLOWED_STORE_OPTS

\* An empty --object-store-url is no URL.
to_handler_config(args) ==
  [store_url     |-> args.store_url \ {"empty"},
   store_options |-> store_options_from_env(args.env),
   dir           |-> args.dir,
   absolute      |-> args.absolute,
   settings      |-> args.settings]

\* HandlerConfig::validate.
validate(config) == config.absolute /\ config.store_url \subseteq {"s3", "gs", "az"}

\* HandlerConfig::read: a file that is absent or not valid is no config.
read(file) == {config \in file : validate(config)}

unwrap_or_default(option) == IF option = {} THEN Default ELSE CHOOSE c \in option : TRUE

\* What builder.build() insists on; the other stores can always be built.
Needs(url) == IF url = "az" THEN {"AZURE_STORAGE_ACCOUNT_NAME"} ELSE {}

\* object_store_from_url_opts, HandlerConfig::object_store: the stores it builds.
object_store(config) ==
  {url \in config.store_url :
     /\ url \in {"s3", "gs", "az", "memory"}
     /\ Needs(url) \subseteq config.store_options}

\* env_path: the kernel starts a handler with an empty environment, the kubelet
\* a probe with the daemon's.
env_path(set, default) == IF set = {} THEN default ELSE CHOOSE d \in set : TRUE
=============================================================================
