---------------------------- MODULE DesktopIpc ----------------------------
(***************************************************************************)
(* The runtime guard between the window and the main process              *)
(* (src/src/desktop/shared/ipc-guard.ts).  A call is a channel and the     *)
(* keys of its options object; what matters of a value is whether its      *)
(* field lets it pass.  Who may call is left out.                          *)
(***************************************************************************)

Channels ==
    {"resolve", "build", "install", "launch", "diagnose", "doctor", "quests",
     "kubejs", "updates", "migrate", "export", "release"}

OrchestrateKeys ==
    {"loader", "minecraft", "include", "loaderVersion", "recommend",
     "recommendLimit", "playstyle", "theme", "requirements", "side", "shaders",
     "hdTextures", "preflight", "instancePath"}

ExportKeys ==
    OrchestrateKeys \cup {"format", "name", "packVersion", "out", "apply", "force"}

\* Mutant of AuthorKeys: the schema forgets force.
AuthorKeysUnforced ==
    {"subject", "instancePath", "attempts", "namespaces", "apply", "json"}

\* The text or definition, the first argument of these calls, counts as a key.
AuthorKeys ==
    {"subject", "instancePath", "attempts", "namespaces", "apply", "force", "json"}

\* The schema of a channel: the keys its options may have...
KnownKeys(ch) ==
    CASE ch = "resolve" -> OrchestrateKeys
      [] ch = "build" -> OrchestrateKeys \cup {"apply", "force"}
      [] ch = "install" -> {"instancePath", "from", "apply", "force"}
      [] ch = "launch" -> {"instancePath", "apply", "programArgs", "json"}
      [] ch = "diagnose" ->
            {"instancePath", "crashPath", "logPath", "mclogs", "json",
             "minecraft", "loader"}
      [] ch = "doctor" -> {"instancePath"}
      [] ch = "updates" ->
            {"loader", "minecraft", "include", "loaderVersion", "side", "json"}
      [] ch = "migrate" ->
            {"loader", "fromMinecraft", "toMinecraft", "include", "toLoader",
             "loaderVersion", "toLoaderVersion", "side", "json"}
      [] ch = "export" -> ExportKeys
      [] ch = "release" -> ExportKeys \cup {"from", "releaseDate"}
      [] ch = "quests" -> AuthorKeys
      [] OTHER -> AuthorKeys \cup {"questDefinition"}

\* ... and those they must have.
RequiredKeys(ch) ==
    CASE ch \in {"resolve", "updates"} -> {"loader", "minecraft", "include"}
      [] ch = "build" -> {"loader", "minecraft", "include", "instancePath"}
      [] ch \in {"export", "release"} -> {"loader", "minecraft", "include", "format"}
      [] ch = "migrate" -> {"loader", "fromMinecraft", "toMinecraft", "include"}
      [] ch = "doctor" -> {}
      [] ch \in {"quests", "kubejs"} -> {"subject", "instancePath"}
      [] OTHER -> {"instancePath"}

\* The keys whose value has a length: a string, which must not be empty either,
\* or a list; the others are chosen from a menu or ticked.
SizedKeys ==
    {"minecraft", "fromMinecraft", "toMinecraft", "include", "loaderVersion",
     "instancePath", "from", "name", "packVersion", "releaseDate", "out",
     "crashPath", "namespaces", "subject", "questDefinition"}

\* validateInvocation: an unknown key, a missing one, or a value its field does
\* not take, and the call is refused, which rejects the window's promise.  Not
\* taken are an empty string, what is longer than MAX_STRING, MAX_TEXT or
\* MAX_ARRAY, and a definition without the structure validateDefinition wants.
Accepts(ch, keys, untaken) ==
    /\ keys \subseteq KnownKeys(ch)
    /\ RequiredKeys(ch) \subseteq keys
    /\ keys \cap untaken = {}
=============================================================================
