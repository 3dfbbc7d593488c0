------------------------------ MODULE Settings ------------------------------
(***************************************************************************)
(* What the application is made of: the settings a process accepts         *)
(* (config.py), the modules it installs for them (bootstrap/registry.py),  *)
(* the providers it builds (bootstrap/container.py, board_container.py)    *)
(* and the application it starts for its environment                       *)
(* (bootstrap/profile.py).                                                 *)
(*                                                                         *)
(* A free text is the member of a small set that tells apart what the code *)
(* tells apart of it: "default", "short", "placeholder" and "strong" are   *)
(* the secrets the validation accepts or refuses.                          *)
(***************************************************************************)
EXTENDS Naturals

Modules == {"identity", "audit", "students", "practice", "scheduling", "boards",
            "classroom", "materials", "automation", "portal", "dashboard"}

DependsOn(module) ==
    CASE module = "audit" -> {}
      [] module = "identity" -> {"audit"}
      [] module = "students" -> {"identity"}
      [] module = "practice" -> {"identity", "students", "audit"}
      [] module = "scheduling" -> {"students"}
      [] module = "boards" -> {"scheduling"}
      [] module = "classroom" -> {"scheduling"}
      [] module = "materials" -> {"classroom"}
      [] module = "automation" -> {"materials"}
      [] module = "portal" -> {"automation"}
      [] module = "dashboard" -> {"identity", "materials"}

Closed(modules) == \A module \in modules : DependsOn(module) \subseteq modules

\* What ModuleRegistry.ordered visits: the modules named and all they lead to.
Reached(names) ==
    {module \in Modules :
        \A X \in SUBSET Modules : (names \subseteq X /\ Closed(X)) => module \in X}

Texts == {"default", "short", "placeholder", "strong"}

Configurations ==
    [profile : {"full", "board", "empty", "other"}, production : BOOLEAN,
     enabled : SUBSET (Modules \cup {"other"}),
     database : {"sqlite", "postgresql", "postgresql+psycopg"}, auto_migrate : BOOLEAN,
     secret : Texts, password : Texts, token : Texts, https : BOOLEAN,
     demo : BOOLEAN, bbb : BOOLEAN,
     transcription : {"auto", "disabled", "demo", "webhook", "faster-whisper", "other"},
     transcription_url : BOOLEAN, materials_url : BOOLEAN,
     documents : {"local", "latex-for-everyone", "other"}, latexed : BOOLEAN,
     storage : {"local", "s3", "other"}, bucket : {"none", "one", "two"},
     backup_bucket : {"none", "one", "two"}, clamav : BOOLEAN,
     media_uploads : BOOLEAN, eager : BOOLEAN, cookie_secure : BOOLEAN,
     same_site : {"lax", "strict", "none"}, hosts : {"empty", "any", "listed"},
     proxies : {"empty", "any", "listed"}, seed : BOOLEAN, local_admin : BOOLEAN,
     log_json : BOOLEAN, reload : BOOLEAN, metrics : BOOLEAN,
     redis : BOOLEAN, board_path : BOOLEAN, geometry : BOOLEAN,
     soft : Nat, hard : Nat, visibility : Nat, idle : Nat, rotation : Nat, max_age : Nat]

AnyOf(s, names) == s.enabled = {} \/ s.enabled \cap names # {}

ClassroomEnabled(s) ==
    s.profile # "board"
        /\ AnyOf(s, {"classroom", "materials", "automation", "portal", "dashboard"})
AutomationEnabled(s) == s.profile # "board" /\ AnyOf(s, {"automation", "portal"})
MaterialsEnabled(s) ==
    s.profile # "board" /\ AnyOf(s, {"materials", "automation", "portal", "dashboard"})
BoardsEnabled(s) == s.profile = "board" \/ AnyOf(s, {"boards"})

FitForProduction(s) ==
    /\ s.database = "postgresql+psycopg" /\ ~s.auto_migrate
    /\ s.secret = "strong" /\ s.password = "strong"
    /\ ~(s.demo /\ ClassroomEnabled(s))
    /\ s.https
    /\ AutomationEnabled(s) =>
          /\ s.transcription \notin {"disabled", "demo"}
          /\ s.transcription = "auto" => s.transcription_url
    /\ MaterialsEnabled(s) => s.documents # "local"
    /\ (AutomationEnabled(s) \/ s.profile = "board") => ~s.eager
    /\ (MaterialsEnabled(s) \/ BoardsEnabled(s)) => s.storage = "s3"
    /\ (MaterialsEnabled(s) \/ (BoardsEnabled(s) /\ s.media_uploads)) => s.clamav
    /\ s.cookie_secure /\ s.same_site \in {"lax", "strict"}
    /\ s.hosts = "listed" /\ s.proxies = "listed"
    /\ ~s.seed /\ ~s.local_admin /\ s.log_json /\ ~s.reload
    /\ s.metrics /\ s.token = "strong"

Valid(s) ==
    /\ s.profile \in {"full", "board"}
    /\ s.profile = "board" => s.enabled = {}
    /\ s.production => FitForProduction(s)
    /\ s.redis /\ s.board_path /\ s.geometry
    /\ s.soft < s.hard /\ s.hard < s.visibility
    /\ s.demo \/ s.bbb
    /\ s.transcription # "other"
    /\ s.transcription = "webhook" => s.transcription_url
    /\ s.documents # "other"
    /\ s.documents = "latex-for-everyone" => s.latexed
    /\ s.storage # "other"
    /\ s.storage = "s3" => s.bucket # "none" /\ s.bucket # s.backup_bucket
    /\ s.idle <= s.max_age /\ s.rotation <= s.max_age

-----------------------------------------------------------------------------
(* The process: its environment, the application it starts and what that   *)
(* application is built of.                                                *)

\* APP_PROFILE in the environment and in the file .env, and ENABLED_MODULES as it
\* is in the environment and as the settings read it.
Values == {"unset", "empty", "full", "board", "other"}

Environments ==
    [os : Values, file : Values, os_modules : SUBSET (Modules \cup {"other"})]

\* resolve_app_profile looks at the environment alone.
ResolvedProfile(e) == IF e.os \in {"unset", "empty"} THEN "full" ELSE e.os

\* The settings look at the file too; a value that is empty is a value.
SettingsProfile(e) ==
    CASE e.os # "unset" -> e.os
      [] e.os = "unset" /\ e.file # "unset" -> e.file
      [] e.os = "unset" /\ e.file = "unset" -> "full"

Loaded(e, s) ==
    IF ResolvedProfile(e) = "board"
    THEN [s EXCEPT !.profile = SettingsProfile(e), !.enabled = {"boards"}]
    ELSE [s EXCEPT !.profile = SettingsProfile(e)]

\* load_runtime_configuration, then create_runtime_app: "full" is the registry,
\* "alone" the allowlist of board_profile.py, "board" the app of board_app_factory.py.
Started(e, s) ==
    LET loaded == Loaded(e, s) IN
    CASE \/ ResolvedProfile(e) = "other"
         \/ ResolvedProfile(e) = "board" /\ e.os_modules # {}
         \/ ~Valid(loaded) -> "refused"
      [] ResolvedProfile(e) = "board" /\ e.os_modules = {} /\ Valid(loaded) -> "board"
      [] ResolvedProfile(e) = "full" /\ Valid(loaded) /\ loaded.profile = "board" -> "alone"
      [] ResolvedProfile(e) = "full" /\ Valid(loaded) /\ loaded.profile # "board" ->
            IF loaded.enabled \subseteq Modules THEN "full" ELSE "refused"

Installed(app, s) ==
    CASE app = "full" -> IF s.enabled = {} THEN Modules ELSE Reached(s.enabled)
      [] app \in {"alone", "board"} -> {"identity", "audit", "boards", "health"}

Conference(s) == IF s.demo THEN "demo" ELSE "bigbluebutton"

MaterialGenerator(s) == IF s.materials_url THEN "webhook" ELSE "template"

Transcription(s) ==
    CASE s.transcription # "auto" ->
            IF s.transcription = "other" THEN "disabled" ELSE s.transcription
      [] s.transcription = "auto" /\ s.demo -> "demo"
      [] s.transcription = "auto" /\ ~s.demo ->
            IF s.transcription_url THEN "webhook" ELSE "disabled"

DocumentEngine(s) == IF s.documents = "latex-for-everyone" THEN "latexed" ELSE "local"

ArtifactStorage(s) == IF s.storage = "s3" THEN "s3" ELSE "local"

\* The storage of the board app never scans, that of the other two when told to.
Scanned(app, s) == app # "board" /\ s.clamav

JobDispatcher(s) == IF s.eager THEN "inline" ELSE "celery"

\* Whether what a process publishes reaches the sockets of the others.
Distributed(app, s) == app = "board" \/ ~s.eager

\* create_app seeds a workspace of its own, create_board_app does not.
Seeded(app, s) == app = "full" /\ s.seed
=============================================================================
