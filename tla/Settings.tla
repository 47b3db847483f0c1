------------------------------ MODULE Settings ------------------------------
(***************************************************************************)
(* The settings of the GUI (gui/config.go, gui/app.go): a configuration     *)
(* that browser windows change through a form, that is written to a file    *)
(* which survives a crash, and whose variables are exported to the          *)
(* process, where the commands of the agent and the providers' keys are     *)
(* looked up.                                                               *)
(*                                                                          *)
(* The browser never sees a secret: a stored value is shown as a mask, and  *)
(* an update that sends the mask back means the stored value.               *)
(***************************************************************************)
EXTENDS Naturals, Sequences, FiniteSets

CONSTANTS
    Names,     \* names of environment variables
    Values,    \* what a user may type
    Windows,   \* browser windows
    Providers, \* the table of providers, in order
    KeyEnv,    \* provider -> the variable its key is looked up in, or NoVariable
    Started,   \* the environment the process is started with: name -> value
    NoVariable, Unset, Empty, Mask, Nobody,
    MaxUpdates, MaxCrashes

ProviderNames == DOMAIN KeyEnv

Stored == Values \cup {Empty}

(* The functions from a part of D to R. *)
Maps(D, R) == UNION {[S -> R] : S \in SUBSET D}

Configs ==
    [provider : ProviderNames, keys : Maps(ProviderNames, Values), enabled : SUBSET ProviderNames,
     env : Maps(Names, Stored)]

(* Updates that hold app.mu. *)
Pending == [next : Configs, window : Windows, env : BOOLEAN, at : {"create", "rename", "export"}]

VARIABLES
    cfg,      \* app.cfg
    file,     \* config.json
    temp,     \* the temporary file next to it: Nobody, "partial" or "whole"
    process,  \* the environment of the process
    envSet,   \* app.envSet
    up,       \* the app runs
    writing,  \* the one of Pending, or Nobody
    run,      \* the run that is being prepared, or Nobody
    used,     \* history: providers and keys clients were made with
    form,     \* window -> the variables it was shown
    acked,    \* history: the configuration last acknowledged, or loaded
    exported, \* history: names exported since the start
    bounds    \* updates and crashes so far

vars == <<cfg, file, temp, process, envSet, up, writing, run, used, form, acked, exported, bounds>>

diskVars == <<file, temp>>

runVars == <<run, used>>

history == <<acked, exported>>

defaultConfig ==
    [provider |-> Head(Providers), keys |-> <<>>, enabled |-> {}, env |-> <<>>]

(* The configuration as the browser sees it: the names, every value masked. *)
View(c) == DOMAIN c.env

-----------------------------------------------------------------------------
(* The environment of the process. *)

(* applyEnvLocked unsets what the app exported and is no longer configured, *)
(* and exports the rest.                                                    *)
Applied(env, old) ==
    [n \in Names |-> IF n \in DOMAIN env THEN env[n] ELSE IF n \in envSet THEN Unset ELSE old[n]]

(* prepareEnvironment and applyEnv at the start. *)
Fresh(c) == [n \in Names |-> IF n \in DOMAIN c.env THEN c.env[n] ELSE Started[n]]

-----------------------------------------------------------------------------
(* Updates. *)

(* A mask that comes back means the value that is stored, if any.           *)
Unmasked(name, value) ==
    IF value # Mask THEN value
    ELSE IF name \in DOMAIN cfg.env THEN cfg.env[name] ELSE Empty

NextEnv(update) == [n \in DOMAIN update |-> Unmasked(n, update[n])]

(* An empty key or the mask keeps the stored key, "-" deletes it.           *)
NextKeys(p, key) ==
    CASE key \in {Empty, Mask} -> cfg.keys
      [] key = Unset           -> [q \in DOMAIN cfg.keys \ {p} |-> cfg.keys[q]]
      [] OTHER                 -> [q \in DOMAIN cfg.keys \cup {p} |-> IF q = p THEN key ELSE cfg.keys[q]]

(* Config.apply; an update with an unknown provider, level, permission,     *)
(* workspace or an impossible name is refused and changes nothing.          *)
Apply(u) ==
    CASE u.field = "env"      -> [cfg EXCEPT !.env = NextEnv(u.env)]
      [] u.field = "key"      -> [cfg EXCEPT !.keys = NextKeys(u.name, u.key)]
      [] u.field = "enabled"  -> [cfg EXCEPT !.enabled = IF u.on THEN @ \cup {u.name} ELSE @ \ {u.name}]
      [] u.field = "provider" -> [cfg EXCEPT !.provider = u.name]

(* What a window sends: of the variables it was shown, each is left as the  *)
(* mask, retyped or removed, and new ones are typed.                        *)
EnvUpdates(w) ==
    {e \in Maps(Names, Values \cup {Mask}) : \A n \in DOMAIN e : e[n] = Mask => n \in form[w]}

Updates(w) ==
    [field : {"env"}, env : EnvUpdates(w)]
        \cup [field : {"key"}, name : ProviderNames, key : Values \cup {Empty, Mask, Unset}]
        \cup [field : {"enabled"}, name : ProviderNames, on : BOOLEAN]
        \cup [field : {"provider"}, name : ProviderNames]

BeginUpdate(w) ==
    /\ up /\ writing = Nobody
    /\ bounds.updates < MaxUpdates
    /\ bounds' = [bounds EXCEPT !.updates = @ + 1]
    /\ \E u \in Updates(w) :
        /\ writing' = [next |-> Apply(u), window |-> w, env |-> u.field = "env", at |-> "create"]
    /\ UNCHANGED <<runVars, cfg, diskVars, process, envSet, up, form, acked, exported>>

(* While the new contents are written the file is what it was.              *)
DuringWrite(c) == file

(* writeFileAtomic: write a temporary file ... *)
WriteTemp ==
    /\ up /\ writing # Nobody /\ writing.at = "create"
    /\ temp' = "partial"
    /\ file' = DuringWrite(writing.next)
    /\ writing' = [writing EXCEPT !.at = "rename"]
    /\ UNCHANGED <<runVars, cfg, process, envSet, up, form, history, bounds>>

(* ... and rename it. *)
RenameTemp ==
    /\ up /\ writing # Nobody /\ writing.at = "rename"
    /\ file' = writing.next /\ temp' = Nobody
    /\ writing' = [writing EXCEPT !.at = "export"]
    /\ UNCHANGED <<runVars, cfg, process, envSet, up, form, history, bounds>>

(* A step of the save fails: the temporary file is removed and the update   *)
(* is refused.                                                              *)
SaveFails ==
    /\ up /\ writing # Nobody /\ writing.at \in {"create", "rename"}
    /\ temp' = Nobody
    /\ writing' = Nobody
    /\ UNCHANGED <<runVars, cfg, file, process, envSet, up, form, history, bounds>>

(* updateConfig exports the variables and answers with the new view.        *)
FinishUpdate ==
    /\ up /\ writing # Nobody /\ writing.at = "export"
    /\ IF writing.env
       THEN /\ process' = Applied(writing.next.env, process)
            /\ envSet' = DOMAIN writing.next.env
            /\ exported' = exported \cup DOMAIN writing.next.env
       ELSE UNCHANGED <<process, envSet, exported>>
    /\ cfg' = writing.next
    /\ form' = [form EXCEPT ![writing.window] = View(writing.next)]
    /\ acked' = writing.next
    /\ writing' = Nobody
    /\ UNCHANGED <<runVars, diskVars, up, bounds>>

(* handleState: a window is loaded. *)
Load(w) ==
    /\ up /\ writing = Nobody
    /\ form' = [form EXCEPT ![w] = View(cfg)]
    /\ UNCHANGED <<runVars, cfg, diskVars, process, envSet, up, writing, history, bounds>>

Crash ==
    /\ up
    /\ bounds.crashes < MaxCrashes
    /\ bounds' = [bounds EXCEPT !.crashes = @ + 1]
    /\ up' = FALSE /\ writing' = Nobody /\ run' = Nobody
    /\ UNCHANGED <<used, cfg, diskVars, process, envSet, form, history>>

(* newApp: loadConfig, then the environment. *)
Start ==
    /\ ~up
    /\ up' = TRUE
    /\ cfg' = file
    /\ process' = Fresh(file)
    /\ envSet' = DOMAIN file.env
    /\ exported' = DOMAIN file.env
    /\ acked' = file
    /\ UNCHANGED <<runVars, diskVars, writing, form, bounds>>

-----------------------------------------------------------------------------
(* The provider of a run: prepareRun reads the configuration once, and the  *)
(* environment, which an update may change meanwhile, twice.                *)

(* provider.apiKey: the stored key, or the one in the environment. *)
ApiKey(p, c) ==
    IF p \in DOMAIN c.keys THEN c.keys[p]
    ELSE IF KeyEnv[p] # NoVariable /\ process[KeyEnv[p]] # Unset THEN process[KeyEnv[p]]
    ELSE Empty

Available(p, c) == IF KeyEnv[p] # NoVariable THEN ApiKey(p, c) # Empty ELSE p \in c.enabled

(* selectedProvider: the configured one if it is available, or the first    *)
(* that is.                                                                 *)
Selectable(c) ==
    IF Available(c.provider, c) THEN {c.provider}
    ELSE {Providers[i] : i \in {i \in DOMAIN Providers :
              Available(Providers[i], c) /\ \A j \in 1 .. (i - 1) : ~Available(Providers[j], c)}}

BeginRun ==
    /\ up /\ run = Nobody
    /\ run' = [cfg |-> cfg]
    /\ UNCHANGED <<cfg, diskVars, process, envSet, up, writing, form, used, history, bounds>>

SelectProvider ==
    /\ up /\ run # Nobody /\ DOMAIN run = {"cfg"}
    /\ run' \in {[cfg |-> run.cfg, provider |-> p] : p \in Selectable(run.cfg)}
                  \cup (IF Selectable(run.cfg) = {} THEN {Nobody} ELSE {})
    /\ UNCHANGED <<cfg, diskVars, process, envSet, up, writing, form, used, history, bounds>>

(* connect looks the key up again, and refuses without one. *)
Refused(p, key) == KeyEnv[p] # NoVariable /\ key = Empty

Connect ==
    /\ up /\ run # Nobody /\ "provider" \in DOMAIN run
    /\ LET key == ApiKey(run.provider, run.cfg)
       IN  used' = IF Refused(run.provider, key) THEN used ELSE used \cup {<<run.provider, key>>}
    /\ run' = Nobody
    /\ UNCHANGED <<cfg, diskVars, process, envSet, up, writing, form, history, bounds>>

-----------------------------------------------------------------------------
Init ==
    /\ cfg = defaultConfig /\ file = cfg /\ temp = Nobody
    /\ process = Started /\ envSet = {}
    /\ up = TRUE /\ writing = Nobody
    /\ run = Nobody /\ used = {}
    /\ form = [w \in Windows |-> {}]
    /\ acked = cfg /\ exported = {}
    /\ bounds = [updates |-> 0, crashes |-> 0]

Next ==
    \/ \E w \in Windows : BeginUpdate(w) \/ Load(w)
    \/ WriteTemp \/ RenameTemp \/ SaveFails \/ FinishUpdate \/ Crash \/ Start
    \/ BeginRun \/ SelectProvider \/ Connect

Spec == Init /\ [][Next]_vars

-----------------------------------------------------------------------------
(* Properties. *)

(* The mask is never stored as a key or a value, nor exported. *)
TypeOK ==
    /\ cfg \in Configs /\ acked \in Configs
    /\ process \in [Names -> Stored \cup {Unset}]
    /\ envSet \subseteq Names
    /\ \A w \in Windows : form[w] \subseteq Names

(* Whenever the app dies, the file holds the configuration of the last      *)
(* acknowledged update or, whole, that of the one update that was in        *)
(* progress; a failed save leaves both as they were.                        *)
CrashKeepsConfig ==
    /\ file \in Configs
    /\ up => file = acked \/ (writing # Nobody /\ file = writing.next)
    /\ up /\ writing = Nobody => file = cfg

(* Between updates the process has exactly the configured variables: those  *)
(* that were removed are gone, those that never were configured untouched.  *)
ExportedIsConfigured ==
    up /\ writing = Nobody =>
        \A n \in Names :
            process[n] = IF n \in DOMAIN cfg.env THEN cfg.env[n]
                         ELSE IF n \in exported THEN Unset ELSE Started[n]

(* A provider that needs a key is never used without one, also when the     *)
(* variable that held it goes while the run is being prepared.              *)
UsedWithKey == \A u \in used : KeyEnv[u[1]] # NoVariable => u[2] \in Values
=============================================================================
