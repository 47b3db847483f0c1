---------------------------- MODULE ToolRegistry ----------------------------
(***************************************************************************)
(* The tools of a session (harness/tool): the skills found in a workspace,  *)
(* the registry that holds the selected static tools and the registered     *)
(* skills, and the translation of a model's call into an operation or an    *)
(* error.  Every method of the registry is atomic under its mutex.          *)
(***************************************************************************)
EXTENDS Naturals, Sequences, SequencesExt, FiniteSets, TLC

CONSTANTS
    Static,      \* names of the static tools
    Enabled,     \* names selected at construction
    Configured,  \* static tools with a translator of their own
    Files,       \* contents a SKILL.md may have: [read, closed, name, description]
    Paths,       \* paths of SKILL.md files in the workspace
    Builtin,     \* skills of the app itself: sequence of [name, path]; none in the runner
    Calls,       \* calls a model may make: [tool, arguments]
    MaxIDs       \* bound: registrations

Blank == ""

VARIABLES
    workspace,   \* path -> contents
    found,       \* DiscoverSkills: [skills, errors], or nothing yet
    skills,      \* registration -> skill
    idByPath,    \* skillIDsByPath
    order,       \* skillOrder
    used,        \* registrations handed out
    refused,     \* history: a discovered skill could not be registered
    call         \* the last call, and what became of it

vars == <<workspace, found, skills, idByPath, order, used, refused, call>>

NoCall == [tool |-> "none", status |-> "none", operation |-> "none"]

Init ==
    /\ workspace \in [Paths -> Files]
    /\ found = [done |-> FALSE, skills |-> <<>>, errors |-> 0]
    /\ skills = <<>> /\ idByPath = <<>> /\ order = <<>>
    /\ used = 0
    /\ refused = FALSE
    /\ call = NoCall

-----------------------------------------------------------------------------
(* Discovery. *)

(* parseSkillFrontmatter and validateSkill *)
Readable(file) ==
    /\ file.read /\ file.closed
    /\ file.name # Blank /\ file.description # Blank

FreshName(list, name) == \A i \in DOMAIN list : list[i].name # name

(* One file: a skill, or an error that is reported and skipped. *)
Discover(state, path) ==
    LET file == workspace[path]
    IN  IF Readable(file) /\ FreshName(state.skills, file.name)
        THEN [state EXCEPT !.skills = Append(@, [name |-> file.name, path |-> path])]
        ELSE [state EXCEPT !.errors = @ + 1]

(* App.skills: a skill of the app, unless the workspace overrides it. *)
AddBuiltin(state, skill) ==
    IF FreshName(state.skills, skill.name) THEN [state EXCEPT !.skills = Append(@, skill)] ELSE state

(* DiscoverSkills, in the order of the paths, and then those of the app. *)
DiscoverSkills ==
    /\ ~found.done
    /\ found' = FoldLeft(AddBuiltin,
                         FoldLeft(Discover, [found EXCEPT !.done = TRUE], SetToSeq(Paths)), Builtin)
    /\ UNCHANGED <<workspace, skills, idByPath, order, used, refused, call>>

-----------------------------------------------------------------------------
(* The registry. *)

Taken(skill) ==
    \/ skill.path \in DOMAIN idByPath
    \/ \E id \in DOMAIN skills : skills[id].name = skill.name

RegisterSkill(skill) ==
    /\ used < MaxIDs
    /\ IF Taken(skill)
       THEN /\ refused' = (refused \/ used < Len(found.skills))
            /\ UNCHANGED <<skills, idByPath, order, used>>
       ELSE /\ used' = used + 1
            /\ skills' = (used + 1) :> skill @@ skills
            /\ idByPath' = skill.path :> (used + 1) @@ idByPath
            /\ order' = Append(order, used + 1)
            /\ UNCHANGED refused
    /\ UNCHANGED <<workspace, found, call>>

Without(f, x) == [y \in DOMAIN f \ {x} |-> f[y]]

(* Faulty variant: the path stays taken. *)
PathKept(path) == idByPath

PathFreed(path) == Without(idByPath, path)

UnregisterSkill(id) ==
    /\ id \in DOMAIN skills
    /\ skills' = Without(skills, id)
    /\ idByPath' = PathFreed(skills[id].path)
    /\ order' = SelectSeq(order, LAMBDA x : x # id)
    /\ UNCHANGED <<workspace, found, used, refused, call>>

(* The runner and the app register what was found, in order, in an empty    *)
(* registry; the skills may be changed after that.                          *)
Register ==
    /\ found.done
    /\ IF used < Len(found.skills)
       THEN RegisterSkill(found.skills[used + 1])
       ELSE \E i \in DOMAIN found.skills : RegisterSkill(found.skills[i])

-----------------------------------------------------------------------------
(* Calls. *)

Resolves(tool) == tool \in Static /\ tool \in Enabled

(* resolveSkill: the first of the name in the order of registration. *)
SkillNamed(name) ==
    SelectSeq(order, LAMBDA id : skills[id].name = name)

Status(tool, status, operation) == [tool |-> tool, status |-> status, operation |-> operation]

(* Translate: arguments are what the translators tell apart, "malformed",   *)
(* Blank for one that is missing, "NUL" for a NUL byte, else the argument.  *)
Translated(c) ==
    LET error == Status(c.tool, "error", "none")
        submit(spec) == Status(c.tool, "waiting", spec)
    IN  IF c.tool \notin Configured \cup {"SkillUse"} THEN error
        ELSE IF c.arguments \in {"malformed", Blank} THEN error
        ELSE IF c.tool = "SkillUse"
             THEN IF SkillNamed(c.arguments) = <<>> THEN error
                  ELSE submit(skills[SkillNamed(c.arguments)[1]].path)
        ELSE IF c.arguments = "NUL" THEN error
        ELSE submit(c.arguments)

(* The coordinator resolves the tool of a call and lets it translate. *)
Call(c) ==
    /\ call' = IF Resolves(c.tool) THEN Translated(c) ELSE Status(c.tool, "unknown", "none")
    /\ UNCHANGED <<workspace, found, skills, idByPath, order, used, refused>>

Next ==
    \/ DiscoverSkills \/ Register
    \/ \E id \in 1..used : UnregisterSkill(id)
    \/ \E c \in Calls : Call(c)

Spec == Init /\ [][Next]_vars

-----------------------------------------------------------------------------
(* Properties. *)

(* The three indexes describe the same set of skills: nothing in the order  *)
(* that is gone, nothing registered that is not in it, and no path taken by *)
(* a skill that was unregistered.                                           *)
IndexesAgree ==
    /\ ToSet(order) = DOMAIN skills /\ IsInjective(order)
    /\ DOMAIN idByPath = {skills[id].path : id \in DOMAIN skills}
    /\ \A path \in DOMAIN idByPath : skills[idByPath[path]].path = path

(* What discovery returns can be registered as it is, skills of the app     *)
(* included: the runner (run.go) and the app (prepareRun) give up at the    *)
(* first skill that is refused.                                             *)
DiscoveredCanBeRegistered == ~refused

(* A call only submits an operation for a tool that was selected, and a     *)
(* SkillUse call only for the file of a skill that can be read; one of the  *)
(* app only if the workspace has none of that name.                         *)
OnlySelected ==
    call.operation # "none" =>
        /\ call.tool \in Enabled
        /\ call.tool = "SkillUse" =>
            \/ call.operation \in Paths /\ Readable(workspace[call.operation])
            \/ \E i \in DOMAIN Builtin :
                /\ Builtin[i].path = call.operation
                /\ \A path \in Paths : Readable(workspace[path]) => workspace[path].name # Builtin[i].name
=============================================================================
