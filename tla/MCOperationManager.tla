------------------------- MODULE MCOperationManager -------------------------
(* An instance of OperationManager for TLC: operations of every type.       *)
EXTENDS OperationManager

CONSTANTS shell, skill, image, value, job, job2, h1, h2

AllSpecs ==
    shell :> ShellSpec(shell, 2) @@ skill :> SkillSpec(skill) @@ image :> ImageSpec(image)
      @@ value :> ValueSpec(value)
      @@ job :> RemoteSpec(job, "plan") @@ job2 :> RemoteSpec(job2, "plan 2")

TwoPlans == h1 :> "plan" @@ h2 :> "plan 2"

(* Captures shorter and longer than the limit of two characters, of one and *)
(* of two bytes each, whole and broken.                                     *)
SomeOutputs ==
    {<< <<Ascii, Lead, Cont>>, << >>, 1 >>,
     << <<Lead, Lead, Cont, Cont, Lead>>, <<Lead, Cont, Cont>>, 0 >>,
     << <<Ascii>>, <<Lead, Cont, Lead, Cont, Lead>>, 1 >>,
     << <<Ascii, Ascii, Ascii>>, <<Lead, Cont, Lead, Cont, Cont>>, 0 >>}

(* Captures that have become longer, and shorter than what was read. *)
SomeOverwrites ==
    {<< <<Ascii, Ascii, Ascii, Lead, Cont>>, <<Ascii>> >>, << << >>, <<Ascii, Ascii, Ascii>> >>}

SomeFile == <<Ascii, Lead, Cont>>

SomeSources ==
    [header : BOOLEAN, width : {1, 3, 9}, height : {1, 4}, format : {"jpeg", "bmp", "gif"},
     decodes : {TRUE}, bytes : {3, 5}, encoded : {2}]

(* The operations that were handed to a manager. *)
Used == accepted \cup {o \in IDs : saved[o] # Specs[o]}

(* Two operations run side by side in one manager, a local one or an image  *)
(* also across a restart.  The handlers of jobs only matter to jobs.        *)
InScenario ==
    \/ Used \subseteq {shell, skill} /\ restarts = 0 /\ closed = {} /\ strays = {}
    \/ Used \subseteq {shell} /\ closed = {}
    \/ Used \subseteq {skill} /\ closed = {}
    \/ Used \subseteq {image, value} /\ closed = {}
    \/ Used \subseteq {job, job2} /\ restarts = 0
=============================================================================
