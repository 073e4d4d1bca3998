---------------------------- MODULE ProjectInstall ----------------------------
(***************************************************************************)
(* Moving a built project into place (createProject and installProject of  *)
(* cli.mjs).                                                               *)
(*                                                                         *)
(* The build directory is in the temporary directory of the system, often  *)
(* on another file system, where a rename is refused and the project is    *)
(* copied. With --force an old project is set aside first and put back if  *)
(* the move fails. Every file operation may fail, and the process may die  *)
(* between any two. A project is "none", "old", "new", part of one         *)
(* ("part"), or something that somebody else put at the target while the   *)
(* project was built ("theirs").                                           *)
(***************************************************************************)
EXTENDS Integers

CONSTANT MaxMishaps  \* bound: file operations that fail, deaths, and intrusions

VARIABLES replacing,               \* the target existed when the build began
          target, backup, built,   \* what is in the three directories
          install,                 \* the next file operation, or how it ended
          mishaps

installVars == <<replacing, target, backup, built, install, mishaps>>

InstallInit(old, spent) ==
  /\ replacing = old
  /\ target = IF old THEN "old" ELSE "none"
  /\ backup = "none"
  /\ built = "part"
  /\ install = "build"
  /\ mishaps = spent

Mishap == mishaps < MaxMishaps /\ mishaps' = mishaps + 1

\* Somebody makes the directory while the project is being built: the check
\* that it does not exist was made before.
Intrude ==
  /\ install = "build" /\ target = "none"
  /\ Mishap
  /\ target' = "theirs"
  /\ UNCHANGED <<replacing, backup, built, install>>

\* The assets are written; the build ends here, or has failed before.
Built ==
  /\ install = "build"
  /\ built' = "new"
  /\ install' = IF replacing THEN "set_aside" ELSE "move"
  /\ UNCHANGED <<replacing, target, backup, mishaps>>

\* createProject's catch: the build directory is removed as far as possible.
Discard(why) == built' = "none" /\ install' = why
BuildFailed ==
  /\ install = "build"
  /\ Discard("failed")
  /\ UNCHANGED <<replacing, target, backup, mishaps>>

SetAside_Remove ==
  /\ install = "set_aside"
  /\ \/ target' = "none" /\ install' = "move" /\ UNCHANGED <<backup, built, mishaps>>
     \/ Mishap /\ Discard("failed") /\ UNCHANGED <<target, backup>>
  /\ UNCHANGED replacing
SetAside ==
  /\ install = "set_aside"
  /\ \/ backup' = target /\ target' = "none" /\ install' = "move" /\ UNCHANGED <<built, mishaps>>
     \/ Mishap /\ Discard("failed") /\ UNCHANGED <<target, backup>>
  /\ UNCHANGED replacing

\* The rename: done, refused because the target is on another file system, or
\* failed. A directory with something in it cannot be renamed onto.
Move ==
  /\ install = "move"
  /\ \/ target = "none" /\ target' = built /\ built' = "none" /\ install' = "cleanup" /\ UNCHANGED mishaps
     \/ install' = "copy" /\ UNCHANGED <<target, built, mishaps>>
     \/ target # "none" /\ install' = "clear" /\ UNCHANGED <<target, built, mishaps>>
     \/ Mishap /\ install' = "clear" /\ UNCHANGED <<target, built>>
  /\ UNCHANGED <<replacing, backup>>
CopyBegins ==
  /\ install = "copy"
  /\ target' = "part"
  /\ install' = "copying"
  /\ UNCHANGED <<replacing, backup, built, mishaps>>
CopyEnds ==
  /\ install = "copying"
  /\ \/ target' = built /\ built' = "none" /\ install' = "cleanup" /\ UNCHANGED mishaps
     \/ Mishap /\ install' = "clear" /\ UNCHANGED <<target, built>>
  /\ UNCHANGED <<replacing, backup>>

\* The move failed: what is at the target is removed, a failure to do so is
\* ignored; then the old project is renamed back, if there is room for it.
Clear ==
  /\ install = "clear"
  /\ \/ target' = "none" /\ UNCHANGED mishaps
     \/ Mishap /\ UNCHANGED target
  /\ install' = "restore"
  /\ UNCHANGED <<replacing, backup, built>>
Restore ==
  /\ install = "restore"
  /\ \/ /\ replacing /\ target = "none"
        /\ target' = backup /\ backup' = "none"
        /\ UNCHANGED mishaps
     \/ (~replacing \/ target # "none") /\ UNCHANGED <<target, backup, mishaps>>
     \/ replacing /\ Mishap /\ UNCHANGED <<target, backup>>
  /\ Discard("failed")
  /\ UNCHANGED replacing

\* The backup goes once the new project is in place. A failure to remove all of
\* it is reported as a failure of the command.
CleanUp ==
  /\ install = "cleanup"
  /\ \/ backup' = "none" /\ install' = "done" /\ UNCHANGED mishaps
     \/ replacing /\ Mishap /\ backup' = "part" /\ install' = "failed"
  /\ UNCHANGED <<replacing, target, built>>

\* The process dies. A removal it was in the middle of is left half done.
Die ==
  /\ install \in {"set_aside", "move", "copy", "copying", "clear", "restore", "cleanup"}
  /\ Mishap
  /\ install' = "dead"
  /\ backup' = IF install = "cleanup" /\ backup # "none" THEN "part" ELSE backup
  /\ target' = IF install = "clear" /\ target # "none" THEN "part" ELSE target
  /\ UNCHANGED <<replacing, built>>

InstallNext ==
  \/ Intrude
  \/ SetAside \/ Move \/ CopyBegins \/ CopyEnds \/ Clear \/ Restore \/ CleanUp
  \/ Die

-----------------------------------------------------------------------------
\* Replacing a project loses it at no moment, whatever fails and wherever the
\* process dies: a whole project, the old one or the new one, is at the target,
\* or the old one is beside it. One failure alone leaves a whole project at the
\* target, the new one when the command says so.
ProjectSurvives ==
  /\ replacing => target \in {"old", "new"} \/ backup = "old"
  /\ (replacing /\ install = "failed" /\ mishaps <= 1) => target \in {"old", "new"}
  /\ install = "done" => target = "new" /\ backup = "none"
=============================================================================
