-------------------------- MODULE ProfileStorage --------------------------
(***************************************************************************)
(* The three files of an enrolled user, and everyone who writes them:      *)
(* commit_encrypted_face_profile (daemon/src/profile_storage.cpp:207-271)  *)
(* through write_file_0600 (template_crypto.cpp:153-245), the key tool,    *)
(* the template tool and the GUI's Forget Me, as processes of their own;   *)
(* and what a killed daemon or a power loss leaves of them and of the      *)
(* directory they are in.                                                  *)
(*                                                                         *)
(* The daemon's commit is modelled system call by system call where a      *)
(* crash makes a difference; the other programs, whose half-done work no   *)
(* property relies on, file by file.                                       *)
(* A definition named Fault... is the one after it with a plausible bug.   *)
(***************************************************************************)
EXTENDS Naturals, FiniteSets

CONSTANTS
  Programs,  \* the programs in use besides the daemon
  MaxKeys,   \* bound: keys generated
  AtWork     \* bound: programs besides the daemon that are half done at a time

ASSUME StorageAssumption ==
  /\ Programs \subseteq {"key_tool", "template_tool", "forget_me"}
  /\ MaxKeys \in Nat \ {0}
  /\ AtWork \in 1..3

VARIABLES
  dir,         \* the directory as programs see it
  durable,     \* for each file, what a power loss may leave in its place
  home,        \* the directory's own entry: "missing", "made" by a program and not
               \* synced by anyone since, or "lasting"
  strays,      \* temporary files left behind, under no name that is ever read
  nextKey,     \* the next key generate_random_key() returns
  stage,       \* commit: what it does next to the file it writes
  file,        \* commit: that file
  commitKey,   \* commit: the key it encrypts with
  keyTool,     \* where a running face-unlock-key-tool is
  placeholder, \* where a running face-unlock-template-tool is
  forget,      \* where the GUI's Forget Me is
  trust,       \* history: "fresh" as long as only the daemon has written,
               \* "committed" after a commit with no other writer since it began,
               \* "lost" when that went with its directory, "none" otherwise
  commitAlone, \* history: nobody else has written since the commit began
  forgotten    \* history: Forget Me has removed what it came to, and nothing
               \* that writes has begun since it did: "alone" if nothing was
               \* under way, else "shared"; "unknown" after a power loss

diskVars == <<dir, durable, strays, home>>
daemonVars == <<stage, file, commitKey>>
toolVars == <<keyTool, placeholder>>
historyVars == <<trust, commitAlone, forgotten>>
vars == <<diskVars, nextKey, daemonVars, toolVars, forget, historyVars>>

Files == {"key", "template", "manifest"}

\* A key is a number, 0 for none. A template has the key that opens it, 0 for a
\* placeholder, which has nothing to hide. A manifest is what its status says.
Keys == 0..MaxKeys
Manifests == {"none", "real", "placeholder"}

NoTemplate == [kind |-> "none", key |-> 0]
Placeholder == [kind |-> "placeholder", key |-> 0]
Templates == {NoTemplate, Placeholder} \cup [kind : {"real"}, key : Keys \ {0}]
Empty == [key |-> 0, template |-> NoTemplate, manifest |-> "none"]

TypeOK ==
  /\ dir \in [key : Keys, template : Templates, manifest : Manifests]
  /\ durable \in [key : SUBSET Keys, template : SUBSET Templates,
                  manifest : SUBSET Manifests]
  /\ strays \in [key : SUBSET Keys, template : SUBSET Templates]
  /\ home \in {"missing", "made", "lasting"}
  /\ nextKey \in 1..(MaxKeys + 1)
  /\ stage \in {"idle", "look", "read", "temp", "rename", "sync"}
  /\ file \in Files
  /\ commitKey \in Keys
  /\ keyTool \in {"idle", "write"}
  /\ placeholder \in {"idle", "template", "manifest", "delete"}
  /\ forget \in {"idle", "template", "manifest", "key"}
  /\ trust \in {"fresh", "committed", "lost", "none"}
  /\ commitAlone \in BOOLEAN
  /\ forgotten \in {"no", "alone", "shared", "unknown"}

\* The installer has made the directory a while ago, or nobody has yet.
Init ==
  /\ dir = Empty
  /\ home \in {"missing", "lasting"}
  /\ durable = [f \in Files |-> {dir[f]}]
  /\ strays = [key |-> {}, template |-> {}]
  /\ nextKey = 1
  /\ stage = "idle" /\ file = "key" /\ commitKey = 0
  /\ keyTool = "idle"
  /\ placeholder = "idle"
  /\ forget = "idle"
  /\ trust = "fresh"
  /\ commitAlone = TRUE
  /\ forgotten = "no"

----------------------------------------------------------------------------
(* Files. *)

\* create_directories() for the files: the first program that writes makes their
\* directory, and nobody syncs the one above it.
MakesHome == home' = IF home = "missing" THEN "made" ELSE home

\* rename() and unlink() are seen at once, and may or may not survive a power
\* loss until the directory is synced. The tools' own syncs, which may fail, are
\* left out: a power loss may undo more of their work than it would.
Replace(f, content) ==
  /\ dir' = [dir EXCEPT ![f] = content]
  /\ durable' = [durable EXCEPT ![f] = @ \cup {content}]

\* fsync() of the directory, which holds all three files.
Synced(directory) == [f \in Files |-> {directory[f]}]

Missing(f) == dir[f] = Empty[f]
Remove(f) == Replace(f, Empty[f])

\* What a write by a program other than the daemon does to the histories.
OtherWrites ==
  /\ trust' = "none"
  /\ commitAlone' = (stage = "idle")

\* What something new that will write files does to them.
WriterBegins ==
  forgotten' = IF forgotten \in {"no", "unknown"} THEN forgotten
               ELSE IF forget = "idle" THEN "no" ELSE "shared"

\* The commit is over, and its variables with it.
CommitEnds ==
  /\ stage' = "idle"
  /\ file' = "key" /\ commitKey' = 0
  /\ commitAlone' = TRUE

----------------------------------------------------------------------------
(* The daemon's commit. *)

\* ensure_private_parent(), and the commit is on its way.
CommitBegins ==
  /\ stage = "idle"
  /\ stage' = "look"
  /\ MakesHome
  /\ WriterBegins
  /\ UNCHANGED <<dir, durable, strays, nextKey, file, commitKey, toolVars, forget,
                 trust, commitAlone>>

FaultLookForKey ==
  /\ stage = "look"
  /\ nextKey \in Keys
  /\ stage' = "temp"
  /\ file' = "key"
  /\ commitKey' = nextKey
  /\ nextKey' = nextKey + 1
  /\ UNCHANGED <<diskVars, toolVars, forget, historyVars>>

\* The key file is used if it is there; if not, a new key is to be written first.
LookForKey ==
  /\ stage = "look"
  /\ \/ /\ ~Missing("key")
        /\ stage' = "read"
        /\ UNCHANGED <<nextKey, file, commitKey>>
     \/ /\ Missing("key")
        /\ nextKey \in Keys
        /\ stage' = "temp"
        /\ file' = "key"
        /\ commitKey' = nextKey
        /\ nextKey' = nextKey + 1
  /\ UNCHANGED <<diskVars, toolVars, forget, historyVars>>

FaultReadKey ==
  /\ stage = "read"
  /\ stage' = "temp"
  /\ file' = "template"
  /\ commitKey' = dir.key
  /\ UNCHANGED <<diskVars, nextKey, toolVars, forget, historyVars>>

\* read_key() of a file that may have gone or changed since it was seen.
ReadKey ==
  /\ stage = "read" /\ ~Missing("key")
  /\ stage' = "temp"
  /\ file' = "template"
  /\ commitKey' = dir.key
  /\ UNCHANGED <<diskVars, nextKey, toolVars, forget, historyVars>>

\* What the commit writes to the file it is at.
Content ==
  IF file = "key" THEN commitKey
  ELSE IF file = "template" THEN [kind |-> "real", key |-> commitKey]
  ELSE "real"

\* mkstemp to close: the content is on disk, under a temporary name.
WriteTemporary ==
  /\ stage = "temp"
  /\ stage' = "rename"
  /\ UNCHANGED <<diskVars, nextKey, file, commitKey, toolVars, forget,
                 historyVars>>

RenameTemporary ==
  /\ stage = "rename"
  /\ Replace(file, Content)
  /\ stage' = "sync"
  /\ UNCHANGED <<strays, home, nextKey, file, commitKey, toolVars, forget,
                 historyVars>>

\* The order in which the files are written.
NextFile == [key |-> "template", template |-> "manifest", manifest |-> "done"]

FaultSyncDirectory ==
  /\ stage = "sync"
  /\ IF NextFile[file] = "done"
     THEN /\ trust' = IF commitAlone THEN "committed" ELSE trust
          /\ CommitEnds
     ELSE /\ stage' = "temp"
          /\ file' = NextFile[file]
          /\ UNCHANGED <<commitKey, trust, commitAlone>>
  /\ UNCHANGED <<diskVars, nextKey, toolVars, forget, forgotten>>

\* fsync() of the directory: the file is safe; the next one, or success.
SyncDirectory ==
  /\ stage = "sync"
  /\ durable' = Synced(dir)
  /\ IF NextFile[file] = "done"
     THEN /\ trust' = IF commitAlone THEN "committed" ELSE trust
          /\ CommitEnds
     ELSE /\ stage' = "temp"
          /\ file' = NextFile[file]
          /\ UNCHANGED <<commitKey, trust, commitAlone>>
  /\ UNCHANGED <<dir, strays, home, nextKey, toolVars, forget, forgotten>>

\* Any call may fail: the temporary file is unlinked, a rename that was done
\* stays, and the commit reports a failure.
CommitFails ==
  /\ stage # "idle"
  /\ CommitEnds
  /\ UNCHANGED <<diskVars, nextKey, toolVars, forget, trust, forgotten>>

\* A temporary file that is neither renamed nor unlinked stays.
TemporaryStays ==
  IF stage = "rename" /\ file # "manifest"
  THEN [strays EXCEPT ![file] = @ \cup {Content}] ELSE strays

\* The daemon is killed.
DaemonDies ==
  /\ stage # "idle"
  /\ CommitEnds
  /\ strays' = TemporaryStays
  /\ UNCHANGED <<dir, durable, home, nextKey, toolVars, forget, trust, forgotten>>

----------------------------------------------------------------------------
(* The tools and the GUI. *)

HalfDone == {p \in 1..3 : <<keyTool, placeholder, forget>>[p] # "idle"}
MayBegin == Cardinality(HalfDone) < AtWork

\* create-dev-key, which looks for a key unless told to overwrite it...
KeyToolCreates(overwrite) ==
  /\ keyTool = "idle" /\ nextKey \in Keys /\ MayBegin
  /\ overwrite \/ Missing("key")
  /\ keyTool' = "write"
  /\ MakesHome
  /\ UNCHANGED <<dir, durable, strays, nextKey, daemonVars, placeholder, forget,
                 historyVars>>

\* ... and then writes one.
KeyOtherWrites ==
  /\ keyTool = "write" /\ nextKey \in Keys
  /\ Replace("key", nextKey)
  /\ nextKey' = nextKey + 1
  /\ keyTool' = "idle"
  /\ OtherWrites
  /\ WriterBegins
  /\ UNCHANGED <<strays, home, daemonVars, placeholder, forget>>

KeyToolDeletes ==
  /\ keyTool = "idle" /\ ~Missing("key")
  /\ Remove("key")
  /\ OtherWrites
  /\ UNCHANGED <<strays, home, nextKey, daemonVars, toolVars, forget, forgotten>>

\* create-placeholder, which looks for a template unless told to overwrite it.
PlaceholderBegins(overwrite) ==
  /\ placeholder = "idle" /\ MayBegin
  /\ overwrite \/ Missing("template")
  /\ placeholder' = "template"
  /\ MakesHome
  /\ UNCHANGED <<dir, durable, strays, nextKey, daemonVars, keyTool, forget,
                 historyVars>>

PlaceholderWrites ==
  /\ \/ /\ placeholder = "template"
        /\ Replace("template", Placeholder)
        /\ placeholder' = "manifest"
     \/ /\ placeholder = "manifest"
        /\ Replace("manifest", "placeholder")
        /\ placeholder' = "idle"
  /\ OtherWrites
  /\ WriterBegins
  /\ UNCHANGED <<strays, home, nextKey, daemonVars, keyTool, forget>>

\* template-tool delete: the template, if it is there, and then the manifest.
TemplateToolDeletes ==
  /\ \/ /\ placeholder = "idle" /\ ~Missing("template") /\ MayBegin
        /\ Remove("template")
        /\ placeholder' = "delete"
     \/ /\ \/ placeholder = "idle" /\ Missing("template")
           \/ placeholder = "delete"
        /\ Remove("manifest")
        /\ placeholder' = "idle"
  /\ OtherWrites
  /\ UNCHANGED <<strays, home, nextKey, daemonVars, keyTool, forget, forgotten>>

\* A tool fails or is interrupted where it is.
ToolStops ==
  /\ \/ /\ keyTool # "idle"
        /\ keyTool' = "idle"
        /\ UNCHANGED placeholder
     \/ /\ placeholder # "idle"
        /\ placeholder' = "idle"
        /\ UNCHANGED keyTool
  /\ UNCHANGED <<diskVars, nextKey, daemonVars, forget, historyVars>>

\* Forget Me is confirmed. Its enrollment_cancel erases a session, but does not
\* stop a commit: when one is running the request waits, and the GUI gives up
\* waiting and goes on (gui/src/main.cpp:341).
ForgetBegins ==
  /\ forget = "idle" /\ MayBegin
  /\ forget' = "template"
  /\ forgotten' = IF forgotten = "unknown" THEN "unknown"
                  ELSE IF stage = "idle" /\ keyTool = "idle" /\ placeholder = "idle"
                  THEN "alone" ELSE "shared"
  /\ UNCHANGED <<diskVars, nextKey, daemonVars, toolVars, trust, commitAlone>>

FaultForgetAfter ==
  [template |-> "manifest", manifest |-> "idle", key |-> "idle"]

\* The order in which removeIfExists is called.
ForgetAfter == [template |-> "manifest", manifest |-> "key", key |-> "idle"]

ForgetRemoves ==
  /\ forget # "idle"
  /\ Remove(forget)
  /\ forget' = ForgetAfter[forget]
  /\ OtherWrites
  /\ UNCHANGED <<strays, home, nextKey, daemonVars, toolVars, forgotten>>

\* A file that cannot be removed is reported, and the others are still tried.
ForgetFails ==
  /\ forget # "idle" /\ ~Missing(forget)
  /\ forget' = ForgetAfter[forget]
  /\ forgotten' = IF forgotten = "unknown" THEN "unknown" ELSE "no"
  /\ UNCHANGED <<diskVars, nextKey, daemonVars, toolVars, trust, commitAlone>>

----------------------------------------------------------------------------
(* The power. *)

\* Every file is found as it was at its last sync, or as it was made since, but a
\* directory that was only made may be gone with all of them. Which temporary names
\* come back is not modelled; `forgotten' records that from now on they are not known.
PowerLoss ==
  /\ \/ /\ home # "missing"
        /\ \E k \in durable.key, t \in durable.template, m \in durable.manifest :
             dir' = [key |-> k, template |-> t, manifest |-> m]
        /\ home' = "lasting"
        /\ UNCHANGED trust
     \/ /\ home # "lasting"
        /\ dir' = Empty
        /\ home' = "missing"
        /\ trust' = IF trust = "committed" THEN "lost" ELSE trust
  /\ strays' = [key |-> {}, template |-> {}]
  /\ durable' = Synced(dir')
  /\ CommitEnds
  /\ keyTool' = "idle"
  /\ placeholder' = "idle"
  /\ forget' = "idle"
  /\ forgotten' = "unknown"
  /\ UNCHANGED nextKey

Commit ==
  \/ CommitBegins \/ LookForKey \/ ReadKey
  \/ WriteTemporary \/ RenameTemporary \/ SyncDirectory
  \/ CommitFails \/ DaemonDies

KeyTool ==
  /\ "key_tool" \in Programs
  /\ \/ \E overwrite \in BOOLEAN : KeyToolCreates(overwrite)
     \/ KeyOtherWrites \/ KeyToolDeletes

TemplateTool ==
  /\ "template_tool" \in Programs
  /\ \/ \E overwrite \in BOOLEAN : PlaceholderBegins(overwrite)
     \/ PlaceholderWrites \/ TemplateToolDeletes

ForgetMe == "forget_me" \in Programs /\ (ForgetBegins \/ ForgetRemoves \/ ForgetFails)

Next == Commit \/ KeyTool \/ TemplateTool \/ ToolStops \/ ForgetMe \/ PowerLoss

Spec == Init /\ [][Next]_vars
----------------------------------------------------------------------------
\* The template is a real profile that the key file opens.
Readable == dir.template.kind = "real" /\ dir.template.key = dir.key

\* As long as only the daemon writes, a manifest that says "real" has a profile
\* behind it that can be decrypted, whatever commits have failed half way
\* (profile_storage.cpp:234-260), at every moment, and after any crash.
ManifestIsBacked ==
  trust # "none" /\ dir.manifest = "real" => Readable

\* What a commit reported as committed stays committed: no later commit that
\* fails, no crash and no power loss takes it back, but for one that takes a directory
\* whose own entry nobody has synced since it was made (profile_storage.cpp:34-53).
CommittedIsKept ==
  trust = "committed" => dir.manifest = "real" /\ Readable

\* When Forget Me had the files for itself and the power stayed on, no template that
\* is left, not even a temporary file of a commit that died, has its key left anywhere
\* (gui/src/main.cpp:341-347).
NothingReadableIsLeft ==
  forget = "idle" /\ forgotten = "alone" =>
    \A t \in strays.template \cup {dir.template} :
      t.key # 0 => t.key \notin strays.key \cup {dir.key}

\* docs/gui.md:71 says that Forget Me "first cancels any active enrollment" and
\* then removes all three files: they are gone. But it does not wait for a commit that
\* is running (gui/src/main.cpp:341), which then writes them again.
ForgottenStaysForgotten ==
  forget = "idle" /\ forgotten \in {"alone", "shared"} => dir = Empty
=============================================================================
